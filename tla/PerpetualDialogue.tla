-------------------------- MODULE PerpetualDialogue --------------------------
(***************************************************************************)
(* PerpetualDialogueStore (perpetual_dialogue.py): one conversation, its   *)
(* work items, the batons handed to agents' turns, the wakes that continue *)
(* a work item after a baton is closed, and the owner's control.  Every    *)
(* operation is one BEGIN IMMEDIATE transaction and is one action here.    *)
(* A repeated request answers with the stored receipt (_replay) and        *)
(* changes nothing: it is a stuttering step.                               *)
(*                                                                         *)
(* A wake belongs to the baton whose closing made it (source_baton_id is   *)
(* UNIQUE), so wakes are indexed by baton.  A scheduler is a client of the *)
(* store: lease is what the reply to its last claim told it.               *)
(***************************************************************************)
EXTENDS Naturals, FiniteSets

CONSTANTS Works, Participants, TurnIds,
          Schedulers,      \* scheduler processes
          SchedulerId(_),  \* the scheduler_id a process runs under; a restart keeps it
          Batons,     \* identities of batons: an interval 1..N
          MaxBudget,  \* wake budgets are 1..MaxBudget (the code: 1..1024)
          MaxGen,     \* bound on owner controls
          MaxExpiry   \* bound on scheduler leases that run out

ASSUME DialogueAssumption ==
  /\ Batons \subseteq Nat \ {0} /\ MaxBudget \in Nat \ {0} /\ MaxGen \in Nat /\ MaxExpiry \in Nat

VARIABLES conv,     \* [status, gen]
          work,     \* Works -> [status, fence]
          baton,    \* Batons -> NoBaton or [status, work, agent, turn, disp, told]
          wake,     \* Batons -> NoWake or [status, target, auth, budget, holder, fence, late, next]
          sealed,   \* turns (agent, turn_id) sealed by seal_turn_exit
          lease,    \* Schedulers -> NoLease or [baton, fence, gen]
          expired   \* number of leases that ran out

dialogueVars == <<conv, work, baton, wake, sealed, lease, expired>>

NoBaton == [status |-> "NONE"]
NoWake == [status |-> "NONE"]
NoLease == [baton |-> 0, fence |-> 0, gen |-> 0]
NoHolder == "nobody"

Live == {"PENDING", "WAITING", "LEASED"}
Closing == {"CONTINUE", "WAIT", "HOLD", "WORK_COMPLETE"}
Continuing == {"CONTINUE", "WAIT"}

OpenBaton(w) == {b \in Batons : baton[b].status = "OPEN" /\ baton[b].work = w}
LiveWake(w) == {b \in Batons : wake[b].status \in Live /\ baton[b].work = w}

\* active_count of close_baton and of RESUME, over the rows as they will be.
Active(bs, ws) ==
  \E b \in Batons : bs[b].status = "OPEN" \/ ws[b].status \in {"PENDING", "LEASED"}

\* Identities are digests; only their freshness matters.
Fresh(b) == /\ baton[b] = NoBaton
            /\ \A c \in Batons : c < b => baton[c] # NoBaton

DialogueInit ==
  /\ conv = [status |-> "NONE", gen |-> 0]
  /\ work = [w \in Works |-> [status |-> "NONE", fence |-> 0]]
  /\ baton = [b \in Batons |-> NoBaton]
  /\ wake = [b \in Batons |-> NoWake]
  /\ sealed = {}
  /\ lease = [s \in Schedulers |-> NoLease]
  /\ expired = 0

OpenConversation ==
  /\ conv.status = "NONE"
  /\ conv' = [status |-> "ACTIVE", gen |-> 0]
  /\ UNCHANGED <<work, baton, wake, sealed, lease, expired>>

OpenWorkItem(w) ==
  /\ conv.status \in {"ACTIVE", "IDLE"}
  /\ work[w].status = "NONE"
  /\ work' = [work EXCEPT ![w] = [status |-> "OPEN", fence |-> 1]]
  /\ conv' = [conv EXCEPT !.status = "ACTIVE"]
  /\ UNCHANGED <<baton, wake, sealed, lease, expired>>

\* told: the fence the recipient reads in the snapshot with its baton.
NewBaton(w, a, t, fence) ==
  [status |-> "OPEN", work |-> w, agent |-> a, turn |-> t, disp |-> "NONE", told |-> fence]

\* Mutated form: a live continuation does not stop a second baton.
NoContinuationIgnored(w) == OpenBaton(w) = {}

\* Neither an open baton nor a durable continuation.
NoContinuation(w) == OpenBaton(w) = {} /\ LiveWake(w) = {}

\* parent \in Batons \cup {0}: 0 is None.
IssueBaton(w, a, t, parent, b) ==
  /\ conv.status = "ACTIVE"
  /\ work[w].status = "OPEN"
  /\ NoContinuation(w)
  /\ parent # 0 => baton[parent].status = "CLOSED" /\ baton[parent].work = w
  /\ Fresh(b)
  /\ baton' = [baton EXCEPT ![b] = NewBaton(w, a, t, work[w].fence)]
  /\ UNCHANGED <<conv, work, wake, sealed, lease, expired>>

ParentWake(b) == {c \in Batons : wake[c].status # "NONE" /\ wake[c].next = b}

\* Mutated form: an agent replenishes the budget.
BudgetReplenished(b, budget) == TRUE

\* A child's wakes come out of what its parent's wake has left.
BudgetGranted(b, budget) ==
  \A c \in ParentWake(b) : wake[c].status = "CONSUMED" /\ budget <= wake[c].budget

NewWake(status, target, auth, budget) ==
  [status |-> status, target |-> target, auth |-> auth, budget |-> budget,
   holder |-> NoHolder, fence |-> 0, late |-> FALSE, next |-> 0]

\* Mutated form: a wait counts as activity no more than a due wake does.
RestingIdle(bs, ws) == IF \E b \in Batons : bs[b].status = "OPEN" THEN "ACTIVE" ELSE "IDLE"

\* The status of a conversation nobody holds back.
Resting(bs, ws) == IF Active(bs, ws) THEN "ACTIVE" ELSE "IDLE"

\* close_baton, and close_baton_and_schedule_continuation, which calls it.
CloseBaton(b, disp, target, auth, budget) ==
  LET w == baton[b].work
      closed == [baton EXCEPT ![b].status = "CLOSED", ![b].disp = disp]
      woken == IF disp \notin Continuing THEN wake
               ELSE [wake EXCEPT ![b] =
                       NewWake(IF disp = "CONTINUE" THEN "PENDING" ELSE "WAITING",
                               target, auth, budget)]
  IN /\ baton[b].status = "OPEN"
     /\ conv.status # "STOPPED"
     /\ conv.status = "DRAINING" => disp \notin Continuing
     /\ work[w].status = "OPEN"
     /\ work[w].fence = baton[b].told
     /\ disp \in Continuing => BudgetGranted(b, budget)
     /\ baton' = closed
     /\ wake' = woken
     /\ work' = CASE disp = "HOLD" -> [work EXCEPT ![w].status = "BLOCKED"]
                  [] disp = "WORK_COMPLETE" -> [work EXCEPT ![w].status = "COMPLETE"]
                  [] OTHER -> work
     /\ conv' = IF conv.status \in {"ACTIVE", "IDLE"}
                THEN [conv EXCEPT !.status = Resting(closed, woken)] ELSE conv
     /\ UNCHANGED <<sealed, lease, expired>>

AdmitWakeEvent(b) ==
  /\ wake[b].status = "WAITING"
  /\ conv.status # "STOPPED"
  /\ wake' = [wake EXCEPT ![b].status = "PENDING"]
  /\ conv' = IF conv.status = "IDLE" THEN [conv EXCEPT !.status = "ACTIVE"] ELSE conv
  /\ UNCHANGED <<work, baton, sealed, lease, expired>>

\* The clock passes lease_expires_at.
LeaseRunsOut(b) ==
  /\ wake[b].status = "LEASED" /\ ~wake[b].late
  /\ expired < MaxExpiry
  /\ expired' = expired + 1
  /\ wake' = [wake EXCEPT ![b].late = TRUE]
  /\ UNCHANGED <<conv, work, baton, sealed, lease>>

\* lease_fence of the row is the fence the work has from now on.
ClaimDueWake(s, b) ==
  LET w == baton[b].work
      fence == work[w].fence + 1
  IN /\ conv.status = "ACTIVE"
     /\ wake[b].status = "PENDING" \/ (wake[b].status = "LEASED" /\ wake[b].late)
     /\ work[w].status = "OPEN"
     /\ wake[b].budget >= 1
     /\ work' = [work EXCEPT ![w].fence = fence]
     /\ wake' = [wake EXCEPT ![b].status = "LEASED", ![b].holder = SchedulerId(s),
                             ![b].fence = fence, ![b].late = FALSE]
     /\ lease' = [lease EXCEPT ![s] = [baton |-> b, fence |-> fence, gen |-> conv.gen]]
     /\ UNCHANGED <<conv, baton, sealed, expired>>

\* A scheduler repeats a claim it made: the stored receipt comes with the fence the
\* row has now, which may be that of a later claim.
ReplayClaim(s, b) ==
  /\ lease[s].baton = b
  /\ lease' = [lease EXCEPT ![s] = [baton |-> b, fence |-> wake[b].fence, gen |-> conv.gen]]
  /\ UNCHANGED <<conv, work, baton, wake, sealed, expired>>

\* Mutated form: the fences are not compared.
HoldsLeaseById(s, b) ==
  /\ wake[b].status = "LEASED"
  /\ wake[b].holder = SchedulerId(s)
  /\ ~wake[b].late

\* The wake is leased to this scheduler under the fence it presents, in time.
HoldsLease(s, b) ==
  /\ wake[b].status = "LEASED"
  /\ wake[b].holder = SchedulerId(s)
  /\ wake[b].fence = lease[s].fence
  /\ work[baton[b].work].fence = lease[s].fence
  /\ ~wake[b].late

\* A wake that needs authority is never consumed: _fresh_authority always raises.
IssueNextBaton(s, b, t, c) ==
  /\ lease[s].baton = b
  /\ conv.status = "ACTIVE"
  /\ work[baton[b].work].status = "OPEN"
  /\ HoldsLease(s, b)
  /\ OpenBaton(baton[b].work) = {}
  /\ baton[b].status = "CLOSED"
  /\ wake[b].budget >= 1
  /\ ~wake[b].auth
  /\ Fresh(c)
  /\ baton' = [baton EXCEPT ![c] = NewBaton(baton[b].work, wake[b].target, t,
                                            work[baton[b].work].fence)]
  /\ wake' = [wake EXCEPT ![b].status = "CONSUMED", ![b].next = c, ![b].budget = @ - 1]
  /\ lease' = [lease EXCEPT ![s] = NoLease]
  /\ UNCHANGED <<conv, work, sealed, expired>>

----------------------------------------------------------------------------
(* The owner's control.                                                    *)

Leased(w) == \E b \in Batons : wake[b].status = "LEASED" /\ baton[b].work = w

\* _revoke_scheduler_leases
RevokeSchedulerLeases ==
  /\ work' = [w \in Works |-> IF Leased(w) THEN [work[w] EXCEPT !.fence = @ + 1] ELSE work[w]]
  /\ wake' = [b \in Batons |->
                IF wake[b].status # "LEASED" THEN wake[b]
                ELSE [wake[b] EXCEPT !.status = "PENDING", !.holder = NoHolder,
                                     !.fence = 0, !.late = FALSE]]

\* One control of the owner, who read the generation: the next one.
Controlled(status) ==
  /\ conv.gen < MaxGen
  /\ conv.status \notin {"NONE", "STOPPED"}
  /\ conv' = [status |-> status, gen |-> conv.gen + 1]

\* PAUSE, THROTTLE, DRAIN
HoldBack(status) ==
  /\ conv.status # status
  /\ Controlled(status)
  /\ RevokeSchedulerLeases
  /\ UNCHANGED <<baton, sealed, lease, expired>>

Resume ==
  /\ conv.status \in {"PAUSED", "THROTTLED", "DRAINING"}
  /\ Controlled(Resting(baton, wake))
  /\ UNCHANGED <<work, baton, wake, sealed, lease, expired>>

Stop ==
  /\ Controlled("STOPPED")
  /\ work' = [w \in Works |->
                IF work[w].status = "OPEN" THEN [work[w] EXCEPT !.fence = @ + 1] ELSE work[w]]
  /\ wake' = [b \in Batons |->
                IF wake[b].status \in Live THEN [wake[b] EXCEPT !.status = "CANCELLED"]
                ELSE wake[b]]
  /\ baton' = [b \in Batons |->
                IF baton[b].status = "OPEN" THEN [baton[b] EXCEPT !.status = "CANCELLED"]
                ELSE baton[b]]
  /\ UNCHANGED <<sealed, lease, expired>>

----------------------------------------------------------------------------
(* The end of a turn.                                                      *)

Processed(a, t) ==
  {b \in Batons : baton[b].status # "NONE" /\ baton[b].agent = a /\ baton[b].turn = t}

\* The durable outcome seal_turn_exit demands of a baton that is not open.
Settled(b) ==
  \/ baton[b].status = "CANCELLED" /\ conv.status = "STOPPED"
  \/ /\ baton[b].status = "CLOSED"
     /\ CASE baton[b].disp \in Continuing ->
               /\ wake[b].status # "NONE"
               /\ wake[b].status = "CANCELLED" => conv.status = "STOPPED"
          [] baton[b].disp = "WORK_COMPLETE" -> work[baton[b].work].status = "COMPLETE"
          [] OTHER -> work[baton[b].work].status = "BLOCKED"

SealTurnExit(a, t) ==
  /\ <<a, t>> \notin sealed
  /\ Processed(a, t) # {}
  /\ \A b \in Processed(a, t) : Settled(b)
  /\ sealed' = sealed \cup {<<a, t>>}
  /\ UNCHANGED <<conv, work, baton, wake, lease, expired>>

----------------------------------------------------------------------------
Schedule(s) ==
  \E b \in Batons :
    \/ ClaimDueWake(s, b)
    \/ ReplayClaim(s, b)
    \/ \E t \in TurnIds, c \in Batons : IssueNextBaton(s, b, t, c)

Owner ==
  \/ \E status \in {"PAUSED", "THROTTLED", "DRAINING"} : HoldBack(status)
  \/ Resume
  \/ Stop

DialogueNext ==
  \/ OpenConversation
  \/ \E w \in Works : OpenWorkItem(w)
  \/ \E w \in Works, a \in Participants, t \in TurnIds, parent \in Batons \cup {0}, b \in Batons :
       IssueBaton(w, a, t, parent, b)
  \/ \E b \in Batons, disp \in Closing, target \in Participants, auth \in BOOLEAN :
       \E n \in 1..MaxBudget : CloseBaton(b, disp, target, auth, n)
  \/ \E b \in Batons : AdmitWakeEvent(b) \/ LeaseRunsOut(b)
  \/ \E s \in Schedulers : Schedule(s)
  \/ Owner
  \/ \E a \in Participants, t \in TurnIds : SealTurnExit(a, t)

DialogueSpec == DialogueInit /\ [][DialogueNext]_dialogueVars

----------------------------------------------------------------------------
Issued(w) == {b \in Batons : baton[b].status # "NONE" /\ baton[b].work = w}

\* What carries a work item on: its open baton, or the baton whose wake is due,
\* awaited or leased.
Carriers(w) == OpenBaton(w) \cup LiveWake(w)

\* No work is lost or doubled: until the owner stops the conversation, a work item
\* that is open and was ever handed out has exactly one thing that carries it on, and
\* one that is blocked or complete has none.  A baton carries in one way only.
NothingLost ==
  conv.status # "STOPPED" =>
    /\ \A w \in Works :
         IF work[w].status = "OPEN" /\ Issued(w) # {}
         THEN \E b \in Batons : Carriers(w) = {b}
         ELSE Carriers(w) = {}
    /\ \A b \in Batons : baton[b].status = "OPEN" => wake[b] = NoWake

\* Work that was handed out does not stall behind a check of the store, as long as the
\* owner does not hold the conversation back.  Agents and schedulers are served only
\* while it is ACTIVE: it is, if a baton is open or a wake is due, and work that was
\* handed out rests in an IDLE conversation only to wait for an event.  A wake that is
\* due passes every test of claim_due_wake and issue_next_baton but that of the
\* authority; and a baton made from a wake keeps the fence and the recipient by which
\* the transport recognises it.  Nothing is said of work that is open and was never
\* handed out.  It does stall: close_baton and RESUME do not count it, and issue_baton
\* refuses it in an IDLE conversation until other work is opened or an event admitted.
StartedNeverStalls ==
  conv.status \in {"ACTIVE", "IDLE"} =>
    /\ \A w \in Works :
         conv.status = "IDLE" /\ work[w].status = "OPEN" /\ Issued(w) # {} =>
           \E b \in Batons : wake[b].status = "WAITING" /\ baton[b].work = w
    /\ \A b \in Batons :
         /\ baton[b].status = "OPEN" \/ wake[b].status \in {"PENDING", "LEASED"} =>
              conv.status = "ACTIVE"
         /\ wake[b].status \in Live =>
              /\ work[baton[b].work].status = "OPEN" /\ baton[b].status = "CLOSED"
              /\ OpenBaton(baton[b].work) = {} /\ wake[b].budget >= 1
         /\ wake[b].status = "LEASED" => wake[b].fence = work[baton[b].work].fence
         /\ wake[b].status = "CONSUMED" /\ baton[wake[b].next].status = "OPEN" =>
              LET c == wake[b].next
              IN baton[c].agent = wake[b].target /\ work[baton[c].work].fence = wake[b].fence

\* A turn can always end.  Whatever the schedulers and the owner did meanwhile, an
\* open baton can be closed with the fence its holder was told, and a baton that is
\* no longer open has the durable outcome seal_turn_exit asks for: the errors it
\* guards against ("cancelled without owner STOP", "has no durable continuation",
\* "is not durable") never come up, and neither do those of reconcile_baton_close.
TurnsCanEnd ==
  \A b \in Batons :
    /\ baton[b].status = "OPEN" =>
         /\ conv.status # "STOPPED"
         /\ work[baton[b].work] = [status |-> "OPEN", fence |-> baton[b].told]
    /\ baton[b].status \in {"CLOSED", "CANCELLED"} => Settled(b)

First(w) == CHOOSE b \in Issued(w) : \A c \in Issued(w) : b <= c
Granted(b) == IF wake[b].status = "NONE" THEN 0
              ELSE wake[b].budget + (IF wake[b].status = "CONSUMED" THEN 1 ELSE 0)

\* Agents cannot keep a work item going for ever: the batons of a work item are at
\* most one more than the budget of its first wake, whoever closes and continues it.
WakesBounded ==
  \A w \in Works : Issued(w) # {} => Cardinality(Issued(w)) <= 1 + Granted(First(w))

\* A wake is turned into a baton only by a scheduler whose lease is the last one
\* given out for it, and only if the owner has not intervened since that scheduler
\* heard of its lease.
FencedIssue ==
  [][\A b \in Batons :
       wake[b].status # "CONSUMED" /\ wake'[b].status = "CONSUMED" =>
         \E s \in Schedulers : /\ lease[s].baton = b /\ lease'[s] = NoLease
                               /\ lease[s].fence = wake[b].fence
                               /\ lease[s].gen = conv.gen]_dialogueVars
==============================================================================
