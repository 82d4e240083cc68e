--------------------------- MODULE DialogueProofs ---------------------------
(***************************************************************************)
(* Proofs about the perpetual dialogue (PerpetualDialogue), for any number *)
(* of work items, agents, turns, schedulers and batons and any budgets.    *)
(***************************************************************************)
EXTENDS PerpetualDialogue, TLAPS

(***************************************************************************)
(* 1. PerpetualDialogue                                                    *)
(***************************************************************************)
----------------------------------------------------------------------------
(* The inductive invariant.                                                *)

BatonRow == [status: {"OPEN", "CLOSED", "CANCELLED"}, work: Works, agent: Participants,
             turn: TurnIds, disp: Closing \cup {"NONE"}, told: Nat]
WakeRow == [status: Live \cup {"CONSUMED", "CANCELLED"}, target: Participants, auth: BOOLEAN,
            budget: Nat, holder: {NoHolder} \cup {SchedulerId(s) : s \in Schedulers},
            fence: Nat, late: BOOLEAN, next: Batons \cup {0}]
HeldBack == {"PAUSED", "THROTTLED", "DRAINING"}

DialogueType ==
  /\ conv \in [status: {"NONE", "ACTIVE", "IDLE", "STOPPED"} \cup HeldBack, gen: Nat]
  /\ work \in [Works -> [status: {"NONE", "OPEN", "BLOCKED", "COMPLETE"}, fence: Nat]]
  /\ baton \in [Batons -> {NoBaton} \cup BatonRow]
  /\ wake \in [Batons -> {NoWake} \cup WakeRow]
  /\ lease \in [Schedulers -> [baton: Batons \cup {0}, fence: Nat, gen: Nat]]

CarriesOn(b) == baton[b].status = "OPEN" \/ wake[b].status \in Live

\* A wake belongs to a baton that was closed to be continued, and such a baton has one.
Paired ==
  \A b \in Batons :
    /\ wake[b] # NoWake => baton[b].status = "CLOSED" /\ baton[b].disp \in Continuing
    /\ baton[b].status = "CLOSED" =>
         baton[b].disp \in Closing /\ (baton[b].disp \in Continuing => wake[b] # NoWake)
    /\ baton[b] # NoBaton => work[baton[b].work].status # "NONE"

\* What carries a work item on finds it open, and the conversation not stopped.
Founded ==
  \A b \in Batons : CarriesOn(b) =>
    conv.status # "STOPPED" /\ work[baton[b].work].status = "OPEN"

Sole ==
  \A b, c \in Batons :
    CarriesOn(b) /\ CarriesOn(c) /\ baton[b].work = baton[c].work => b = c

Carried ==
  conv.status # "STOPPED" =>
    \A b \in Batons : baton[b] # NoBaton /\ work[baton[b].work].status = "OPEN" =>
      \E c \in Batons : CarriesOn(c) /\ baton[c].work = baton[b].work

Awake ==
  conv.status = "IDLE" =>
    \A b \in Batons : baton[b].status # "OPEN" /\ wake[b].status \notin {"PENDING", "LEASED"}

Due ==
  \A b \in Batons :
    /\ wake[b].status \in Live => wake[b].budget >= 1
    /\ wake[b].status = "LEASED" => wake[b].fence = work[baton[b].work].fence
    /\ wake[b] # NoWake => wake[b].fence <= work[baton[b].work].fence

\* A consumed wake leads to a baton of the same work item, for the agent it names.
Handed ==
  \A b \in Batons : wake[b].status = "CONSUMED" =>
    /\ wake[b].next \in Batons /\ baton[wake[b].next] # NoBaton
    /\ baton[wake[b].next].work = baton[b].work
    /\ baton[wake[b].next].agent = wake[b].target
    /\ baton[wake[b].next].status = "OPEN" => work[baton[b].work].fence = wake[b].fence

Told == \A b \in Batons : baton[b].status = "OPEN" => baton[b].told = work[baton[b].work].fence

EndsFinal ==
  \A b \in Batons :
    /\ baton[b].status = "CANCELLED" \/ wake[b].status = "CANCELLED" => conv.status = "STOPPED"
    /\ baton[b].status = "CLOSED" /\ baton[b].disp = "WORK_COMPLETE" =>
         work[baton[b].work].status = "COMPLETE"
    /\ baton[b].status = "CLOSED" /\ baton[b].disp = "HOLD" =>
         work[baton[b].work].status = "BLOCKED"

\* What a scheduler was told of a lease is not ahead of the work item, and is up to
\* date as long as the lease is the one in the row.
Heard ==
  \A s \in Schedulers : LET b == lease[s].baton IN b # 0 =>
    /\ wake[b] # NoWake
    /\ lease[s].fence <= work[baton[b].work].fence
    /\ wake[b].status = "LEASED" /\ wake[b].fence = lease[s].fence => lease[s].gen = conv.gen

Quiet ==
  /\ conv.status \in HeldBack => \A b \in Batons : wake[b].status # "LEASED"
  /\ conv.status = "NONE" => conv.gen = 0

\* The part of it that says how the rows of the store hang together.
StoreInv ==
  Paired /\ Founded /\ Sole /\ Carried /\ Awake /\ Due /\ Handed /\ Told /\ EndsFinal

DialogueInv ==
  /\ DialogueType
  /\ Paired /\ Founded /\ Sole /\ Carried /\ Awake /\ Due /\ Handed /\ Told /\ EndsFinal
  /\ Heard /\ Quiet

----------------------------------------------------------------------------
(* Facts about rows.                                                       *)

LEMMA BatonStatus ==
  ASSUME DialogueType, NEW b \in Batons
  PROVE  /\ baton[b].status = "NONE" <=> baton[b] = NoBaton
         /\ baton[b] # NoBaton => baton[b] \in BatonRow /\ baton[b].work \in Works
         /\ wake[b].status = "NONE" <=> wake[b] = NoWake
         /\ wake[b] # NoWake => wake[b] \in WakeRow
  BY DEF DialogueType, NoBaton, NoWake, BatonRow, WakeRow, Live

LEMMA FreshRow ==
  ASSUME DialogueInv, NEW b \in Batons, Fresh(b)
  PROVE  baton[b] = NoBaton /\ wake[b] = NoWake /\ ~CarriesOn(b)
  BY DEF DialogueInv, Paired, Fresh, CarriesOn, NoBaton, NoWake, Live

----------------------------------------------------------------------------
(* Every operation preserves the invariant.                                *)

LEMMA OpenConversationInv ==
  ASSUME DialogueInv, OpenConversation
  PROVE  DialogueInv'
<1> USE DEF OpenConversation
<1>1. DialogueType'
  BY DEF DialogueInv, DialogueType
<1>2. Paired' /\ Founded' /\ Sole' /\ Carried' /\ Awake'
  BY DEF DialogueInv, Paired, Founded, Sole, Carried, Awake, CarriesOn
<1>3. Due' /\ Handed' /\ Told' /\ EndsFinal'
  BY Zenon DEF DialogueInv, Due, Handed, Told, EndsFinal
<1>4. Quiet' /\ Heard'
  BY Zenon DEF DialogueInv, Quiet, Heard, HeldBack
<1> QED
  BY <1>1, <1>2, <1>3, <1>4 DEF DialogueInv

LEMMA OpenWorkItemInv ==
  ASSUME DialogueInv, NEW w \in Works, OpenWorkItem(w)
  PROVE  DialogueInv'
<1>1. DialogueType'
  BY DEF DialogueInv, DialogueType, OpenWorkItem
<1>2. /\ \A v \in Works : v # w => work'[v] = work[v]
      /\ work'[w].status = "OPEN" /\ work[w].status = "NONE"
      /\ baton' = baton /\ wake' = wake /\ lease' = lease
      /\ conv.status \in {"ACTIVE", "IDLE"} /\ conv'.status = "ACTIVE" /\ conv'.gen = conv.gen
  BY DEF DialogueInv, DialogueType, OpenWorkItem
<1>3. \A b \in Batons : baton[b] # NoBaton => work'[baton[b].work] = work[baton[b].work]
  BY <1>2, BatonStatus, Zenon DEF DialogueInv, Paired
<1>4. \A b \in Batons : /\ baton[b].status # "NONE" => baton[b] # NoBaton
                        /\ wake[b].status # "NONE" => baton[b] # NoBaton /\ wake[b] # NoWake
                        /\ wake[b] # NoWake => baton[b] # NoBaton
  BY BatonStatus DEF DialogueInv, Paired, NoBaton
<1>5. Paired' /\ Founded' /\ Sole' /\ Carried'
  BY <1>2, <1>3, <1>4 DEF DialogueInv, Paired, Founded, Sole, Carried, CarriesOn, Live
<1>6. Awake' /\ Due' /\ Handed' /\ Told' /\ EndsFinal'
  BY <1>2, <1>3, <1>4 DEF DialogueInv, Awake, Due, Handed, Told, EndsFinal, Live
<1>7. Heard'
  BY <1>2, <1>3, <1>4 DEF DialogueInv, Heard, DialogueType
<1>8. Quiet'
  BY <1>2 DEF Quiet, HeldBack
<1> QED
  BY <1>1, <1>5, <1>6, <1>7, <1>8 DEF DialogueInv

LEMMA IssueBatonInv ==
  ASSUME DialogueInv, NEW w \in Works, NEW a \in Participants, NEW t \in TurnIds,
         NEW parent \in Batons \cup {0}, NEW b \in Batons, IssueBaton(w, a, t, parent, b)
  PROVE  DialogueInv'
<1>1. DialogueType'
  BY DEF DialogueInv, DialogueType, IssueBaton, NewBaton, BatonRow
<1>2. /\ baton[b] = NoBaton /\ wake[b] = NoWake /\ ~CarriesOn(b)
      /\ \A c \in Batons : c # b => baton'[c] = baton[c]
      /\ baton'[b].status = "OPEN" /\ baton'[b].work = w /\ baton'[b].told = work[w].fence
      /\ baton'[b] # NoBaton
      /\ conv' = conv /\ work' = work /\ wake' = wake /\ lease' = lease
      /\ conv.status = "ACTIVE" /\ work[w].status = "OPEN"
  BY FreshRow, Zenon DEF DialogueInv, DialogueType, IssueBaton, NewBaton, NoBaton
<1>3. \A c \in Batons : ~(CarriesOn(c) /\ baton[c].work = w)
  BY DEF IssueBaton, NoContinuation, OpenBaton, LiveWake, CarriesOn
<1>4. \A c \in Batons : c # b => (CarriesOn(c)' <=> CarriesOn(c))
  BY <1>2 DEF CarriesOn
<1>5. CarriesOn(b)'
  BY <1>2 DEF CarriesOn
<1>6. Paired' /\ Founded'
  BY <1>2, <1>4, <1>5 DEF DialogueInv, Paired, Founded
<1>7. Sole'
  BY <1>2, <1>3, <1>4, <1>5 DEF DialogueInv, Sole
<1>8. Carried'
  BY <1>2, <1>4, <1>5 DEF DialogueInv, Carried
<1>9. Awake' /\ Due' /\ Told' /\ EndsFinal'
  BY <1>2 DEF DialogueInv, Awake, Due, Told, EndsFinal, NoWake, Live
<1>10. Handed'
  BY <1>2 DEF DialogueInv, Handed, NoWake
<1>11. Heard' /\ Quiet'
  BY <1>2, Zenon DEF DialogueInv, Heard, Quiet, DialogueType
<1> QED
  BY <1>1, <1>6, <1>7, <1>8, <1>9, <1>10, <1>11 DEF DialogueInv

LEMMA NewWakeRow ==
  ASSUME NEW status \in {"PENDING", "WAITING"}, NEW target \in Participants,
         NEW auth \in BOOLEAN, NEW n \in Nat
  PROVE  LET new == NewWake(status, target, auth, n)
         IN /\ new \in WakeRow /\ new # NoWake
            /\ new.status = status /\ new.budget = n /\ new.fence = 0
<1> DEFINE new == NewWake(status, target, auth, n)
<1>1. new.status = status /\ new.budget = n /\ new.fence = 0
  BY DEF NewWake
<1>2. new \in WakeRow
  BY Zenon DEF NewWake, WakeRow, Live
<1>3. new # NoWake
  BY <1>1 DEF NoWake
<1> QED
  BY <1>1, <1>2, <1>3

LEMMA CloseBatonInv ==
  ASSUME DialogueInv, NEW b \in Batons, NEW disp \in Closing, NEW target \in Participants,
         NEW auth \in BOOLEAN, NEW n \in 1..MaxBudget, CloseBaton(b, disp, target, auth, n)
  PROVE  DialogueInv'
<1> DEFINE w == baton[b].work
<1>a. baton[b] \in BatonRow /\ w \in Works /\ baton[b].status = "OPEN" /\ wake[b] = NoWake
  BY BatonStatus, Zenon DEF DialogueInv, CloseBaton, NoBaton, Paired
<1>1. /\ baton' = [baton EXCEPT ![b].status = "CLOSED", ![b].disp = disp]
      /\ wake' = IF disp \notin Continuing THEN wake
                 ELSE [wake EXCEPT ![b] =
                         NewWake(IF disp = "CONTINUE" THEN "PENDING" ELSE "WAITING",
                                 target, auth, n)]
      /\ lease' = lease
      /\ conv' = IF conv.status \in {"ACTIVE", "IDLE"}
                 THEN [conv EXCEPT !.status = Resting(baton', wake')] ELSE conv
      /\ work[w].status = "OPEN" /\ conv.status # "STOPPED"
  BY DEF CloseBaton
<1>2. \A c \in Batons : c # b => baton'[c] = baton[c] /\ wake'[c] = wake[c]
  BY <1>1, Zenon DEF DialogueInv, DialogueType
<1>b. /\ baton'[b] = [baton[b] EXCEPT !.status = "CLOSED", !.disp = disp]
      /\ disp \notin Continuing => wake'[b] = NoWake
      /\ disp \in Continuing =>
           wake'[b] = NewWake(IF disp = "CONTINUE" THEN "PENDING" ELSE "WAITING", target, auth, n)
  BY <1>1, <1>a, Zenon DEF DialogueInv, DialogueType
<1>c. /\ baton'[b] \in BatonRow /\ baton'[b].status = "CLOSED" /\ baton'[b].disp = disp
      /\ baton'[b].work = w /\ baton'[b].agent = baton[b].agent
  BY <1>a, <1>b, Zenon DEF BatonRow
<1>3. /\ baton'[b] \in BatonRow /\ baton'[b].status = "CLOSED" /\ baton'[b].disp = disp
      /\ baton'[b].work = w /\ baton'[b].agent = baton[b].agent
      /\ baton'[b] # NoBaton /\ baton[b] # NoBaton /\ baton'[b].work \in Works
  BY <1>a, <1>c DEF NoBaton
<1>d. n \in Nat /\ n >= 1
  BY DialogueAssumption
<1>4. /\ disp \in Continuing =>
           /\ wake'[b] \in WakeRow /\ wake'[b].status \in {"PENDING", "WAITING"}
           /\ wake'[b].budget >= 1 /\ wake'[b].fence = 0 /\ wake'[b] # NoWake
      /\ disp \notin Continuing => wake'[b] = NoWake
  BY <1>b, <1>d, NewWakeRow
<1>5. /\ \A v \in Works : v # w => work'[v] = work[v]
      /\ work'[w].fence = work[w].fence
      /\ disp \in Continuing => work'[w].status = "OPEN"
      /\ disp = "HOLD" => work'[w].status = "BLOCKED"
      /\ disp = "WORK_COMPLETE" => work'[w].status = "COMPLETE"
      /\ work' \in [Works -> [status: {"NONE", "OPEN", "BLOCKED", "COMPLETE"}, fence: Nat]]
  BY <1>1, <1>a DEF DialogueInv, DialogueType, CloseBaton, Continuing, Closing
<1>6. /\ conv' \in [status: {"NONE", "ACTIVE", "IDLE", "STOPPED"} \cup HeldBack, gen: Nat]
      /\ conv'.gen = conv.gen /\ conv'.status # "STOPPED"
      /\ conv.status \notin {"ACTIVE", "IDLE"} => conv' = conv
      /\ conv.status \in {"ACTIVE", "IDLE"} => conv'.status = Resting(baton', wake')
      /\ conv'.status = "NONE" => conv.status = "NONE"
      /\ conv'.status \in HeldBack => conv.status \in HeldBack
  BY <1>1, Zenon DEF DialogueInv, DialogueType, Resting, HeldBack
<1>7. DialogueType'
  BY <1>1, <1>2, <1>3, <1>4, <1>5, <1>6, Zenon DEF DialogueInv, DialogueType
<1> HIDE DEF w
<1>8. \A c \in Batons : c # b => (CarriesOn(c)' <=> CarriesOn(c))
  BY <1>2 DEF CarriesOn
<1>9. CarriesOn(b) /\ (CarriesOn(b)' <=> disp \in Continuing)
  BY <1>3, <1>4, <1>a DEF CarriesOn, Live, NoWake
<1>10. \A c \in Batons : c # b /\ CarriesOn(c) => baton[c].work # w
  BY <1>9 DEF DialogueInv, Sole, w
<1>11. disp \in {"CONTINUE", "WAIT", "HOLD", "WORK_COMPLETE"}
       /\ (disp \in Continuing <=> disp \in {"CONTINUE", "WAIT"})
  BY DEF Closing, Continuing
<1>12. \A v \in Works : /\ work[v].status # "OPEN" => work'[v] = work[v]
                        /\ work'[v].fence = work[v].fence
                        /\ work'[v].status # "NONE" <=> work[v].status # "NONE"
  BY <1>5, <1>1, <1>11, Zenon
<1>13. \A c \in Batons : baton[c] # NoBaton => baton[c].work \in Works
  BY BatonStatus DEF DialogueInv
<1>14. Paired'
  <2> SUFFICES ASSUME NEW c \in Batons
               PROVE  /\ wake'[c] # NoWake => baton'[c].status = "CLOSED" /\ baton'[c].disp \in Continuing
                      /\ baton'[c].status = "CLOSED" =>
                           baton'[c].disp \in Closing /\ (baton'[c].disp \in Continuing => wake'[c] # NoWake)
                      /\ baton'[c] # NoBaton => work'[baton'[c].work].status # "NONE"
    BY DEF Paired
  <2>1. CASE c = b
    BY <2>1, <1>3, <1>4, <1>1, <1>12, Zenon
  <2>2. CASE c # b
    BY <2>2, <1>2, <1>12, <1>13 DEF DialogueInv, Paired
  <2> QED
    BY <2>1, <2>2, Zenon
<1>15. Founded'
  BY <1>2, <1>3, <1>5, <1>6, <1>8, <1>9, <1>10, <1>13 DEF DialogueInv, Founded, CarriesOn, Paired, NoBaton, NoWake, Live
<1>16. Sole'
  BY <1>2, <1>3, <1>8, <1>9, <1>10, Zenon DEF DialogueInv, Sole
<1>17. Carried'
  <2> SUFFICES ASSUME NEW c \in Batons, baton'[c] # NoBaton, work'[baton'[c].work].status = "OPEN"
               PROVE  \E d \in Batons : CarriesOn(d)' /\ baton'[d].work = baton'[c].work
    BY DEF Carried
  <2>1. baton'[c].work = baton[c].work /\ baton[c] # NoBaton /\ baton[c].work \in Works
    BY <1>2, <1>3, <1>a, <1>13, Zenon DEF w, NoBaton
  <2>2. CASE baton[c].work = w
    BY <2>1, <2>2, <1>3, <1>5, <1>9, <1>11, Zenon
  <2>3. CASE baton[c].work # w
    <3>1. PICK d \in Batons : CarriesOn(d) /\ baton[d].work = baton[c].work
      BY <2>1, <2>3, <1>5, <1>1 DEF DialogueInv, Carried
    <3> QED
      BY <3>1, <2>1, <2>3, <1>2, <1>8, Zenon DEF w
  <2> QED
    BY <2>2, <2>3
<1>18. Awake'
  BY <1>6, <1>2, <1>3, <1>4, <1>8, Zenon DEF DialogueInv, Awake, Resting, Active
<1>19. Due' /\ Told'
  BY <1>2, <1>3, <1>4, <1>12, <1>13 DEF DialogueInv, DialogueType, Due, Told, Paired, NoBaton, NoWake, Live
<1>20. EndsFinal'
  BY <1>2, <1>3, <1>4, <1>5, <1>6, <1>11, <1>12, <1>13 DEF DialogueInv, EndsFinal, NoBaton, NoWake
<1>21. Handed'
  BY <1>2, <1>3, <1>4, <1>a, <1>12, <1>13 DEF DialogueInv, Handed, Paired, NoBaton, NoWake, w
<1>22. Heard'
  BY <1>1, <1>2, <1>3, <1>6, <1>a, <1>12, <1>13 DEF DialogueInv, Heard, DialogueType, Paired, NoBaton
<1>23. Quiet'
  BY <1>2, <1>4, <1>6 DEF DialogueInv, Quiet, NoWake
<1> QED
  BY <1>7, <1>14, <1>15, <1>16, <1>17, <1>18, <1>19, <1>20, <1>21, <1>22, <1>23 DEF DialogueInv

LEMMA AdmitWakeEventInv ==
  ASSUME DialogueInv, NEW b \in Batons, AdmitWakeEvent(b)
  PROVE  DialogueInv'
<1>1. /\ wake[b] \in WakeRow /\ wake[b].status = "WAITING"
      /\ wake' = [wake EXCEPT ![b].status = "PENDING"]
      /\ work' = work /\ baton' = baton /\ lease' = lease
  BY BatonStatus DEF DialogueInv, AdmitWakeEvent, NoWake
<1>2. \A c \in Batons : c # b => wake'[c] = wake[c]
  BY <1>1 DEF DialogueInv, DialogueType
<1>3. wake'[b] = [wake[b] EXCEPT !.status = "PENDING"]
  BY <1>1 DEF DialogueInv, DialogueType
<1>4. /\ wake'[b] \in WakeRow /\ wake'[b].status = "PENDING" /\ wake'[b].budget = wake[b].budget
      /\ wake'[b].fence = wake[b].fence
  BY <1>1, <1>3 DEF WakeRow, Live
<1>5. wake'[b] # NoWake /\ wake[b] # NoWake
  BY <1>1, <1>4 DEF NoWake
<1>6. /\ conv' \in [status: {"NONE", "ACTIVE", "IDLE", "STOPPED"} \cup HeldBack, gen: Nat]
      /\ conv'.gen = conv.gen
      /\ conv'.status = IF conv.status = "IDLE" THEN "ACTIVE" ELSE conv.status
      /\ conv.status # "STOPPED"
  BY DEF DialogueInv, DialogueType, AdmitWakeEvent
<1>7. DialogueType'
  BY <1>1, <1>2, <1>4, <1>6 DEF DialogueInv, DialogueType
<1>8. \A c \in Batons : CarriesOn(c)' <=> CarriesOn(c)
  BY <1>1, <1>2, <1>4 DEF CarriesOn, Live
<1>9. Paired'
  BY <1>1, <1>2, <1>5, Zenon DEF DialogueInv, Paired
<1>10. Founded' /\ Sole' /\ Carried'
  BY <1>1, <1>6, <1>8, Zenon DEF DialogueInv, Founded, Sole, Carried
<1>11. Awake' /\ Due' /\ Told'
  BY <1>1, <1>2, <1>4, <1>5, <1>6 DEF DialogueInv, Awake, Due, Told, Live
<1>12. EndsFinal' /\ Handed'
  BY <1>1, <1>2, <1>4, <1>6 DEF DialogueInv, EndsFinal, Handed
<1>13. Heard' /\ Quiet'
  BY <1>1, <1>2, <1>4, <1>5, <1>6 DEF DialogueInv, Heard, Quiet, DialogueType, HeldBack
<1> QED
  BY <1>7, <1>9, <1>10, <1>11, <1>12, <1>13 DEF DialogueInv

LEMMA LeaseRunsOutInv ==
  ASSUME DialogueInv, NEW b \in Batons, LeaseRunsOut(b)
  PROVE  DialogueInv'
<1>1. /\ wake[b] \in WakeRow
      /\ wake' = [wake EXCEPT ![b].late = TRUE]
      /\ work' = work /\ baton' = baton /\ lease' = lease /\ conv' = conv
  BY BatonStatus DEF DialogueInv, LeaseRunsOut, NoWake
<1>2. /\ wake' \in [Batons -> {NoWake} \cup WakeRow]
      /\ \A c \in Batons : c # b => wake'[c] = wake[c]
      /\ wake'[b] = [wake[b] EXCEPT !.late = TRUE]
  BY <1>1, Zenon DEF DialogueInv, DialogueType, WakeRow
<1>3. /\ wake'[b].status = wake[b].status /\ wake'[b].budget = wake[b].budget
      /\ wake'[b].fence = wake[b].fence /\ wake'[b].next = wake[b].next
      /\ wake'[b].target = wake[b].target
  BY <1>1, <1>2 DEF WakeRow
<1>4. wake[b] # NoWake /\ wake'[b] # NoWake
  BY <1>1, <1>3 DEF LeaseRunsOut, NoWake
<1>5. \A c \in Batons : CarriesOn(c)' <=> CarriesOn(c)
  BY <1>1, <1>2, <1>3 DEF CarriesOn
<1>6. Paired' /\ Founded' /\ Sole' /\ Carried'
  BY <1>1, <1>2, <1>4, <1>5 DEF DialogueInv, Paired, Founded, Sole, Carried
<1>7. Awake' /\ Due' /\ Handed' /\ Told' /\ EndsFinal'
  BY <1>1, <1>2, <1>3, <1>4 DEF DialogueInv, Awake, Due, Handed, Told, EndsFinal
<1>8. Heard' /\ Quiet'
  BY <1>1, <1>2, <1>3, <1>4 DEF DialogueInv, Heard, Quiet, DialogueType
<1> QED
  BY <1>1, <1>2, <1>6, <1>7, <1>8, Zenon DEF DialogueInv, DialogueType

LEMMA ClaimDueWakeInv ==
  ASSUME DialogueInv, NEW s \in Schedulers, NEW b \in Batons, ClaimDueWake(s, b)
  PROVE  DialogueInv'
<1> DEFINE w == baton[b].work
           fence == work[w].fence + 1
<1>0. /\ wake[b].status \in {"PENDING", "LEASED"} /\ conv.status = "ACTIVE"
      /\ conv' = conv /\ baton' = baton
  BY Zenon DEF ClaimDueWake
<1>1. /\ work' = [work EXCEPT ![w].fence = fence]
      /\ wake' = [wake EXCEPT ![b].status = "LEASED", ![b].holder = SchedulerId(s),
                              ![b].fence = fence, ![b].late = FALSE]
      /\ lease' = [lease EXCEPT ![s] = [baton |-> b, fence |-> fence, gen |-> conv.gen]]
  BY Zenon DEF ClaimDueWake
<1>2. wake[b] # NoWake /\ wake[b] \in WakeRow /\ w \in Works /\ fence \in Nat
  <2>1. wake[b] # NoWake /\ baton[b] # NoBaton
    BY <1>0 DEF DialogueInv, Paired, NoWake, NoBaton
  <2>2. w \in Works /\ wake[b] \in WakeRow
    BY <2>1, BatonStatus DEF DialogueInv
  <2> QED
    BY <2>1, <2>2 DEF DialogueInv, DialogueType
<1>3. /\ \A v \in Works : work'[v].status = work[v].status /\ (v # w => work'[v] = work[v])
      /\ work'[w].fence = work[w].fence + 1
      /\ work' \in [Works -> [status: {"NONE", "OPEN", "BLOCKED", "COMPLETE"}, fence: Nat]]
  BY <1>1, <1>2 DEF DialogueInv, DialogueType
<1>4. \A c \in Batons : c # b => wake'[c] = wake[c]
  BY <1>1, Zenon DEF DialogueInv, DialogueType
<1>5. wake'[b] = [wake[b] EXCEPT !.status = "LEASED", !.holder = SchedulerId(s),
                                 !.fence = fence, !.late = FALSE]
  BY <1>1, Zenon DEF DialogueInv, DialogueType
<1>6. /\ wake'[b] \in WakeRow /\ wake'[b].status = "LEASED" /\ wake'[b].fence = fence
      /\ wake'[b].budget = wake[b].budget
  <2> DEFINE r1 == [wake[b] EXCEPT !.status = "LEASED"]
             r2 == [r1 EXCEPT !.holder = SchedulerId(s)]
             r3 == [r2 EXCEPT !.fence = fence]
             r4 == [r3 EXCEPT !.late = FALSE]
  <2> HIDE DEF fence
  <2>1. r1 \in WakeRow /\ r1.status = "LEASED" /\ r1.budget = wake[b].budget
    BY <1>2 DEF WakeRow, Live
  <2>2. wake'[b] = r4
    BY <1>5
  <2> HIDE DEF r1
  <2>3. r2 \in WakeRow /\ r2.status = "LEASED" /\ r2.budget = wake[b].budget
    BY <2>1 DEF WakeRow
  <2> HIDE DEF r2
  <2>4. r3 \in WakeRow /\ r3.status = "LEASED" /\ r3.budget = wake[b].budget /\ r3.fence = fence
    BY <1>2, <2>3 DEF WakeRow
  <2> HIDE DEF r3
  <2>5. r4 \in WakeRow /\ r4.status = "LEASED" /\ r4.budget = wake[b].budget /\ r4.fence = fence
    BY <2>4, Zenon DEF WakeRow
  <2> QED
    BY <2>2, <2>5
<1>7. wake'[b] # NoWake
  BY <1>6 DEF NoWake
<1>8. /\ lease' \in [Schedulers -> [baton: Batons \cup {0}, fence: Nat, gen: Nat]]
      /\ \A r \in Schedulers : r # s => lease'[r] = lease[r]
      /\ lease'[s].baton = b /\ lease'[s].fence = fence /\ lease'[s].gen = conv.gen
  BY <1>1, <1>2, Zenon DEF DialogueInv, DialogueType
<1>9. DialogueType'
  BY <1>0, <1>1, <1>3, <1>4, <1>6, <1>8, Zenon DEF DialogueInv, DialogueType
<1>10. CarriesOn(b) /\ \A c \in Batons : CarriesOn(c)' <=> CarriesOn(c)
  BY <1>0, <1>4, <1>6 DEF CarriesOn, Live
<1>11. \A c \in Batons : c # b /\ CarriesOn(c) => baton[c].work # w
  BY <1>10 DEF DialogueInv, Sole
<1>12. \A c \in Batons : baton[c] # NoBaton => baton[c].work \in Works
  BY BatonStatus DEF DialogueInv
<1>13. \A c \in Batons : /\ baton[c].status # "NONE" => baton[c] # NoBaton
                         /\ wake[c] # NoWake => baton[c] # NoBaton
                         /\ wake[c].status # "NONE" => wake[c] # NoWake
  BY DEF DialogueInv, Paired, NoBaton, NoWake
<1>14. /\ baton[b].work = w /\ fence = work[w].fence + 1 /\ baton[b].status = "CLOSED"
       /\ work[w].fence \in Nat
  BY <1>2, Zenon DEF DialogueInv, Paired, DialogueType
<1> HIDE DEF w, fence
<1>15. Paired'
  BY <1>0, <1>2, <1>3, <1>4, <1>7, <1>12 DEF DialogueInv, Paired
<1>16. Founded' /\ Sole'
  BY <1>0, <1>3, <1>10, <1>12, <1>13 DEF DialogueInv, Founded, Sole, CarriesOn, Live
<1>17. Carried'
  BY <1>0, <1>3, <1>10, <1>12 DEF DialogueInv, Carried
<1>18. Awake' /\ EndsFinal'
  BY <1>0, <1>3, <1>4, <1>6, <1>12, <1>13 DEF DialogueInv, Awake, EndsFinal
<1>19. Due'
  <2> SUFFICES ASSUME NEW c \in Batons
               PROVE  /\ wake'[c].status \in Live => wake'[c].budget >= 1
                      /\ wake'[c].status = "LEASED" => wake'[c].fence = work'[baton[c].work].fence
                      /\ wake'[c] # NoWake => wake'[c].fence <= work'[baton[c].work].fence
    BY <1>0, Zenon DEF Due
  <2>1. CASE c = b
    BY <2>1, <1>0, <1>3, <1>6, <1>14 DEF DialogueInv, Due, Live
  <2>2. CASE c # b /\ wake[c] # NoWake
    <3>1. /\ baton[c].work \in Works /\ work[baton[c].work].fence \in Nat /\ wake'[c] = wake[c]
          /\ wake[c] \in WakeRow
      BY <2>2, <1>4, <1>12, <1>13, BatonStatus, Zenon DEF DialogueInv, DialogueType
    <3>2. wake[c].status = "LEASED" => baton[c].work # w
      BY <2>2, <1>11 DEF CarriesOn, Live
    <3> QED
      BY <3>1, <3>2, <2>2, <1>3, <1>14 DEF DialogueInv, Due, WakeRow
  <2>3. CASE c # b /\ wake[c] = NoWake
    BY <2>3, <1>4 DEF NoWake, Live
  <2> QED
    BY <2>1, <2>2, <2>3, Zenon
<1>20. Told'
  BY <1>0, <1>3, <1>11, <1>12, <1>13, <1>14, Zenon DEF DialogueInv, Told, CarriesOn
<1>21. Handed'
  BY <1>0, <1>3, <1>4, <1>6, <1>11, <1>12, <1>13, <1>14 DEF DialogueInv, Handed, CarriesOn
<1>22. Heard'
  <2> SUFFICES ASSUME NEW r \in Schedulers, NEW c, c = lease'[r].baton, c # 0
               PROVE  /\ wake'[c] # NoWake
                      /\ lease'[r].fence <= work'[baton[c].work].fence
                      /\ wake'[c].status = "LEASED" /\ wake'[c].fence = lease'[r].fence =>
                           lease'[r].gen = conv'.gen
    BY <1>0, Zenon DEF Heard
  <2>1. CASE r = s
    BY <2>1, <1>0, <1>3, <1>7, <1>8, <1>14
  <2>2. CASE r # s
    <3>1. /\ c \in Batons /\ lease'[r] = lease[r] /\ lease[r].fence \in Nat /\ wake[c] # NoWake
          /\ lease[r].fence <= work[baton[c].work].fence
          /\ wake[c].status = "LEASED" /\ wake[c].fence = lease[r].fence => lease[r].gen = conv.gen
      BY <2>2, <1>8, Zenon DEF DialogueInv, DialogueType, Heard
    <3>2. baton[c].work \in Works /\ work[baton[c].work].fence \in Nat
      BY <3>1, <1>12, <1>13, Zenon DEF DialogueInv, DialogueType
    <3>3. CASE c = b
      BY <3>1, <3>2, <3>3, <1>3, <1>6, <1>7, <1>14
    <3>4. CASE c # b
      BY <3>1, <3>2, <3>4, <1>0, <1>3, <1>4, <1>14
    <3> QED
      BY <3>3, <3>4, Zenon
  <2> QED
    BY <2>1, <2>2, Zenon
<1>23. Quiet'
  BY <1>0 DEF Quiet, HeldBack
<1> QED
  BY <1>9, <1>15, <1>16, <1>17, <1>18, <1>19, <1>20, <1>21, <1>22, <1>23 DEF DialogueInv

LEMMA SameStore ==
  ASSUME DialogueInv, UNCHANGED <<conv, work, baton, wake>>
  PROVE  StoreInv'
<1>1. Paired' /\ Awake'
  BY Zenon DEF DialogueInv, Paired, Awake
<1>2. \A b \in Batons : CarriesOn(b)' <=> CarriesOn(b)
  BY DEF CarriesOn
<1>3. Founded' /\ Sole'
  BY <1>2 DEF DialogueInv, Founded, Sole
<1>4. Carried'
  BY <1>2 DEF DialogueInv, Carried
<1>5. Due' /\ Told'
  BY Zenon DEF DialogueInv, Due, Told
<1>6. Handed' /\ EndsFinal'
  BY Zenon DEF DialogueInv, Handed, EndsFinal
<1> QED
  BY <1>1, <1>3, <1>4, <1>5, <1>6 DEF StoreInv

LEMMA ReplayClaimInv ==
  ASSUME DialogueInv, NEW s \in Schedulers, NEW b \in Batons, ReplayClaim(s, b)
  PROVE  DialogueInv'
<1>1. /\ lease[s].baton = b /\ conv' = conv /\ work' = work /\ baton' = baton /\ wake' = wake
      /\ lease' = [lease EXCEPT ![s] = [baton |-> b, fence |-> wake[b].fence, gen |-> conv.gen]]
  BY DEF ReplayClaim
<1>2. wake[b] # NoWake /\ b # 0
  BY <1>1, DialogueAssumption, Zenon DEF DialogueInv, Heard
<1>3. wake[b].fence \in Nat /\ wake[b] \in WakeRow /\ baton[b].work \in Works
  BY <1>2, BatonStatus, Zenon DEF DialogueInv, WakeRow, Paired, NoBaton
<1>4. /\ lease' \in [Schedulers -> [baton: Batons \cup {0}, fence: Nat, gen: Nat]]
      /\ \A r \in Schedulers : r # s => lease'[r] = lease[r]
      /\ lease'[s].baton = b /\ lease'[s].fence = wake[b].fence /\ lease'[s].gen = conv.gen
  BY <1>1, <1>3 DEF DialogueInv, DialogueType
<1>5. DialogueType'
  BY <1>1, <1>4, Zenon DEF DialogueInv, DialogueType
<1>6. StoreInv'
  BY <1>1, SameStore
<1>7. wake[b].fence <= work[baton[b].work].fence
  BY <1>2, Zenon DEF DialogueInv, Due
<1>8. Heard'
  <2> SUFFICES ASSUME NEW r \in Schedulers, NEW c, c = lease'[r].baton, c # 0
               PROVE  /\ wake[c] # NoWake
                      /\ lease'[r].fence <= work[baton[c].work].fence
                      /\ wake[c].status = "LEASED" /\ wake[c].fence = lease'[r].fence =>
                           lease'[r].gen = conv.gen
    BY <1>1, Zenon DEF Heard
  <2>1. CASE r = s
    BY <2>1, <1>2, <1>4, <1>7, Zenon
  <2>2. CASE r # s
    BY <2>2, <1>4, Zenon DEF DialogueInv, Heard
  <2> QED
    BY <2>1, <2>2, Zenon
<1>9. Quiet'
  BY <1>1 DEF DialogueInv, Quiet
<1> QED
  BY <1>5, <1>6, <1>8, <1>9 DEF DialogueInv, StoreInv

LEMMA IssueNextBatonInv ==
  ASSUME DialogueInv, NEW s \in Schedulers, NEW b \in Batons, NEW t \in TurnIds, NEW c \in Batons,
         IssueNextBaton(s, b, t, c)
  PROVE  DialogueInv'
<1> DEFINE w == baton[b].work
<1>1. /\ conv' = conv /\ work' = work /\ conv.status = "ACTIVE" /\ work[w].status = "OPEN"
      /\ wake[b].status = "LEASED" /\ wake[b].fence = work[w].fence
      /\ wake[b].budget >= 1
  BY Zenon DEF IssueNextBaton, HoldsLease
<1>2. /\ baton[c] = NoBaton /\ wake[c] = NoWake /\ ~CarriesOn(c)
  BY FreshRow, Zenon DEF IssueNextBaton
<1>3. wake[b] # NoWake /\ wake[b] \in WakeRow /\ w \in Works /\ baton[b].status = "CLOSED" /\ c # b
  <2>1. wake[b] # NoWake /\ baton[b] # NoBaton /\ baton[b].status = "CLOSED"
    BY <1>1 DEF DialogueInv, Paired, NoWake, NoBaton
  <2> QED
    BY <2>1, <1>2, BatonStatus DEF DialogueInv
<1>4. /\ baton' = [baton EXCEPT ![c] = NewBaton(w, wake[b].target, t, work[w].fence)]
      /\ wake' = [wake EXCEPT ![b].status = "CONSUMED", ![b].next = c, ![b].budget = @ - 1]
      /\ lease' = [lease EXCEPT ![s] = NoLease]
  BY Zenon DEF IssueNextBaton
<1>5. /\ \A d \in Batons : d # c => baton'[d] = baton[d]
      /\ \A d \in Batons : d # b => wake'[d] = wake[d]
  BY <1>4, Zenon DEF DialogueInv, DialogueType
<1>6. /\ baton'[c] = NewBaton(w, wake[b].target, t, work[w].fence)
      /\ wake'[b] = [wake[b] EXCEPT !.status = "CONSUMED", !.next = c, !.budget = @ - 1]
  BY <1>4, Zenon DEF DialogueInv, DialogueType
<1>7. /\ baton'[c].status = "OPEN" /\ baton'[c].work = w /\ baton'[c].told = work[w].fence
      /\ baton'[c].agent = wake[b].target
  BY <1>6 DEF NewBaton
<1>8. baton'[c] \in BatonRow
  <2>1. wake[b].target \in Participants /\ work[w].fence \in Nat
    BY <1>3 DEF DialogueInv, DialogueType, WakeRow
  <2> QED
    BY <1>3, <1>6, <2>1 DEF NewBaton, BatonRow
<1>9. baton'[c] # NoBaton
  BY <1>7 DEF NoBaton
<1>10. /\ wake'[b] \in WakeRow /\ wake'[b].status = "CONSUMED" /\ wake'[b].next = c
       /\ wake'[b].fence = wake[b].fence /\ wake'[b].target = wake[b].target
  <2> DEFINE r1 == [wake[b] EXCEPT !.status = "CONSUMED"]
             r2 == [r1 EXCEPT !.next = c]
             r3 == [r2 EXCEPT !.budget = r2.budget - 1]
  <2>1. /\ r1 \in WakeRow /\ r1.status = "CONSUMED" /\ r1.fence = wake[b].fence
        /\ r1.target = wake[b].target /\ r1.budget = wake[b].budget
    BY <1>3 DEF WakeRow
  <2>2. wake'[b] = r3
    BY <1>6
  <2> HIDE DEF r1
  <2>3. /\ r2 \in WakeRow /\ r2.status = "CONSUMED" /\ r2.fence = wake[b].fence
        /\ r2.target = wake[b].target /\ r2.budget = wake[b].budget /\ r2.next = c
    BY <2>1 DEF WakeRow
  <2>4. r2.budget - 1 \in Nat
    BY <1>1, <2>3 DEF WakeRow
  <2> HIDE DEF r2
  <2>5. /\ r3 \in WakeRow /\ r3.status = "CONSUMED" /\ r3.fence = wake[b].fence
        /\ r3.target = wake[b].target /\ r3.next = c
    BY <2>3, <2>4 DEF WakeRow
  <2> QED
    BY <2>2, <2>5
<1>11. wake'[b] # NoWake
  BY <1>10 DEF NoWake
<1>12. /\ lease' \in [Schedulers -> [baton: Batons \cup {0}, fence: Nat, gen: Nat]]
       /\ \A r \in Schedulers : lease'[r].baton # 0 => lease'[r] = lease[r]
  BY <1>4, Zenon DEF DialogueInv, DialogueType, NoLease
<1>13. DialogueType'
  BY <1>1, <1>4, <1>5, <1>8, <1>10, <1>12, Zenon DEF DialogueInv, DialogueType
<1>14. baton[b].work = w
  OBVIOUS
<1> HIDE DEF w
<1>15. /\ CarriesOn(b) /\ ~CarriesOn(b)' /\ CarriesOn(c)'
       /\ \A d \in Batons : d # b /\ d # c => (CarriesOn(d)' <=> CarriesOn(d))
  BY <1>1, <1>2, <1>3, <1>5, <1>7, <1>10, Zenon DEF CarriesOn, Live
<1>16. \A d \in Batons : d # b /\ CarriesOn(d) => baton[d].work # w
  BY <1>14, <1>15 DEF DialogueInv, Sole
<1>17. Paired'
  BY <1>1, <1>2, <1>3, <1>5, <1>7, <1>9, <1>11 DEF DialogueInv, Paired
<1>18. Founded' /\ Sole'
  BY <1>1, <1>2, <1>5, <1>7, <1>15, <1>16 DEF DialogueInv, Founded, Sole
<1>19. Carried'
  <2> SUFFICES ASSUME NEW d \in Batons, baton'[d] # NoBaton, work[baton'[d].work].status = "OPEN"
               PROVE  \E e \in Batons : CarriesOn(e)' /\ baton'[e].work = baton'[d].work
    BY <1>1 DEF Carried
  <2>1. CASE baton'[d].work = w
    BY <2>1, <1>7, <1>15
  <2>2. CASE baton'[d].work # w
    <3>1. d # c /\ baton'[d] = baton[d]
      BY <2>2, <1>5, <1>7
    <3>2. PICK e \in Batons : CarriesOn(e) /\ baton[e].work = baton[d].work
      BY <3>1, <1>1, Zenon DEF DialogueInv, Carried
    <3>3. e # b /\ e # c
      BY <3>1, <3>2, <2>2, <1>2, <1>14
    <3> QED
      BY <3>1, <3>2, <3>3, <1>5, <1>15, Zenon
  <2> QED
    BY <2>1, <2>2
<1>20. Awake' /\ Told' /\ EndsFinal'
  BY <1>1, <1>2, <1>3, <1>5, <1>7, <1>10, <1>14 DEF DialogueInv, Awake, Told, EndsFinal
<1>21. Due'
  <2> SUFFICES ASSUME NEW d \in Batons
               PROVE  /\ wake'[d].status \in Live => wake'[d].budget >= 1
                      /\ wake'[d].status = "LEASED" => wake'[d].fence = work[baton'[d].work].fence
                      /\ wake'[d] # NoWake => wake'[d].fence <= work[baton'[d].work].fence
    BY <1>1, Zenon DEF Due
  <2>1. CASE d = b
    <3>1. wake[b].fence <= work[baton[b].work].fence
      BY <1>3, Zenon DEF DialogueInv, Due
    <3> QED
      BY <3>1, <2>1, <1>3, <1>5, <1>10, Zenon DEF Live
  <2>2. CASE d = c
    BY <2>2, <1>2, <1>3, <1>5 DEF NoWake, Live
  <2>3. CASE d # b /\ d # c
    BY <2>3, <1>5, Zenon DEF DialogueInv, Due
  <2> QED
    BY <2>1, <2>2, <2>3, Zenon
<1>22. Handed'
  BY <1>1, <1>2, <1>3, <1>5, <1>7, <1>9, <1>10, <1>14 DEF DialogueInv, Handed, NoWake
<1>23. Heard'
  <2> SUFFICES ASSUME NEW r \in Schedulers, NEW d, d = lease'[r].baton, d # 0
               PROVE  /\ wake'[d] # NoWake
                      /\ lease'[r].fence <= work[baton'[d].work].fence
                      /\ wake'[d].status = "LEASED" /\ wake'[d].fence = lease'[r].fence =>
                           lease'[r].gen = conv.gen
    BY <1>1, Zenon DEF Heard
  <2>1. d \in Batons /\ lease'[r] = lease[r] /\ d = lease[r].baton
    BY <1>12 DEF DialogueInv, DialogueType
  <2>2. /\ wake[d] # NoWake
        /\ lease[r].fence <= work[baton[d].work].fence
        /\ wake[d].status = "LEASED" /\ wake[d].fence = lease[r].fence => lease[r].gen = conv.gen
    BY <2>1, Zenon DEF DialogueInv, Heard
  <2>3. d # c
    BY <2>2, <1>2, Zenon
  <2> QED
    BY <2>1, <2>2, <2>3, <1>5, <1>10, <1>11, Zenon
<1>24. Quiet'
  BY <1>1 DEF Quiet, HeldBack
<1> QED
  BY <1>13, <1>17, <1>18, <1>19, <1>20, <1>21, <1>22, <1>23, <1>24 DEF DialogueInv

LEMMA HoldBackInv ==
  ASSUME DialogueInv, NEW status \in HeldBack, HoldBack(status)
  PROVE  DialogueInv'
<1>1. /\ baton' = baton /\ lease' = lease
      /\ conv' = [status |-> status, gen |-> conv.gen + 1] /\ conv.status # "STOPPED"
  BY Zenon DEF HoldBack, Controlled
<1>a. /\ work' = [w \in Works |-> work'[w]]
      /\ \A w \in Works : work'[w] = IF Leased(w) THEN [work[w] EXCEPT !.fence = @ + 1] ELSE work[w]
  BY Zenon DEF HoldBack, RevokeSchedulerLeases
<1>b. ASSUME NEW w \in Works
      PROVE  /\ work'[w] \in [status: {"NONE", "OPEN", "BLOCKED", "COMPLETE"}, fence: Nat]
             /\ work'[w].status = work[w].status
             /\ work[w].fence \in Nat /\ work'[w].fence \in Nat
             /\ work'[w].fence >= work[w].fence
             /\ ~Leased(w) => work'[w].fence = work[w].fence
  <2>1. work[w] \in [status: {"NONE", "OPEN", "BLOCKED", "COMPLETE"}, fence: Nat]
    BY DEF DialogueInv, DialogueType
  <2>2. CASE Leased(w)
    <3>1. work'[w] = [work[w] EXCEPT !.fence = @ + 1]
      BY <1>a, <2>2
    <3> QED
      BY <3>1, <2>1, <2>2
  <2>3. CASE ~Leased(w)
    BY <1>a, <2>1, <2>3
  <2> QED
    BY <2>2, <2>3
<1>2. \A w \in Works : /\ work'[w].status = work[w].status
                       /\ work[w].fence \in Nat /\ work'[w].fence \in Nat
                       /\ work'[w].fence >= work[w].fence
                       /\ ~Leased(w) => work'[w].fence = work[w].fence
  BY <1>b
<1>3. work' \in [Works -> [status: {"NONE", "OPEN", "BLOCKED", "COMPLETE"}, fence: Nat]]
  BY <1>a, <1>b
<1>4. /\ wake' = [b \in Batons |-> wake'[b]]
      /\ \A b \in Batons : wake[b].status # "LEASED" => wake'[b] = wake[b]
  BY Zenon DEF HoldBack, RevokeSchedulerLeases
<1>5. ASSUME NEW b \in Batons, wake[b].status = "LEASED"
      PROVE  /\ wake'[b] \in WakeRow /\ wake'[b].status = "PENDING" /\ wake'[b].fence = 0
             /\ wake'[b].budget = wake[b].budget
  <2> DEFINE r1 == [wake[b] EXCEPT !.status = "PENDING"]
             r2 == [r1 EXCEPT !.holder = NoHolder]
             r3 == [r2 EXCEPT !.fence = 0]
             r4 == [r3 EXCEPT !.late = FALSE]
  <2>0. wake[b] \in WakeRow
    BY <1>5, BatonStatus DEF DialogueInv, NoWake
  <2>1. r1 \in WakeRow /\ r1.status = "PENDING" /\ r1.budget = wake[b].budget
    BY <2>0 DEF WakeRow, Live
  <2>2. wake'[b] = r4
    BY <1>5, Zenon DEF HoldBack, RevokeSchedulerLeases
  <2> HIDE DEF r1
  <2>3. r2 \in WakeRow /\ r2.status = "PENDING" /\ r2.budget = wake[b].budget
    BY <2>1 DEF WakeRow
  <2> HIDE DEF r2
  <2>4. r3 \in WakeRow /\ r3.status = "PENDING" /\ r3.budget = wake[b].budget /\ r3.fence = 0
    BY <2>3 DEF WakeRow
  <2> HIDE DEF r3
  <2>5. r4 \in WakeRow /\ r4.status = "PENDING" /\ r4.budget = wake[b].budget /\ r4.fence = 0
    BY <2>4, Zenon DEF WakeRow
  <2> QED
    BY <2>2, <2>5
<1>6. \A b \in Batons : /\ wake'[b].status # "LEASED" /\ (wake'[b] # NoWake <=> wake[b] # NoWake)
                        /\ wake'[b].status \in Live <=> wake[b].status \in Live
  BY <1>4, <1>5 DEF NoWake, Live
<1>7. DialogueType'
  <2>1. \A b \in Batons : wake'[b] \in {NoWake} \cup WakeRow
    BY <1>4, <1>5 DEF DialogueInv, DialogueType
  <2>2. conv' \in [status: {"NONE", "ACTIVE", "IDLE", "STOPPED"} \cup HeldBack, gen: Nat]
    BY <1>1 DEF DialogueInv, DialogueType
  <2>3. wake' \in [Batons -> {NoWake} \cup WakeRow]
    BY <1>4, <2>1
  <2> QED
    BY <1>1, <1>3, <2>2, <2>3, Zenon DEF DialogueInv, DialogueType
<1>8. conv'.status = status /\ conv'.status \in HeldBack
  BY <1>1
<1>9. \A b \in Batons : CarriesOn(b)' <=> CarriesOn(b)
  BY <1>1, <1>6 DEF CarriesOn
<1>10. \A b \in Batons : /\ baton[b] # NoBaton => baton[b].work \in Works
                         /\ wake[b] # NoWake => baton[b].work \in Works
                         /\ CarriesOn(b) => baton[b].work \in Works
  BY BatonStatus, Zenon DEF DialogueInv, Paired, CarriesOn, Live, NoBaton, NoWake
\* A work item with an open baton has no leased wake, so its fence stays.
<1>11. \A b \in Batons : baton[b].status = "OPEN" => ~Leased(baton[b].work)
  BY DEF DialogueInv, Sole, Paired, CarriesOn, Leased, Live, NoWake
<1>12. Paired' /\ Founded' /\ Sole' /\ Carried'
  BY <1>1, <1>2, <1>6, <1>8, <1>9, <1>10 DEF DialogueInv, Paired, Founded, Sole, Carried, HeldBack
<1>13. Awake' /\ Quiet'
  BY <1>6, <1>8 DEF Awake, Quiet, HeldBack
<1>14. Due'
  <2> SUFFICES ASSUME NEW b \in Batons, wake[b] # NoWake
               PROVE  /\ wake'[b].status \in Live => wake'[b].budget >= 1
                      /\ wake'[b].fence <= work'[baton[b].work].fence
    BY <1>1, <1>6 DEF Due, NoWake, Live
  <2>1. /\ baton[b].work \in Works /\ wake[b].fence <= work[baton[b].work].fence
        /\ wake[b].status \in Live => wake[b].budget >= 1
        /\ wake[b].fence \in Nat
    BY <1>10, BatonStatus, Zenon DEF DialogueInv, Due, WakeRow
  <2>2. CASE wake[b].status = "LEASED"
    BY <2>1, <2>2, <1>2, <1>5 DEF Live
  <2>3. CASE wake[b].status # "LEASED"
    BY <2>1, <2>3, <1>2, <1>4
  <2> QED
    BY <2>2, <2>3
<1>15. Told'
  BY <1>1, <1>2, <1>10, <1>11, Zenon DEF DialogueInv, Told, CarriesOn
<1>16. Handed'
  <2> SUFFICES ASSUME NEW b \in Batons, wake'[b].status = "CONSUMED"
               PROVE  /\ wake'[b].next \in Batons /\ baton[wake'[b].next] # NoBaton
                      /\ baton[wake'[b].next].work = baton[b].work
                      /\ baton[wake'[b].next].agent = wake'[b].target
                      /\ baton[wake'[b].next].status = "OPEN" =>
                           work'[baton[b].work].fence = wake'[b].fence
    BY <1>1, Zenon DEF Handed
  <2>1. wake'[b] = wake[b]
    BY <1>4, <1>5
  <2> QED
    BY <2>1, <1>2, <1>10, <1>11 DEF DialogueInv, Handed
<1>17. EndsFinal'
  <2>1. \A b \in Batons : wake[b].status # "CANCELLED" => wake'[b].status # "CANCELLED"
    BY <1>4, <1>5
  <2>2. \A b \in Batons : baton[b].status = "CLOSED" => baton[b].work \in Works
    BY <1>10 DEF NoBaton
  <2> QED
    BY <2>1, <2>2, <1>1, <1>2, Zenon DEF DialogueInv, EndsFinal
<1>18. Heard'
  <2> SUFFICES ASSUME NEW s \in Schedulers, NEW b, b = lease[s].baton, b # 0
               PROVE  wake'[b] # NoWake /\ lease[s].fence <= work'[baton[b].work].fence
    BY <1>1, <1>6, Zenon DEF Heard, DialogueInv, DialogueType
  <2>1. b \in Batons /\ wake[b] # NoWake /\ lease[s].fence <= work[baton[b].work].fence
        /\ lease[s].fence \in Nat
    BY Zenon DEF DialogueInv, DialogueType, Heard
  <2> QED
    BY <2>1, <1>2, <1>6, <1>10
<1> QED
  BY <1>7, <1>12, <1>13, <1>14, <1>15, <1>16, <1>17, <1>18 DEF DialogueInv

LEMMA ResumeInv ==
  ASSUME DialogueInv, Resume
  PROVE  DialogueInv'
<1>1. /\ work' = work /\ baton' = baton /\ wake' = wake /\ lease' = lease
      /\ conv.status \in HeldBack
      /\ conv' = [status |-> Resting(baton, wake), gen |-> conv.gen + 1]
  BY DEF Resume, Controlled, HeldBack
<1>2. \A b \in Batons : wake[b].status # "LEASED"
  BY <1>1 DEF DialogueInv, Quiet
<1>3. conv'.status \in {"ACTIVE", "IDLE"} /\ conv'.status = Resting(baton, wake)
  BY <1>1 DEF Resting
<1>4. DialogueType'
  BY <1>1, <1>3 DEF DialogueInv, DialogueType
<1>5. Paired' /\ Founded' /\ Sole' /\ Carried'
  BY <1>1, <1>3 DEF DialogueInv, Paired, Founded, Sole, Carried, CarriesOn, HeldBack
<1>6. Awake'
  BY <1>1, <1>3 DEF Awake, Resting, Active
<1>7. Due' /\ Handed' /\ Told' /\ EndsFinal'
  BY <1>1, <1>3, Zenon DEF DialogueInv, Due, Handed, Told, EndsFinal, HeldBack
<1>8. Heard' /\ Quiet'
  BY <1>1, <1>2, <1>3, Zenon DEF DialogueInv, DialogueType, Heard, Quiet, HeldBack
<1> QED
  BY <1>4, <1>5, <1>6, <1>7, <1>8 DEF DialogueInv

LEMMA StopInv ==
  ASSUME DialogueInv, Stop
  PROVE  DialogueInv'
<1>1. conv' = [status |-> "STOPPED", gen |-> conv.gen + 1] /\ lease' = lease
  BY DEF Stop, Controlled
<1>2. \A w \in Works : /\ work'[w].status = work[w].status
                       /\ work[w].fence \in Nat /\ work'[w].fence \in Nat
                       /\ work'[w].fence >= work[w].fence
  BY DEF Stop, DialogueInv, DialogueType
<1>3. work' \in [Works -> [status: {"NONE", "OPEN", "BLOCKED", "COMPLETE"}, fence: Nat]]
  BY DEF Stop, DialogueInv, DialogueType
<1>4. wake' = [b \in Batons |-> wake'[b]] /\ baton' = [b \in Batons |-> baton'[b]]
  BY DEF Stop
<1>5. ASSUME NEW b \in Batons
      PROVE  /\ wake[b].status \notin Live => wake'[b] = wake[b]
             /\ wake[b].status \in Live =>
                  /\ wake'[b] \in WakeRow /\ wake'[b].status = "CANCELLED"
                  /\ wake'[b].fence = wake[b].fence
  BY BatonStatus DEF Stop, DialogueInv, NoWake, WakeRow, Live
<1>6. ASSUME NEW b \in Batons
      PROVE  /\ baton[b].status # "OPEN" => baton'[b] = baton[b]
             /\ baton[b].status = "OPEN" =>
                  /\ baton'[b] \in BatonRow /\ baton'[b].status = "CANCELLED"
                  /\ baton'[b].work = baton[b].work /\ baton'[b].agent = baton[b].agent
  BY BatonStatus, Zenon DEF Stop, DialogueInv, NoBaton, BatonRow
<1>7. \A b \in Batons : /\ baton'[b].status # "OPEN" /\ (baton'[b] # NoBaton <=> baton[b] # NoBaton)
                        /\ baton[b] # NoBaton => baton'[b].work = baton[b].work
                                                /\ baton'[b].agent = baton[b].agent
                                                /\ baton[b].work \in Works
                        /\ wake'[b].status \notin Live /\ (wake'[b] # NoWake <=> wake[b] # NoWake)
  BY <1>5, <1>6, BatonStatus DEF DialogueInv, NoBaton, NoWake, Live
<1>8. DialogueType'
  <2>1. \A b \in Batons : wake'[b] \in {NoWake} \cup WakeRow /\ baton'[b] \in {NoBaton} \cup BatonRow
    BY <1>5, <1>6 DEF DialogueInv, DialogueType
  <2>2. conv' \in [status: {"NONE", "ACTIVE", "IDLE", "STOPPED"} \cup HeldBack, gen: Nat]
    BY <1>1 DEF DialogueInv, DialogueType
  <2>3. wake' \in [Batons -> {NoWake} \cup WakeRow] /\ baton' \in [Batons -> {NoBaton} \cup BatonRow]
    BY <1>4, <2>1
  <2> QED
    BY <1>1, <1>3, <2>2, <2>3, Zenon DEF DialogueInv, DialogueType
<1>9. conv'.status = "STOPPED" /\ \A b \in Batons : ~CarriesOn(b)'
  BY <1>1, <1>7 DEF CarriesOn
<1>10. \A b \in Batons : wake[b] # NoWake \/ baton[b].status = "CLOSED" =>
         baton[b] # NoBaton /\ baton'[b] = baton[b] /\ baton[b].status = "CLOSED"
  BY <1>6 DEF DialogueInv, Paired, NoBaton
<1>11. Founded' /\ Sole' /\ Carried' /\ Awake' /\ Told' /\ Quiet'
  BY <1>7, <1>9 DEF Founded, Sole, Carried, Awake, Told, Quiet, HeldBack, Live
<1>12. Paired'
  BY <1>2, <1>5, <1>6, <1>7, <1>10 DEF DialogueInv, Paired
<1>13. Due'
  <2> SUFFICES ASSUME NEW b \in Batons, wake'[b] # NoWake
               PROVE  wake'[b].fence <= work'[baton'[b].work].fence
    BY <1>7 DEF Due, Live
  <2>1. /\ wake[b] # NoWake /\ baton'[b] = baton[b] /\ baton[b].work \in Works
        /\ wake[b].fence <= work[baton[b].work].fence /\ wake[b].fence \in Nat
    BY <1>7, <1>10, BatonStatus, Zenon DEF DialogueInv, Due, WakeRow
  <2> QED
    BY <2>1, <1>2, <1>5
<1>14. EndsFinal'
  BY <1>2, <1>6, <1>7, <1>9, <1>10 DEF DialogueInv, EndsFinal
<1>15. Handed'
  <2> SUFFICES ASSUME NEW b \in Batons, wake'[b].status = "CONSUMED"
               PROVE  /\ wake'[b].next \in Batons /\ baton'[wake'[b].next] # NoBaton
                      /\ baton'[wake'[b].next].work = baton'[b].work
                      /\ baton'[wake'[b].next].agent = wake'[b].target
                      /\ baton'[wake'[b].next].status # "OPEN"
    BY Zenon DEF Handed
  <2>1. wake'[b] = wake[b] /\ wake[b] # NoWake
    BY <1>5 DEF NoWake
  <2> QED
    BY <2>1, <1>7, <1>10 DEF DialogueInv, Handed
<1>16. Heard'
  <2> SUFFICES ASSUME NEW s \in Schedulers, NEW b, b = lease[s].baton, b # 0
               PROVE  /\ wake'[b] # NoWake /\ wake'[b].status # "LEASED"
                      /\ lease[s].fence <= work'[baton'[b].work].fence
    BY <1>1, Zenon DEF Heard
  <2>1. b \in Batons /\ wake[b] # NoWake /\ lease[s].fence <= work[baton[b].work].fence
        /\ lease[s].fence \in Nat
    BY Zenon DEF DialogueInv, DialogueType, Heard
  <2> QED
    BY <2>1, <1>2, <1>7, <1>10 DEF Live
<1> QED
  BY <1>8, <1>11, <1>12, <1>13, <1>14, <1>15, <1>16 DEF DialogueInv

LEMMA SameRowsInv ==
  ASSUME DialogueInv, UNCHANGED <<conv, work, baton, wake, lease>>
  PROVE  DialogueInv'
<1>1. DialogueType'
  BY DEF DialogueInv, DialogueType
<1>2. StoreInv'
  BY SameStore
<1>3. Heard' /\ Quiet'
  BY Zenon DEF DialogueInv, Heard, Quiet
<1> QED
  BY <1>1, <1>2, <1>3 DEF DialogueInv, StoreInv

LEMMA DialogueInitInv == DialogueInit => DialogueInv
<1> SUFFICES ASSUME DialogueInit PROVE DialogueInv
  OBVIOUS
<1> USE DEF DialogueInit
<1>1. \A b \in Batons : baton[b] = NoBaton /\ wake[b] = NoWake
                        /\ baton[b].status = "NONE" /\ wake[b].status = "NONE"
  BY DEF NoBaton, NoWake
<1>2. DialogueType
  BY DEF DialogueType, NoLease
<1>3. \A s \in Schedulers : lease[s].baton = 0
  BY DEF NoLease
<1>4. Paired /\ Founded /\ Sole /\ Carried /\ Awake /\ Due /\ Handed /\ Told /\ EndsFinal
  BY <1>1, Zenon DEF Paired, Founded, Sole, Carried, Awake, Due, Handed, Told, EndsFinal, CarriesOn, Live
<1>5. Heard /\ Quiet
  BY <1>1, <1>3, Zenon DEF Heard, Quiet
<1> QED
  BY <1>2, <1>4, <1>5 DEF DialogueInv

LEMMA DialogueNextInv == DialogueInv /\ [DialogueNext]_dialogueVars => DialogueInv'
<1> SUFFICES ASSUME DialogueInv, [DialogueNext]_dialogueVars PROVE DialogueInv'
  OBVIOUS
<1>1. CASE UNCHANGED dialogueVars
  BY <1>1, SameRowsInv DEF dialogueVars
<1>2. CASE OpenConversation
  BY <1>2, OpenConversationInv
<1>3. CASE \E w \in Works : OpenWorkItem(w)
  BY <1>3, OpenWorkItemInv
<1>4. CASE \E w \in Works, a \in Participants, t \in TurnIds, parent \in Batons \cup {0}, b \in Batons :
             IssueBaton(w, a, t, parent, b)
  BY <1>4, IssueBatonInv
<1>5. CASE \E b \in Batons, disp \in Closing, target \in Participants, auth \in BOOLEAN :
             \E n \in 1..MaxBudget : CloseBaton(b, disp, target, auth, n)
  BY <1>5, CloseBatonInv
<1>6. CASE \E b \in Batons : AdmitWakeEvent(b) \/ LeaseRunsOut(b)
  BY <1>6, AdmitWakeEventInv, LeaseRunsOutInv
<1>7. CASE \E s \in Schedulers : Schedule(s)
  BY <1>7, ClaimDueWakeInv, ReplayClaimInv, IssueNextBatonInv DEF Schedule
<1>8. CASE Owner
  BY <1>8, HoldBackInv, ResumeInv, StopInv DEF Owner, HeldBack
<1>9. CASE \E a \in Participants, t \in TurnIds : SealTurnExit(a, t)
  BY <1>9, SameRowsInv DEF SealTurnExit
<1> QED
  BY <1>1, <1>2, <1>3, <1>4, <1>5, <1>6, <1>7, <1>8, <1>9 DEF DialogueNext

----------------------------------------------------------------------------
(* What the invariant gives.                                               *)

\* The inductive invariant holds in every reachable state of the store.
THEOREM DialogueInvariant == DialogueSpec => []DialogueInv
<1>1. DialogueInit => DialogueInv
  BY DialogueInitInv
<1>2. DialogueInv /\ [DialogueNext]_dialogueVars => DialogueInv'
  BY DialogueNextInv
<1> QED
  BY <1>1, <1>2, PTL DEF DialogueSpec

\* Until the owner stops the conversation, an open work item that was ever handed out
\* has exactly one open baton or live wake, whatever agents, schedulers and owner do.
THEOREM DialogueNothingLost == DialogueSpec => []NothingLost
<1>1. DialogueInv => NothingLost
  <2> SUFFICES ASSUME DialogueInv, conv.status # "STOPPED" PROVE NothingLost
    BY DEF NothingLost
  <2>1. \A w \in Works, b \in Batons : b \in Carriers(w) <=> CarriesOn(b) /\ baton[b].work = w
    BY DEF Carriers, OpenBaton, LiveWake, CarriesOn
  <2>2. \A w \in Works : Carriers(w) \subseteq Batons
    BY DEF Carriers, OpenBaton, LiveWake
  <2>3. ASSUME NEW w \in Works, work[w].status = "OPEN", Issued(w) # {}
        PROVE  \E b \in Batons : Carriers(w) = {b}
    <3>1. PICK b \in Batons : baton[b] # NoBaton /\ baton[b].work = w
      BY <2>3 DEF Issued, NoBaton
    <3>2. PICK c \in Batons : CarriesOn(c) /\ baton[c].work = w
      BY <3>1, <2>3 DEF DialogueInv, Carried
    <3>3. \A d \in Batons : CarriesOn(d) /\ baton[d].work = w => d = c
      BY <3>2 DEF DialogueInv, Sole
    <3> QED
      BY <3>2, <3>3, <2>1, <2>2
  <2>4. ASSUME NEW w \in Works, ~(work[w].status = "OPEN" /\ Issued(w) # {})
        PROVE  Carriers(w) = {}
    <3>1. \A b \in Batons : CarriesOn(b) /\ baton[b].work = w =>
            work[w].status = "OPEN" /\ b \in Issued(w)
      BY DEF DialogueInv, Founded, Paired, CarriesOn, Issued, NoWake, Live
    <3> QED
      BY <3>1, <2>1, <2>2, <2>4
  <2>5. \A b \in Batons : baton[b].status = "OPEN" => wake[b] = NoWake
    BY DEF DialogueInv, Paired
  <2> QED
    BY <2>3, <2>4, <2>5 DEF NothingLost
<1> QED
  BY <1>1, DialogueInvariant, PTL

\* Work that was handed out is never held up by a check of claim_due_wake or
\* issue_next_baton while the owner lets the conversation run, and rests in an IDLE
\* conversation only to wait for an event (close_baton, RESUME).  Work that was never
\* handed out is not covered.
THEOREM DialogueStartedNeverStalls == DialogueSpec => []StartedNeverStalls
<1>1. ASSUME DialogueInv, conv.status = "IDLE", NEW w \in Works, work[w].status = "OPEN", Issued(w) # {}
      PROVE  \E b \in Batons : wake[b].status = "WAITING" /\ baton[b].work = w
  <2>1. PICK b \in Batons : baton[b] # NoBaton /\ baton[b].work = w
    BY <1>1 DEF Issued, NoBaton
  <2>2. PICK c \in Batons : CarriesOn(c) /\ baton[c].work = w
    BY <1>1, <2>1 DEF DialogueInv, Carried
  <2> QED
    BY <1>1, <2>2, Zenon DEF DialogueInv, Awake, CarriesOn, Live
<1>2. ASSUME DialogueInv, conv.status \in {"ACTIVE", "IDLE"}, NEW b \in Batons
      PROVE  /\ baton[b].status = "OPEN" \/ wake[b].status \in {"PENDING", "LEASED"} =>
                  conv.status = "ACTIVE"
             /\ wake[b].status \in Live =>
                  /\ work[baton[b].work].status = "OPEN" /\ baton[b].status = "CLOSED"
                  /\ OpenBaton(baton[b].work) = {} /\ wake[b].budget >= 1
             /\ wake[b].status = "LEASED" => wake[b].fence = work[baton[b].work].fence
             /\ wake[b].status = "CONSUMED" /\ baton[wake[b].next].status = "OPEN" =>
                  /\ baton[wake[b].next].agent = wake[b].target
                  /\ work[baton[wake[b].next].work].fence = wake[b].fence
  <2>1. baton[b].status = "OPEN" \/ wake[b].status \in {"PENDING", "LEASED"} => conv.status = "ACTIVE"
    BY <1>2 DEF DialogueInv, Awake
  <2>2. ASSUME wake[b].status \in Live
        PROVE  /\ work[baton[b].work].status = "OPEN" /\ baton[b].status = "CLOSED"
               /\ OpenBaton(baton[b].work) = {} /\ wake[b].budget >= 1
    <3>1. CarriesOn(b) /\ wake[b] # NoWake
      BY <2>2 DEF CarriesOn, NoWake, Live
    <3>2. baton[b].status = "CLOSED" /\ work[baton[b].work].status = "OPEN" /\ wake[b].budget >= 1
      BY <1>2, <2>2, <3>1, Zenon DEF DialogueInv, Paired, Founded, Due
    <3>3. \A c \in Batons : ~(baton[c].status = "OPEN" /\ baton[c].work = baton[b].work)
      BY <1>2, <3>1, <3>2 DEF DialogueInv, Sole, CarriesOn
    <3> QED
      BY <3>2, <3>3 DEF OpenBaton
  <2>3. wake[b].status = "LEASED" => wake[b].fence = work[baton[b].work].fence
    BY <1>2 DEF DialogueInv, Due
  <2>4. wake[b].status = "CONSUMED" /\ baton[wake[b].next].status = "OPEN" =>
          /\ baton[wake[b].next].agent = wake[b].target
          /\ work[baton[wake[b].next].work].fence = wake[b].fence
    BY <1>2, Zenon DEF DialogueInv, Handed
  <2> QED
    BY <2>1, <2>2, <2>3, <2>4, Zenon
<1>3. DialogueInv => StartedNeverStalls
  BY <1>1, <1>2, Zenon DEF StartedNeverStalls
<1> QED
  BY <1>3, DialogueInvariant, PTL

\* An open baton can be closed with the fence its holder was told, and every other
\* baton has the outcome seal_turn_exit demands.
THEOREM DialogueTurnsCanEnd == DialogueSpec => []TurnsCanEnd
<1>1. DialogueInv => TurnsCanEnd
  <2> SUFFICES ASSUME DialogueInv, NEW b \in Batons
               PROVE  /\ baton[b].status = "OPEN" =>
                           /\ conv.status # "STOPPED"
                           /\ work[baton[b].work] = [status |-> "OPEN", fence |-> baton[b].told]
                      /\ baton[b].status \in {"CLOSED", "CANCELLED"} => Settled(b)
    BY DEF TurnsCanEnd
  <2>1. ASSUME baton[b].status = "OPEN"
        PROVE  /\ conv.status # "STOPPED"
               /\ work[baton[b].work] = [status |-> "OPEN", fence |-> baton[b].told]
    <3>1. baton[b].work \in Works
      BY <2>1, BatonStatus DEF DialogueInv, NoBaton
    <3>2. work[baton[b].work] \in [status: {"NONE", "OPEN", "BLOCKED", "COMPLETE"}, fence: Nat]
      BY <3>1 DEF DialogueInv, DialogueType
    <3>3. /\ conv.status # "STOPPED" /\ work[baton[b].work].status = "OPEN"
          /\ work[baton[b].work].fence = baton[b].told
      BY <2>1 DEF DialogueInv, Founded, Told, CarriesOn
    <3> QED
      BY <3>2, <3>3, Zenon
  <2>2. ASSUME baton[b].status = "CANCELLED" PROVE Settled(b)
    BY <2>2 DEF DialogueInv, EndsFinal, Settled
  <2>3. ASSUME baton[b].status = "CLOSED" PROVE Settled(b)
    <3>1. baton[b].disp \in {"CONTINUE", "WAIT", "HOLD", "WORK_COMPLETE"}
      BY <2>3 DEF DialogueInv, Paired, Closing
    <3>2. CASE baton[b].disp \in Continuing
      <4>1. wake[b].status # "NONE"
        BY <2>3, <3>2, BatonStatus, Zenon DEF DialogueInv, Paired
      <4> QED
        BY <4>1, <2>3, <3>2, Zenon DEF DialogueInv, EndsFinal, Settled, Continuing
    <3>3. CASE baton[b].disp = "WORK_COMPLETE"
      BY <2>3, <3>3 DEF DialogueInv, EndsFinal, Settled, Continuing
    <3>4. CASE baton[b].disp = "HOLD"
      BY <2>3, <3>4, Zenon DEF DialogueInv, EndsFinal, Settled, Continuing
    <3> QED
      BY <3>1, <3>2, <3>3, <3>4 DEF Continuing
  <2> QED
    BY <2>1, <2>2, <2>3
<1> QED
  BY <1>1, DialogueInvariant, PTL

\* Only the scheduler with the last lease turns a wake into a baton, and only under
\* the owner generation it heard of: what a repeated claim or a restarted scheduler
\* under the same scheduler_id presents does not pass.
THEOREM DialogueFencedIssue == DialogueSpec => FencedIssue
<1> DEFINE Fenced ==
      \A b \in Batons :
        wake[b].status # "CONSUMED" /\ wake'[b].status = "CONSUMED" =>
          \E s \in Schedulers : /\ lease[s].baton = b /\ lease'[s] = NoLease
                                /\ lease[s].fence = wake[b].fence
                                /\ lease[s].gen = conv.gen
<1>1. DialogueInv /\ [DialogueNext]_dialogueVars => [Fenced]_dialogueVars
  <2> SUFFICES ASSUME DialogueInv, [DialogueNext]_dialogueVars, NEW b \in Batons,
                      wake[b].status # "CONSUMED", wake'[b].status = "CONSUMED"
               PROVE  \E s \in Schedulers : /\ lease[s].baton = b /\ lease'[s] = NoLease
                                            /\ lease[s].fence = wake[b].fence
                                            /\ lease[s].gen = conv.gen
    OBVIOUS
  <2>0. wake[b] = NoWake \/ wake[b] \in WakeRow
    BY DEF DialogueInv, DialogueType
  <2>1. ASSUME NEW s \in Schedulers, NEW c \in Batons, NEW t \in TurnIds, NEW d \in Batons,
               IssueNextBaton(s, c, t, d)
        PROVE  \E r \in Schedulers : /\ lease[r].baton = b /\ lease'[r] = NoLease
                                     /\ lease[r].fence = wake[b].fence
                                     /\ lease[r].gen = conv.gen
    <3>1. /\ lease[s].baton = c /\ wake[c].status = "LEASED" /\ wake[c].fence = lease[s].fence
          /\ wake' = [wake EXCEPT ![c].status = "CONSUMED", ![c].next = d, ![c].budget = @ - 1]
          /\ lease' = [lease EXCEPT ![s] = NoLease]
      BY <2>1, Zenon DEF IssueNextBaton, HoldsLease
    <3>2. c = b
      BY <3>1, Zenon DEF DialogueInv, DialogueType
    <3>3. lease'[s] = NoLease
      BY <3>1, Zenon DEF DialogueInv, DialogueType
    <3>4. lease[s].gen = conv.gen
      BY <3>1, DialogueAssumption, Zenon DEF DialogueInv, Heard
    <3> QED
      BY <3>1, <3>2, <3>3, <3>4, Zenon
  <2>2. ASSUME NEW c \in Batons, NEW disp \in Closing, NEW target \in Participants,
               NEW auth \in BOOLEAN, NEW n \in 1..MaxBudget, CloseBaton(c, disp, target, auth, n)
        PROVE  FALSE
    <3>1. wake' = IF disp \notin Continuing THEN wake
                  ELSE [wake EXCEPT ![c] =
                          NewWake(IF disp = "CONTINUE" THEN "PENDING" ELSE "WAITING",
                                  target, auth, n)]
      BY <2>2, Zenon DEF CloseBaton
    <3> QED
      BY <3>1 DEF DialogueInv, DialogueType, NewWake
  <2>3. ASSUME NEW c \in Batons, AdmitWakeEvent(c) \/ LeaseRunsOut(c)
        PROVE  FALSE
    <3>1. CASE AdmitWakeEvent(c)
      BY <3>1, <2>0 DEF AdmitWakeEvent, DialogueInv, DialogueType, NoWake, WakeRow
    <3>2. CASE LeaseRunsOut(c)
      BY <3>2, <2>0 DEF LeaseRunsOut, DialogueInv, DialogueType, NoWake, WakeRow
    <3> QED
      BY <2>3, <3>1, <3>2
  <2>4. ASSUME NEW s \in Schedulers, NEW c \in Batons, ClaimDueWake(s, c)
        PROVE  FALSE
    <3>1. \E f : wake' = [wake EXCEPT ![c].status = "LEASED", ![c].holder = SchedulerId(s),
                                     ![c].fence = f, ![c].late = FALSE]
      BY <2>4, Zenon DEF ClaimDueWake
    <3>2. wake[c].status # "NONE"
      BY <2>4, Zenon DEF ClaimDueWake
    <3> QED
      BY <3>1, <3>2, <2>0 DEF DialogueInv, DialogueType, NoWake, WakeRow
  <2>5. ASSUME NEW status \in HeldBack, HoldBack(status)
        PROVE  FALSE
    <3>1. wake'[b] = IF wake[b].status # "LEASED" THEN wake[b]
                     ELSE [wake[b] EXCEPT !.status = "PENDING", !.holder = NoHolder,
                                          !.fence = 0, !.late = FALSE]
      BY <2>5, Zenon DEF HoldBack, RevokeSchedulerLeases
    <3> QED
      BY <3>1, <2>0 DEF NoWake, WakeRow
  <2>6. CASE Stop
    <3>1. wake'[b] = IF wake[b].status \in Live THEN [wake[b] EXCEPT !.status = "CANCELLED"]
                     ELSE wake[b]
      BY <2>6 DEF Stop
    <3> QED
      BY <3>1, <2>0 DEF NoWake, WakeRow, Live
  <2>7. wake' # wake
    OBVIOUS
  <2> QED
    BY <2>1, <2>2, <2>3, <2>4, <2>5, <2>6, <2>7, Zenon
    DEF DialogueNext, dialogueVars, Schedule, Owner, OpenConversation, OpenWorkItem, IssueBaton,
        ReplayClaim, Resume, SealTurnExit, HeldBack
<1>2. [][Fenced]_dialogueVars => FencedIssue
  BY DEF FencedIssue
<1> QED
  BY <1>1, <1>2, DialogueInvariant, PTL DEF DialogueSpec

=============================================================================
