---------------------------- MODULE IntentCustody ----------------------------
(***************************************************************************)
(* IntentCustody (intent_custody.py): one-use custody of signed            *)
(* ChangeIntents on one SQLite database, and the processes that use it:    *)
(*                                                                         *)
(*   verify -> reserve -> execute -> consume against an observation        *)
(*                                                                         *)
(* reserve, consume and abandon check their arguments and read the clock   *)
(* first (Begin...) and then run one BEGIN IMMEDIATE transaction           *)
(* (Commit...); other processes and the clock may move in between.  A      *)
(* process may crash anywhere: what it had not committed is gone.  A       *)
(* reservation is plain data that status() returns the parts of, so any    *)
(* process may close a reservation of another (Adopt).                     *)
(*                                                                         *)
(* Digests are injective: the digest of an intent is the intent, and a     *)
(* reservation_id is the tuple it is made from.                            *)
(***************************************************************************)
EXTENDS Reconciler

CONSTANTS
  Processes,   \* the processes that share the database; a holder names one
  Intents,     \* the signed intents in circulation; intent_ids may repeat
  MaxTime,     \* bound: clock readings
  MaxReport    \* bound: deltas in an observation

ASSUME IntentsAssumption == \A i \in Intents : Verified(i)

VARIABLES
  custody,   \* custody[id]: the row of intent_custody for id
  mem,       \* mem[p]: what process p is doing, lost in a crash
  clock,
  world,     \* the changes that were made, as an observer reports them
  runs       \* runs[id]: executions that started from a reservation of id

vars == <<custody, mem, clock, world, runs>>

Ids == {i.id : i \in Intents}

Nothing == [status |-> "none"]
Row(r, status, receipt) == [status |-> status, reservation |-> r, receipt |-> receipt]
NoReceipt == "none"

\* The row a reservation is of.
IdOf(r) == r.intent.id

Idle == [step |-> "idle"]

Init ==
  /\ custody = [id \in Ids |-> Nothing]
  /\ mem = [p \in Processes |-> Idle]
  /\ clock = 0
  /\ world = {}
  /\ runs = [id \in Ids |-> 0]

Goto(p, m) == mem' = [mem EXCEPT ![p] = m]

----------------------------------------------------------------------------
(* reserve                                                                 *)

\* Signature, tenant and window are judged before the transaction.
BeginReserve(p, intent) ==
  /\ mem[p] = Idle
  /\ intent.from <= clock /\ clock <= intent.until
  /\ Goto(p, [step |-> "reserving",
              reservation |-> [intent |-> intent, holder |-> p, at |-> clock]])
  /\ UNCHANGED <<custody, clock, world, runs>>

\* Mutated form: a closed row may be reserved again.
UnreservedOrClosed(id) == custody[id].status # "reserved"

Unreserved(id) == custody[id].status = "none"

\* The row is inserted, or IntentReplayError is raised.
CommitReserve(p) ==
  LET r == mem[p].reservation
      id == IdOf(r)
  IN /\ mem[p].step = "reserving"
     /\ \/ /\ Unreserved(id)
           /\ custody' = [custody EXCEPT ![id] = Row(r, "reserved", NoReceipt)]
           /\ Goto(p, [step |-> "granted", reservation |-> r])
        \/ /\ ~Unreserved(id)
           /\ Goto(p, Idle)
           /\ UNCHANGED custody
     /\ UNCHANGED <<clock, world, runs>>

----------------------------------------------------------------------------
(* The caller carries out the change it has reserved (external).           *)

\* What an observer will say of a change: made now, as planned or not, and how
\* the post-check went.
Effects(intent, now) ==
  {[here |-> TRUE, complete |-> TRUE, slot |-> intent.expected[1].slot, diff |-> d,
    at |-> now, post |-> c] : d \in {intent.expected[1].diff, "other"}, c \in {"PASS", "FAIL"}}

Execute(p) ==
  /\ mem[p].step = "granted"
  /\ \E e \in Effects(mem[p].reservation.intent, clock) : world' = world \cup {e}
  /\ runs' = [runs EXCEPT ![IdOf(mem[p].reservation)] = @ + 1]
  /\ Goto(p, [mem[p] EXCEPT !.step = "executed"])
  /\ UNCHANGED <<custody, clock>>

\* A process rebuilds somebody's reservation from status().
Adopt(p, id) ==
  /\ mem[p] = Idle
  /\ custody[id] # Nothing
  /\ Goto(p, [step |-> "adopted", reservation |-> custody[id].reservation])
  /\ UNCHANGED <<custody, clock, world, runs>>

----------------------------------------------------------------------------
(* consume and abandon                                                     *)

HasReservation(p) == mem[p].step \in {"granted", "executed", "adopted"}

Reports == UNION {[1..n -> world] : n \in 0..MaxReport}

\* Mutated form: any intent with the reserved id will do.
MatchesById(intent, r) == intent.id = r.intent.id

Matches(intent, r) == intent = r.intent

\* consume, up to its transaction: the intent is checked against the reservation
\* and the observation is classified.
BeginConsume(p, intent) ==
  /\ HasReservation(p)
  /\ Matches(intent, mem[p].reservation)
  /\ \E observed \in Reports :
       Goto(p, [step |-> "closing", reservation |-> mem[p].reservation, status |-> "consumed",
                receipt |-> [closed |-> clock, results |-> Reconcile(intent, observed)]])
  /\ UNCHANGED <<custody, clock, world, runs>>

BeginAbandon(p) ==
  /\ HasReservation(p)
  /\ Goto(p, [step |-> "closing", reservation |-> mem[p].reservation, status |-> "abandoned",
              receipt |-> [closed |-> clock, results |-> <<>>]])
  /\ UNCHANGED <<custody, clock, world, runs>>

\* _checked_reservation, and _close_row, which looks at the same once more.
CheckedReservation(r) ==
  /\ custody[IdOf(r)] # Nothing
  /\ custody[IdOf(r)].reservation = r
  /\ custody[IdOf(r)].status = "reserved"

CommitClose(p) ==
  LET r == mem[p].reservation
  IN /\ mem[p].step = "closing"
     /\ \/ /\ CheckedReservation(r)
           /\ custody' = [custody EXCEPT ![IdOf(r)] = Row(r, mem[p].status, mem[p].receipt)]
        \/ /\ ~CheckedReservation(r)
           /\ UNCHANGED custody
     /\ Goto(p, Idle)
     /\ UNCHANGED <<clock, world, runs>>

----------------------------------------------------------------------------
Crash(p) ==
  /\ mem[p] # Idle
  /\ Goto(p, Idle)
  /\ UNCHANGED <<custody, clock, world, runs>>

Tick ==
  /\ clock < MaxTime
  /\ clock' = clock + 1
  /\ UNCHANGED <<custody, mem, world, runs>>

Next ==
  \/ Tick
  \/ \E p \in Processes :
       \/ \E i \in Intents : BeginReserve(p, i) \/ BeginConsume(p, i)
       \/ CommitReserve(p) \/ Execute(p) \/ BeginAbandon(p) \/ CommitClose(p) \/ Crash(p)
       \/ \E id \in Ids : Adopt(p, id)

Spec == Init /\ [][Next]_vars

----------------------------------------------------------------------------
(* What custody promises.                                                  *)

Steps == {"idle", "reserving", "granted", "executed", "adopted", "closing"}

\* The shape of the rows and of what processes remember.
TypeOK ==
  /\ clock \in Nat
  /\ runs \in [Ids -> Nat]
  /\ DOMAIN custody = Ids
  /\ \A id \in Ids :
       \/ custody[id] = Nothing
       \/ /\ custody[id].status \in {"reserved", "consumed", "abandoned"}
          /\ custody[id].reservation.intent \in Intents
          /\ IdOf(custody[id].reservation) = id
  /\ DOMAIN mem = Processes
  /\ \A p \in Processes :
       /\ mem[p].step \in Steps
       /\ mem[p].step # "idle" => mem[p].reservation.intent \in Intents
       /\ mem[p].step = "closing" => mem[p].status \in {"consumed", "abandoned"}

\* Who was granted an intent by reserve is the holder its row names, so no two
\* processes are; the intent was not executed before it was granted, nor by a
\* process that is yet to execute it.
GrantIsRow(p, id) ==
  /\ mem[p].step = "reserving" => mem[p].reservation.holder = p
  /\ mem[p].step \in {"granted", "executed"}
       => /\ custody[id] # Nothing
          /\ custody[id].reservation = mem[p].reservation
          /\ mem[p].reservation.holder = p
  /\ mem[p].step = "granted" => runs[id] = 0

Granted ==
  /\ \A id \in Ids : custody[id] = Nothing => runs[id] = 0
  /\ \A p \in Processes : GrantIsRow(p, IdOf(mem[p].reservation))

CustodyInv == TypeOK /\ Granted

\* "Exactly once": however processes race, crash and adopt, one intent_id starts
\* at most one execution, whichever of its signed documents it was reserved by.
OneExecution == \A id \in Ids : runs[id] <= 1

\* "Never becomes reusable": a row that was closed keeps its status and receipt,
\* and a reserved row keeps its reservation.
FinalRow(row, after) ==
  /\ row.status \in {"consumed", "abandoned"} => after = row
  /\ row.status = "reserved" => after.status # "none" /\ after.reservation = row.reservation

Final == [][\A id \in Ids : FinalRow(custody[id], custody'[id])]_vars

\* A consumption receipt without a blemish attests that a change was made as the
\* reserved document (not another one of the same id) planned it, within its window.
CleanReceiptAttests ==
  \A id \in Ids :
    custody[id].status = "consumed" /\ Clean(custody[id].receipt.results)
      => \E e \in world : Shows(custody[id].reservation.intent, e, 1)

\* The custody of every intent_id is a one-use authorization.
Phase(row) ==
  IF row.status = "none" THEN "unused" ELSE IF row.status = "reserved" THEN "spent" ELSE "closed"

Promise == INSTANCE OneUse WITH phase <- [id \in Ids |-> Phase(custody[id])], uses <- runs

ImplementsOneUse == Promise!Spec
=============================================================================
