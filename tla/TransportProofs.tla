-------------------------- MODULE TransportProofs ---------------------------
(***************************************************************************)
(* Proofs about what the batons of the dialogue turn into: the tasks they  *)
(* are made into (DialogueTransport), for any number of drivers and tasks, *)
(* and the wakes that continue a work item (PerpetualDialogue again), for  *)
(* any number of batons and any budgets.                                   *)
(***************************************************************************)
EXTENDS DialogueTransport, DialogueProofs, TLAPS

(***************************************************************************)
(* 1. DialogueTransport                                                    *)
(*                                                                         *)
(* One task for one baton is inductive together with where every driver    *)
(* is: only the one that inserted the journal's row starts a task, the row *)
(* has the task that was started, and READY is written for a kept one.     *)
(***************************************************************************)
TransportSpec ==
  /\ DialogueInit /\ TransportInit
  /\ [][TransportNext]_<<dialogueVars, transportVars>>

DriverRow == [at: {"idle", "prepare", "start", "record", "inject", "ready", "unknown"},
              req: requests \cup {NoRequest}, task: Nat]

TransportType ==
  /\ journal \in [Batons -> [state: {"NONE", "PREPARED", "STARTED", "READY"}, task: Nat]]
  /\ driver \in [Drivers -> DriverRow]
  /\ \A r \in requests : r.baton \in Batons
  /\ \E n \in Nat : DOMAIN tasks = 1..n
  /\ tasks \in [DOMAIN tasks -> [baton: Batons, kept: BOOLEAN]]

\* n is a task of baton c.
TaskOf(n, c) == n \in DOMAIN tasks /\ tasks[n].baton = c

\* What a driver is about to do fits the row of its dispatch and the tasks there are.
Supported(m) ==
  LET c == m.req.baton
  IN /\ m.at # "idle" => c \in Batons
     /\ m.at \in {"start", "record"} => journal[c].state = "PREPARED"
     /\ m.at = "start" => \A n \in DOMAIN tasks : tasks[n].baton # c
     /\ m.at = "record" => TaskOf(m.task, c)
     /\ m.at \in {"inject", "ready"} =>
          /\ journal[c].state \in {"STARTED", "READY"} /\ journal[c].task = m.task
          /\ TaskOf(m.task, c)
     /\ m.at = "ready" => tasks[m.task].kept

\* The driver that inserted the row of a dispatch is the only one that starts a task.
StartsAlone ==
  \A d, e \in Drivers :
    /\ driver[d].at \in {"start", "record"} /\ driver[e].at \in {"start", "record"}
    /\ driver[d].req.baton = driver[e].req.baton
    => d = e

\* What a row has as the task of a dispatch is one.
RowsTrue ==
  \A c \in Batons :
    /\ journal[c].state = "NONE" => \A n \in DOMAIN tasks : tasks[n].baton # c
    /\ journal[c].state \in {"STARTED", "READY"} => TaskOf(journal[c].task, c)
    /\ journal[c].state = "READY" => tasks[journal[c].task].kept

\* A baton has one task, and what was receipted or admitted is it.
OnePerBaton == \A m, n \in DOMAIN tasks : tasks[m].baton = tasks[n].baton => m = n
Proven == \A r \in receipts \cup admitted : TaskOf(r.task, r.baton) /\ tasks[r.task].kept

TransportInv ==
  /\ TransportType /\ StartsAlone /\ RowsTrue /\ OnePerBaton /\ Proven
  /\ \A d \in Drivers : Supported(driver[d])

----------------------------------------------------------------------------
\* A step of one driver.
LEMMA DriverStep ==
  ASSUME TransportInv, NEW d \in Drivers, NEW m \in DriverRow, driver' = [driver EXCEPT ![d] = m],
         m.at \in {"start", "record"} => \A e \in Drivers \ {d} :
           ~(driver[e].at \in {"start", "record"} /\ driver[e].req.baton = m.req.baton),
         \A e \in Drivers \ {d} : Supported(driver[e])', Supported(m)', requests' = requests,
         journal' \in [Batons -> [state: {"NONE", "PREPARED", "STARTED", "READY"}, task: Nat]],
         \E n \in Nat : DOMAIN tasks' = 1..n, tasks' \in [DOMAIN tasks' -> [baton: Batons, kept: BOOLEAN]],
         RowsTrue', OnePerBaton', Proven'
  PROVE  TransportInv'
<1>1. driver \in [Drivers -> DriverRow]
  BY DEF TransportInv, TransportType
<1>2. /\ driver' \in [Drivers -> DriverRow] /\ driver'[d] = m
      /\ \A e \in Drivers \ {d} : driver'[e] = driver[e]
  BY <1>1
<1>3. DriverRow' = DriverRow
  BY DEF DriverRow
<1>4. TransportType'
  BY <1>2, <1>3 DEF TransportInv, TransportType
<1>5. \A e \in Drivers : Supported(driver[e])'
  BY <1>2, Zenon DEF Supported
<1>6. StartsAlone'
  BY <1>2 DEF TransportInv, StartsAlone
<1> QED BY <1>4, <1>5, <1>6 DEF TransportInv

LEMMA DriverFacts ==
  ASSUME TransportInv, NEW d \in Drivers
  PROVE  /\ driver[d] \in DriverRow /\ driver \in [Drivers -> DriverRow] /\ Supported(driver[d])
         /\ driver[d].at # "idle" => driver[d].req \in requests \cup {NoRequest} /\ driver[d].req.baton \in Batons
         /\ driver[d].task \in Nat
BY Zenon DEF TransportInv, TransportType, DriverRow, Supported

\* Idle, and the steps that only move a driver on.
LEMMA IdleRow == Idle \in DriverRow /\ Idle.at = "idle"
BY DEF Idle, DriverRow, NoTask

\* The driver after a Goto.
LEMMA GotoRow ==
  ASSUME TransportInv, NEW d \in Drivers,
         NEW at \in {"idle", "prepare", "start", "record", "inject", "ready", "unknown"}, Goto(d, at)
  PROVE  \E m \in DriverRow : /\ driver' = [driver EXCEPT ![d] = m] /\ m.at = at
                              /\ m.req = driver[d].req /\ m.task = driver[d].task
<1> DEFINE m == [driver[d] EXCEPT !.at = at]
<1>1. driver[d] \in DriverRow
  BY DriverFacts
<1>2. m \in DriverRow /\ m.at = at /\ m.req = driver[d].req /\ m.task = driver[d].task
  BY <1>1 DEF DriverRow
<1>3. driver' = [driver EXCEPT ![d] = m]
  BY DEF Goto
<1> QED BY <1>2, <1>3, Zenon

LEMMA StoresSame ==
  ASSUME TransportInv, UNCHANGED <<journal, tasks>>
  PROVE  /\ journal' \in [Batons -> [state: {"NONE", "PREPARED", "STARTED", "READY"}, task: Nat]]
         /\ \E n \in Nat : DOMAIN tasks' = 1..n
         /\ tasks' \in [DOMAIN tasks' -> [baton: Batons, kept: BOOLEAN]]
         /\ RowsTrue' /\ OnePerBaton'
BY DEF TransportInv, TransportType, RowsTrue, OnePerBaton, TaskOf

\* A row of the journal, which becomes READY, stays as it is to everybody else.
LEMMA ReadyRow ==
  ASSUME TransportInv, NEW c \in Batons, NEW n, MarkedReady(c, n), tasks' = tasks,
         journal[c].state = "STARTED" => tasks[n].kept
  PROVE  /\ journal' \in [Batons -> [state: {"NONE", "PREPARED", "STARTED", "READY"}, task: Nat]]
         /\ RowsTrue'
         /\ \A m \in DriverRow : Supported(m) => Supported(m)'
         /\ TaskOf(n, c) /\ tasks[n].kept
<1>1. /\ journal[c].state \in {"STARTED", "READY"} /\ journal[c].task = n
      /\ journal' = [journal EXCEPT ![c].state = "READY"]
  BY DEF MarkedReady
<1>2. journal \in [Batons -> [state: {"NONE", "PREPARED", "STARTED", "READY"}, task: Nat]]
  BY DEF TransportInv, TransportType
<1>3. /\ journal' \in [Batons -> [state: {"NONE", "PREPARED", "STARTED", "READY"}, task: Nat]]
      /\ journal'[c].state = "READY" /\ journal'[c].task = n
      /\ \A b \in Batons \ {c} : journal'[b] = journal[b]
  BY <1>1, <1>2
<1>4. TaskOf(n, c) /\ tasks[n].kept
  BY <1>1 DEF TransportInv, RowsTrue
<1>5. RowsTrue'
  BY <1>3, <1>4 DEF TransportInv, RowsTrue, TaskOf
<1>6. ASSUME NEW m \in DriverRow, Supported(m) PROVE Supported(m)'
  <2>1. m.at # "idle" => m.req.baton \in Batons
    BY <1>6, Zenon DEF Supported
  <2>2. CASE m.at = "idle"
    BY <2>2 DEF Supported
  <2>3. CASE m.at # "idle" /\ m.req.baton = c
    BY <1>1, <1>3, <1>6, <2>3 DEF Supported, TaskOf
  <2>4. CASE m.at # "idle" /\ m.req.baton # c
    BY <1>3, <1>6, <2>1, <2>4, Zenon DEF Supported, TaskOf
  <2> QED BY <2>2, <2>3, <2>4
<1> QED BY <1>3, <1>4, <1>5, <1>6

\* A driver that is done.
LEMMA DoneStep ==
  ASSUME TransportInv, NEW d \in Drivers, Done(d), UNCHANGED <<journal, tasks, requests>>, Proven'
  PROVE  TransportInv'
<1>1. driver' = [driver EXCEPT ![d] = Idle]
  BY DEF Done
<1>2. \A e \in Drivers \ {d} : driver'[e] = driver[e]
  <2>1. driver \in [Drivers -> DriverRow]
    BY DriverFacts, Zenon
  <2> QED BY <1>1, <2>1
<1>3. \A e \in Drivers \ {d} : Supported(driver[e])'
  <2> SUFFICES ASSUME NEW e \in Drivers \ {d} PROVE Supported(driver[e])'
    OBVIOUS
  <2>1. Supported(driver[e]) /\ driver'[e] = driver[e]
    BY <1>2, Zenon DEF TransportInv
  <2> QED BY <2>1, Zenon DEF Supported, TaskOf
<1>4. Supported(Idle)'
  BY IdleRow, Zenon DEF Supported
<1> QED BY <1>1, <1>3, <1>4, IdleRow, StoresSame, DriverStep, Zenon

\* A driver that goes on, and stores that stay.
LEMMA MovesOn ==
  ASSUME TransportInv, NEW d \in Drivers, NEW m \in DriverRow, driver' = [driver EXCEPT ![d] = m],
         m.at \notin {"start", "record"}, Supported(m), UNCHANGED <<journal, tasks, requests>>, Proven'
  PROVE  TransportInv'
<1>1. \A e \in Drivers \ {d} : driver'[e] = driver[e]
  BY DriverFacts
<1>2. Supported(m)' /\ \A e \in Drivers \ {d} : Supported(driver[e])'
  BY <1>1 DEF TransportInv, Supported, TaskOf
<1> QED BY <1>2, StoresSame, DriverStep, Zenon

LEMMA ProvenSame ==
  ASSUME TransportInv, UNCHANGED <<tasks, receipts, admitted>> PROVE Proven'
BY Zenon DEF TransportInv, Proven, TaskOf

LEMMA ReceiptedProven ==
  ASSUME TransportInv, NEW d \in Drivers, NEW n, Receipted(d, n), tasks' = tasks, admitted' = admitted,
         TaskOf(n, driver[d].req.baton), tasks[n].kept
  PROVE  Proven'
<1>1. receipts' = receipts \cup {[baton |-> driver[d].req.baton, task |-> n]}
  BY DEF Receipted
<1> QED BY <1>1 DEF TransportInv, Proven, TaskOf

LEMMA DispatchKeeps ==
  ASSUME TransportInv, NEW d \in Drivers, NEW r \in requests, Dispatch(d, r)
  PROVE  TransportInv'
<1>1. /\ driver' = [driver EXCEPT ![d] = [at |-> "prepare", req |-> r, task |-> NoTask]]
      /\ UNCHANGED <<journal, tasks, requests>> /\ UNCHANGED <<tasks, receipts, admitted>>
  BY DEF Dispatch
<1>2. PICK m \in DriverRow : driver' = [driver EXCEPT ![d] = m] /\ m.at = "prepare" /\ m.req = r
  <2> DEFINE m == [at |-> "prepare", req |-> r, task |-> NoTask]
  <2>1. m \in DriverRow /\ m.at = "prepare" /\ m.req = r
    BY DEF DriverRow, NoTask
  <2> QED BY <1>1, <2>1, Zenon
<1>3. r.baton \in Batons
  BY DEF TransportInv, TransportType
<1>4. Supported(m)
  BY <1>2, <1>3 DEF Supported
<1> QED BY <1>1, <1>2, <1>4, ProvenSame, MovesOn, Zenon

\* prepare inserts the row: nobody has started a task for this dispatch.
LEMMA PrepareKeeps2 ==
  ASSUME TransportInv, NEW d \in Drivers, Prepare(d)
  PROVE  TransportInv'
<1>1. driver[d].at = "prepare" /\ UNCHANGED <<tasks, requests, admitted>>
  BY Zenon DEF Prepare
<1>2. PICK c \in Batons : c = driver[d].req.baton
  BY <1>1, DriverFacts
<1>3. ASSUME journal[c].state = "NONE", Goto(d, "start"), receipts' = receipts,
             journal' = [journal EXCEPT ![c] = [state |-> "PREPARED", task |-> NoTask]]
      PROVE  TransportInv'
  <2>1. PICK m \in DriverRow : driver' = [driver EXCEPT ![d] = m] /\ m.at = "start" /\ m.req.baton = c
    BY <1>2, <1>3, GotoRow
  <2>2. /\ journal' \in [Batons -> [state: {"NONE", "PREPARED", "STARTED", "READY"}, task: Nat]]
        /\ journal'[c].state = "PREPARED" /\ \A b \in Batons \ {c} : journal'[b] = journal[b]
    BY <1>3 DEF TransportInv, TransportType, NoTask
  <2>3. Supported(m)'
    BY <1>1, <1>3, <2>1, <2>2 DEF TransportInv, RowsTrue, Supported
  <2>4. ASSUME NEW e \in Drivers \ {d}
        PROVE  /\ Supported(driver[e])'
               /\ ~(driver[e].at \in {"start", "record"} /\ driver[e].req.baton = m.req.baton)
    <3>1. Supported(driver[e]) /\ driver'[e] = driver[e]
      BY <2>1, DriverFacts
    <3>2. driver[e].at \in {"start", "record", "inject", "ready"} =>
            driver[e].req.baton \in Batons \ {c}
      BY <1>3, <3>1, Zenon DEF Supported
    <3>3. Supported(driver[e])'
      BY <1>1, <2>2, <3>1, <3>2 DEF Supported, TaskOf
    <3> QED BY <2>1, <3>2, <3>3
  <2>5. RowsTrue'
    BY <1>1, <2>2, ZenonT(30) DEF TransportInv, RowsTrue, TaskOf
  <2>6. /\ \E n \in Nat : DOMAIN tasks' = 1..n
        /\ tasks' \in [DOMAIN tasks' -> [baton: Batons, kept: BOOLEAN]] /\ OnePerBaton'
    BY <1>1, Zenon DEF TransportInv, TransportType, OnePerBaton
  <2>7. Proven' /\ requests' = requests
    BY <1>1, <1>3, ProvenSame, Zenon
  <2> QED BY <2>1, <2>2, <2>3, <2>4, <2>5, <2>6, <2>7, DriverStep, Zenon
<1>4. ASSUME journal[c].state = "READY", Receipted(d, journal[c].task), Done(d), journal' = journal
      PROVE  TransportInv'
  <2>1. TaskOf(journal[c].task, c) /\ tasks[journal[c].task].kept
    BY <1>4, Zenon DEF TransportInv, RowsTrue
  <2>2. Proven'
    BY <1>1, <1>2, <1>4, <2>1, ReceiptedProven, Zenon
  <2> QED BY <1>1, <1>4, <2>2, DoneStep, Zenon
<1>5. ASSUME Goto(d, "unknown"), UNCHANGED <<journal, receipts>> PROVE TransportInv'
  <2>1. PICK m \in DriverRow : driver' = [driver EXCEPT ![d] = m] /\ m.at = "unknown" /\ m.req.baton = c
    BY <1>2, <1>5, GotoRow
  <2>2. Supported(m)
    BY <2>1 DEF Supported
  <2> QED BY <1>1, <1>5, <2>1, <2>2, ProvenSame, MovesOn, Zenon
<1> QED BY <1>2, <1>3, <1>4, <1>5, Zenon DEF Prepare, Claimable

\* The service's tasks are numbered as they are started: the new one comes last.
LEMMA Numbered == \A R : \A s \in Seq(R) : DOMAIN s = 1..Len(s) /\ s \in [1..Len(s) -> R]
OBVIOUS

Added(t, x, k, R, u) ==
  /\ Len(t) = k /\ DOMAIN u = 1..(k + 1) /\ u \in [1..(k + 1) -> R]
  /\ u[k + 1] = x /\ \A j \in 1..k : u[j] = t[j]

LEMMA TaskAppended ==
  ASSUME NEW R, NEW k \in Nat, NEW t \in [1..k -> R], NEW x \in R, NEW u, u = Append(t, x)
  PROVE  Added(t, x, k, R, u)
<1>1. t \in Seq(R) /\ Len(t) = k
  OBVIOUS
<1>2. u \in Seq(R) /\ Len(u) = k + 1 /\ u[k + 1] = x /\ \A j \in 1..k : u[j] = t[j]
  BY <1>1
<1> QED BY <1>1, <1>2, Numbered, Zenon DEF Added

\* thread/start, by the only driver that may: a new task, the first of its baton.
LEMMA ThreadStartKeeps ==
  ASSUME TransportInv, NEW d \in Drivers, ThreadStart(d)
  PROVE  TransportInv'
<1>1. driver[d].at = "start" /\ UNCHANGED <<journal, requests, receipts, admitted>>
  BY DEF ThreadStart
<1>2. PICK c \in Batons : c = driver[d].req.baton
  BY <1>1, DriverFacts, Zenon
<1>3. PICK k \in Nat : DOMAIN tasks = 1..k
  BY DEF TransportInv, TransportType
<1>4. PICK new \in [baton: Batons, kept: BOOLEAN] : new = [baton |-> c, kept |-> FALSE]
  BY Zenon
<1>5. tasks' = Append(tasks, new)
  BY <1>2, <1>4, Zenon DEF ThreadStart
<1>6. PICK n \in Nat : n = k + 1
  OBVIOUS
<1>7. /\ Len(tasks) = k /\ DOMAIN tasks' = 1..n
      /\ tasks' \in [DOMAIN tasks' -> [baton: Batons, kept: BOOLEAN]]
      /\ tasks'[n] = new /\ \A j \in 1..k : tasks'[j] = tasks[j]
  <2>1. tasks \in [1..k -> [baton: Batons, kept: BOOLEAN]]
    BY <1>3, Zenon DEF TransportInv, TransportType
  <2>2. Added(tasks, new, k, [baton: Batons, kept: BOOLEAN], tasks')
    BY <1>5, <2>1, TaskAppended, Zenon
  <2> QED BY <1>6, <2>2, Zenon DEF Added
<1>8. /\ n \notin DOMAIN tasks /\ DOMAIN tasks' = DOMAIN tasks \cup {n}
      /\ tasks'[n] = [baton |-> c, kept |-> FALSE]
      /\ tasks'[n].baton = c /\ \A j \in DOMAIN tasks : tasks'[j] = tasks[j]
  BY <1>3, <1>4, <1>6, <1>7
<1>9. \/ driver' = [driver EXCEPT ![d].at = "record", ![d].task = n]
      \/ Goto(d, "unknown")
  BY <1>6, <1>7, Zenon DEF ThreadStart
<1>10. \A j, b : TaskOf(j, b) => TaskOf(j, b)' /\ (tasks[j].kept => tasks'[j].kept)
  BY <1>8, Zenon DEF TaskOf
<1>11. /\ journal[c].state = "PREPARED" /\ \A j \in DOMAIN tasks : tasks[j].baton # c
       /\ TaskOf(n, c)'
  <2>1. Supported(driver[d])
    BY DriverFacts, Zenon
  <2>2. journal[c].state = "PREPARED" /\ \A j \in DOMAIN tasks : tasks[j].baton # c
    BY <1>1, <1>2, <2>1, Zenon DEF Supported
  <2> QED BY <1>8, <2>2, Zenon DEF TaskOf
<1>12. PICK m \in DriverRow : /\ driver' = [driver EXCEPT ![d] = m] /\ m.req.baton = c
                              /\ \/ m.at = "record" /\ m.task = n
                                 \/ m.at = "unknown"
  <2>1. CASE Goto(d, "unknown")
    <3>1. PICK m \in DriverRow : driver' = [driver EXCEPT ![d] = m] /\ m.at = "unknown" /\ m.req.baton = c
      BY <1>2, <2>1, GotoRow, ZenonT(30)
    <3> QED BY <3>1, Zenon
  <2>2. CASE driver' = [driver EXCEPT ![d].at = "record", ![d].task = n]
    <3> DEFINE m == [driver[d] EXCEPT !.at = "record", !.task = n]
    <3>1. m \in DriverRow /\ m.at = "record" /\ m.task = n /\ m.req.baton = c
      BY <1>2, DriverFacts, Zenon DEF DriverRow
    <3>2. driver' = [driver EXCEPT ![d] = m]
      BY <2>2, DriverFacts, Zenon
    <3> QED BY <3>1, <3>2, Zenon
  <2> QED BY <1>9, <2>1, <2>2, Zenon
<1>13. Supported(m)'
  BY <1>1, <1>11, <1>12, Zenon DEF Supported
<1>14. ASSUME NEW e \in Drivers \ {d}
       PROVE  /\ Supported(driver[e])'
              /\ ~(driver[e].at \in {"start", "record"} /\ driver[e].req.baton = m.req.baton)
  <2>1. Supported(driver[e]) /\ driver'[e] = driver[e]
    BY <1>12, DriverFacts
  <2>2. ~(driver[e].at \in {"start", "record"} /\ driver[e].req.baton = c)
    BY <1>1, <1>2, Zenon DEF TransportInv, StartsAlone
  <2>3. driver[e].at = "start" => \A j \in DOMAIN tasks' : tasks'[j].baton # driver[e].req.baton
    BY <1>8, <2>1, <2>2, Zenon DEF Supported
  <2>4. Supported(driver[e])'
    BY <1>1, <1>10, <2>1, <2>3, Zenon DEF Supported
  <2> QED BY <1>12, <2>2, <2>4
<1>15. RowsTrue'
  <2>1. ASSUME NEW b \in Batons, journal[b].state = "NONE", NEW j \in DOMAIN tasks'
        PROVE  tasks'[j].baton # b
    <3>1. b # c /\ \A k2 \in DOMAIN tasks : tasks[k2].baton # b
      BY <1>11, <2>1, Zenon DEF TransportInv, RowsTrue
    <3> QED BY <1>8, <3>1, Zenon
  <2> QED BY <1>1, <1>10, <2>1, Zenon DEF TransportInv, RowsTrue
<1>16. OnePerBaton'
  BY <1>8, <1>11, Zenon DEF TransportInv, OnePerBaton
<1>17. Proven'
  BY <1>1, <1>10, Zenon DEF TransportInv, Proven
<1>18. journal' \in [Batons -> [state: {"NONE", "PREPARED", "STARTED", "READY"}, task: Nat]]
       /\ requests' = requests
  BY <1>1 DEF TransportInv, TransportType
<1> QED BY <1>6, <1>7, <1>12, <1>13, <1>14, <1>15, <1>16, <1>17, <1>18, DriverStep, Zenon

LEMMA RecordStartedKeeps ==
  ASSUME TransportInv, NEW d \in Drivers, RecordStarted(d)
  PROVE  TransportInv'
<1>1. driver[d].at = "record" /\ UNCHANGED <<tasks, requests, receipts, admitted>>
  BY Zenon DEF RecordStarted
<1>2. PICK c \in Batons : c = driver[d].req.baton
  BY <1>1, DriverFacts
<1>3. PICK n \in Nat : n = driver[d].task
  BY DriverFacts, Zenon
<1>4. /\ journal[c].state = "PREPARED" /\ Goto(d, "inject")
      /\ journal' = [journal EXCEPT ![c] = [state |-> "STARTED", task |-> n]]
  BY <1>2, <1>3, Zenon DEF RecordStarted
<1>5. /\ journal' \in [Batons -> [state: {"NONE", "PREPARED", "STARTED", "READY"}, task: Nat]]
      /\ journal'[c].state = "STARTED" /\ journal'[c].task = n
      /\ \A b \in Batons \ {c} : journal'[b] = journal[b]
  BY <1>4 DEF TransportInv, TransportType
<1>6. TaskOf(n, c) /\ \A j, b : TaskOf(j, b)' <=> TaskOf(j, b)
  BY <1>1, <1>2, <1>3, DriverFacts, Zenon DEF Supported, TaskOf
<1>7. PICK m \in DriverRow : /\ driver' = [driver EXCEPT ![d] = m] /\ m.at = "inject"
                             /\ m.req.baton = c /\ m.task = n
  BY <1>2, <1>3, <1>4, GotoRow
<1>8. Supported(m)'
  BY <1>5, <1>6, <1>7, Zenon DEF Supported
<1>9. ASSUME NEW e \in Drivers \ {d} PROVE Supported(driver[e])'
  <2>1. Supported(driver[e]) /\ driver'[e] = driver[e]
    BY <1>7, DriverFacts
  <2>2. driver[e].at \in {"start", "record", "inject", "ready"} => driver[e].req.baton \in Batons \ {c}
    BY <1>1, <1>2, <1>4, <2>1, Zenon DEF TransportInv, StartsAlone, Supported
  <2>3. PICK o \in DriverRow : o = driver[e]
    BY DriverFacts, Zenon
  <2>4. o.at \in {"start", "record", "inject", "ready"} => journal'[o.req.baton] = journal[o.req.baton]
    BY <1>5, <2>2, <2>3, Zenon
  <2>5. Supported(o)'
    BY <1>1, <1>6, <2>1, <2>3, <2>4, Zenon DEF Supported
  <2> QED BY <2>1, <2>3, <2>5, Zenon
<1>10. RowsTrue'
  BY <1>1, <1>5, <1>6 DEF TransportInv, RowsTrue
<1>11. /\ \E k \in Nat : DOMAIN tasks' = 1..k
       /\ tasks' \in [DOMAIN tasks' -> [baton: Batons, kept: BOOLEAN]] /\ OnePerBaton'
  BY <1>1, Zenon DEF TransportInv, TransportType, OnePerBaton
<1> QED BY <1>1, <1>5, <1>7, <1>8, <1>9, <1>10, <1>11, ProvenSame, DriverStep, Zenon

LEMMA InjectKeeps ==
  ASSUME TransportInv, NEW d \in Drivers, Inject(d)
  PROVE  TransportInv'
<1>1. driver[d].at = "inject" /\ UNCHANGED <<journal, requests, receipts, admitted>>
  BY DEF Inject
<1>2. PICK c \in Batons, n \in Nat : c = driver[d].req.baton /\ n = driver[d].task
  BY <1>1, DriverFacts
<1>3. /\ journal[c].state \in {"STARTED", "READY"} /\ journal[c].task = n /\ TaskOf(n, c)
  BY <1>1, <1>2, DriverFacts, Zenon DEF Supported
<1>4. CASE Goto(d, "unknown") /\ tasks' = tasks
  <2>1. PICK m \in DriverRow : driver' = [driver EXCEPT ![d] = m] /\ m.at = "unknown" /\ m.req.baton = c
    BY <1>2, <1>4, GotoRow
  <2>2. Supported(m)
    BY <2>1, Zenon DEF Supported
  <2> QED BY <1>1, <1>4, <2>1, <2>2, ProvenSame, MovesOn, Zenon
<1>5. CASE /\ tasks' = [tasks EXCEPT ![driver[d].task].kept = TRUE]
           /\ Goto(d, "ready") \/ Goto(d, "unknown")
  <2>1. tasks \in [DOMAIN tasks -> [baton: Batons, kept: BOOLEAN]] /\ n \in DOMAIN tasks
    BY <1>3 DEF TransportInv, TransportType, TaskOf
  <2>2. tasks' = [tasks EXCEPT ![n].kept = TRUE]
    BY <1>2, <1>5
  <2>3. /\ DOMAIN tasks' = DOMAIN tasks /\ tasks' \in [DOMAIN tasks -> [baton: Batons, kept: BOOLEAN]]
        /\ tasks'[n].kept /\ \A j \in DOMAIN tasks : tasks'[j].baton = tasks[j].baton
        /\ \A j \in DOMAIN tasks : j # n => tasks'[j] = tasks[j]
    BY <2>1, <2>2, Zenon
  <2>4. \A j, b : /\ TaskOf(j, b)' <=> TaskOf(j, b)
                  /\ TaskOf(j, b) /\ tasks[j].kept => tasks'[j].kept
    BY <2>3, Zenon DEF TaskOf
  <2>5. PICK m \in DriverRow : /\ driver' = [driver EXCEPT ![d] = m] /\ m.at \in {"ready", "unknown"}
                               /\ m.req.baton = c /\ m.task = n
    BY <1>2, <1>5, GotoRow
  <2>6. Supported(m)'
    BY <1>1, <1>3, <2>3, <2>4, <2>5, Zenon DEF Supported
  <2>7. ASSUME NEW e \in Drivers \ {d} PROVE Supported(driver[e])'
    <3>1. Supported(driver[e]) /\ driver'[e] = driver[e]
      BY <2>5, DriverFacts
    <3> QED BY <1>1, <2>3, <2>4, <3>1, Zenon DEF Supported
  <2>8. RowsTrue'
    BY <1>1, <2>3, <2>4 DEF TransportInv, RowsTrue
  <2>9. OnePerBaton' /\ \E k \in Nat : DOMAIN tasks' = 1..k
    BY <2>3, Zenon DEF TransportInv, TransportType, OnePerBaton
  <2>10. Proven'
    BY <1>1, <2>4, Zenon DEF TransportInv, Proven
  <2>11. journal' \in [Batons -> [state: {"NONE", "PREPARED", "STARTED", "READY"}, task: Nat]]
    BY <1>1 DEF TransportInv, TransportType
  <2> QED BY <1>1, <2>3, <2>5, <2>6, <2>7, <2>8, <2>9, <2>10, <2>11, DriverStep, Zenon
<1> QED BY <1>4, <1>5 DEF Inject

\* mark_ready, by the driver itself or after read_by_dispatch_id.
LEMMA ReadyKeeps ==
  ASSUME TransportInv, NEW d \in Drivers, NEW c \in Batons, NEW n, c = driver[d].req.baton,
         MarkedReady(c, n), journal[c].state = "STARTED" => tasks[n].kept,
         Receipted(d, n), Done(d), UNCHANGED <<tasks, requests, admitted>>
  PROVE  TransportInv'
<1>1. /\ journal' \in [Batons -> [state: {"NONE", "PREPARED", "STARTED", "READY"}, task: Nat]]
      /\ RowsTrue' /\ TaskOf(n, c) /\ tasks[n].kept
  BY ReadyRow, Zenon
<1>2. driver' = [driver EXCEPT ![d] = Idle]
  BY Zenon DEF Done
<1>3. ASSUME NEW e \in Drivers \ {d} PROVE Supported(driver[e])'
  <2>1. PICK m \in DriverRow : m = driver[e]
    BY DriverFacts, Zenon
  <2>2. Supported(m) /\ driver'[e] = m
    BY <1>2, <2>1, DriverFacts, Zenon
  <2>3. Supported(m)'
    BY <2>2, ReadyRow, Zenon
  <2> QED BY <2>2, <2>3, Zenon DEF Supported
<1>4. Supported(Idle)'
  BY IdleRow, Zenon DEF Supported
<1>5. Proven'
  BY <1>1, ReceiptedProven, Zenon
<1>6. OnePerBaton' /\ (\E k \in Nat : DOMAIN tasks' = 1..k)
      /\ tasks' \in [DOMAIN tasks' -> [baton: Batons, kept: BOOLEAN]]
  BY Zenon DEF TransportInv, TransportType, OnePerBaton
<1> QED BY <1>1, <1>2, <1>3, <1>4, <1>5, <1>6, IdleRow, DriverStep, Zenon

LEMMA MarkReadyKeeps ==
  ASSUME TransportInv, NEW d \in Drivers, MarkReady(d)
  PROVE  TransportInv'
<1>1. driver[d].at = "ready" /\ UNCHANGED <<tasks, requests, admitted>> /\ Done(d)
  BY Zenon DEF MarkReady
<1>2. PICK c \in Batons, n \in Nat : c = driver[d].req.baton /\ n = driver[d].task
  BY <1>1, DriverFacts, Zenon
<1>3. tasks[n].kept
  BY <1>1, <1>2, DriverFacts, Zenon DEF Supported
<1>4. MarkedReady(c, n) /\ Receipted(d, n)
  BY <1>2, Zenon DEF MarkReady
<1> QED BY <1>1, <1>2, <1>3, <1>4, ReadyKeeps, Zenon

LEMMA ReadBackKeeps ==
  ASSUME TransportInv, NEW d \in Drivers, ReadBack(d)
  PROVE  TransportInv'
<1>1. driver[d].at = "unknown" /\ UNCHANGED <<tasks, requests, admitted>> /\ Done(d)
  BY Zenon DEF ReadBack
<1>2. PICK c \in Batons : c = driver[d].req.baton
  BY <1>1, DriverFacts, Zenon
<1>3. CASE journal[c].state = "READY" /\ Receipted(d, journal[c].task) /\ journal' = journal
  <2>1. TaskOf(journal[c].task, c) /\ tasks[journal[c].task].kept
    BY <1>3, Zenon DEF TransportInv, RowsTrue
  <2>2. Proven'
    BY <1>1, <1>2, <1>3, <2>1, ReceiptedProven, Zenon
  <2> QED BY <1>1, <1>3, <2>2, DoneStep, Zenon
<1>4. CASE /\ journal[c].state = "STARTED" /\ Resumes(journal[c].task)
           /\ MarkedReady(c, journal[c].task) /\ Receipted(d, journal[c].task)
  <2>1. PICK n : n = journal[c].task
    OBVIOUS
  <2> QED BY <1>1, <1>2, <1>4, <2>1, ReadyKeeps, Zenon DEF Resumes
<1>5. CASE UNCHANGED <<journal, receipts>>
  BY <1>1, <1>5, ProvenSame, DoneStep
<1> QED BY <1>2, <1>3, <1>4, <1>5, Zenon DEF ReadBack

----------------------------------------------------------------------------
\* However often a continuation is dispatched, by however many drivers, with replies lost
\* and requests rebuilt after the owner paused and resumed, the app-server is asked for one
\* task; a receipt is given, and a turn admitted, only for that task and only once it is kept
\* (PerpetualDialogueTransportAdapter, CodexAppServerTransportDriver).
THEOREM TransportOneTask == TransportSpec => []OneTask
<1>1. TransportInit => TransportInv
  <2> SUFFICES ASSUME TransportInit PROVE TransportInv
    OBVIOUS
  <2>1. /\ journal = [b \in Batons |-> [state |-> "NONE", task |-> NoTask]]
        /\ tasks = [n \in {} |-> 0] /\ driver = [d \in Drivers |-> Idle]
        /\ requests = {} /\ receipts = {} /\ admitted = {}
    BY DEF TransportInit
  <2>2. DOMAIN tasks = {}
    BY <2>1
  <2>3. DOMAIN tasks = 1..0 /\ tasks \in [DOMAIN tasks -> [baton: Batons, kept: BOOLEAN]]
    BY <2>1, <2>2
  <2>4. TransportType
    BY <2>1, <2>3, IdleRow DEF TransportType, NoTask
  <2>5. StartsAlone /\ RowsTrue /\ OnePerBaton /\ Proven
    BY <2>1, <2>2, IdleRow, Zenon DEF StartsAlone, RowsTrue, OnePerBaton, Proven
  <2>6. \A d \in Drivers : Supported(driver[d])
    BY <2>1, IdleRow, Zenon DEF Supported
  <2> QED BY <2>4, <2>5, <2>6 DEF TransportInv
<1>2. ASSUME TransportInv, UNCHANGED transportVars PROVE TransportInv'
  <2>1. /\ journal' = journal /\ tasks' = tasks /\ driver' = driver /\ requests' = requests
        /\ receipts' = receipts /\ admitted' = admitted
    BY <1>2 DEF transportVars
  <2>2. TransportType' /\ StartsAlone' /\ RowsTrue' /\ OnePerBaton' /\ Proven'
    BY <1>2, <2>1, ZenonT(30) DEF TransportInv, TransportType, StartsAlone, RowsTrue, OnePerBaton, Proven, TaskOf, DriverRow
  <2>3. \A d \in Drivers : Supported(driver[d])'
    BY <1>2, <2>1, Zenon DEF TransportInv, Supported, TaskOf
  <2> QED BY <2>2, <2>3 DEF TransportInv
<1>3. ASSUME TransportInv, NEW b \in Batons, NEW c \in Batons, BuildRequest(b, c) PROVE TransportInv'
  <2>1. /\ journal' = journal /\ tasks' = tasks /\ driver' = driver /\ receipts' = receipts
        /\ admitted' = admitted /\ requests' = requests \cup {[wake |-> b, baton |-> c, gen |-> conv.gen]}
    BY <1>3 DEF BuildRequest
  <2>2. driver \in [Drivers -> DriverRow']
    BY <1>3, <2>1 DEF TransportInv, TransportType, DriverRow
  <2>3. TransportType'
    BY <1>3, <2>1, <2>2 DEF TransportInv, TransportType
  <2>4. StartsAlone' /\ RowsTrue' /\ OnePerBaton' /\ Proven'
    BY <1>3, <2>1, ZenonT(30) DEF TransportInv, StartsAlone, RowsTrue, OnePerBaton, Proven, TaskOf
  <2>5. \A d \in Drivers : Supported(driver[d])'
    BY <1>3, <2>1, Zenon DEF TransportInv, Supported, TaskOf
  <2> QED BY <2>3, <2>4, <2>5 DEF TransportInv
<1>4. ASSUME TransportInv, NEW r \in requests, NEW receipt \in receipts, AdmitTurn(r, receipt)
      PROVE  TransportInv'
  <2>1. /\ journal' = journal /\ tasks' = tasks /\ driver' = driver /\ receipts' = receipts
        /\ requests' = requests /\ admitted' = admitted \cup {receipt}
    BY <1>4, Zenon DEF AdmitTurn
  <2>2. TransportType' /\ StartsAlone' /\ RowsTrue' /\ OnePerBaton' /\ Proven'
    BY <1>4, <2>1 DEF TransportInv, TransportType, StartsAlone, RowsTrue, OnePerBaton, Proven, TaskOf, DriverRow
  <2>3. \A d \in Drivers : Supported(driver[d])'
    BY <1>4, <2>1, Zenon DEF TransportInv, Supported, TaskOf
  <2> QED BY <2>2, <2>3 DEF TransportInv
<1>5. ASSUME TransportInv, NEW d \in Drivers, Drive(d) PROVE TransportInv'
  <2>1. CASE GivesUp(d)
    BY <1>5, <2>1, ProvenSame, DoneStep DEF GivesUp
  <2> QED BY <1>5, <2>1, DispatchKeeps, PrepareKeeps2, ThreadStartKeeps, RecordStartedKeeps, InjectKeeps,
             MarkReadyKeeps, ReadBackKeeps DEF Drive
<1>6. TransportInv /\ [TransportNext]_<<dialogueVars, transportVars>> => TransportInv'
  <2>1. UNCHANGED <<dialogueVars, transportVars>> => UNCHANGED transportVars
    OBVIOUS
  <2> QED BY <1>2, <1>3, <1>4, <1>5, <2>1 DEF TransportNext, TransportStep
<1>7. TransportInv => OneTask
  BY Zenon DEF TransportInv, OnePerBaton, Proven, TaskOf, OneTask
<1> QED BY <1>1, <1>6, <1>7, PTL DEF TransportSpec

----------------------------------------------------------------------------
(* From here on the cardinality of finite sets is needed.                  *)
INSTANCE FiniteSetTheorems

(***************************************************************************)
(* 2. The wakes of a work item                                             *)
(*                                                                         *)
(* A work item has as many batons as its budget allows because a baton is  *)
(* made from a wake only, and the wakes left are within what the first     *)
(* baton of the item was granted.                                          *)
(***************************************************************************)

\* Identities are handed out in their order.
InOrder == \A b, c \in Batons : baton[b] # NoBaton /\ c < b => baton[c] # NoBaton

\* The batons of a work item, and the wakes left, are within what its first baton has.
Within(w, left) ==
  /\ IsFiniteSet(Issued(w))
  /\ \E f \in Issued(w) :
       /\ \A c \in Issued(w) : f <= c
       /\ Cardinality(Issued(w)) + left <= 1 + Granted(f)

\* An open baton has behind it the wake it was made from, or is the first one.
FromWake(b) ==
  \/ Issued(baton[b].work) = {b}
  \/ \E p \in Batons : /\ wake[p].status = "CONSUMED" /\ wake[p].next = b
                       /\ Within(baton[b].work, wake[p].budget)

WakesInv ==
  /\ InOrder
  /\ \A w \in Works : Issued(w) # {} => Within(w, 0)
  /\ \A b \in Batons : wake[b].status \in Live => Within(baton[b].work, wake[b].budget)
  /\ \A b \in Batons : baton[b].status = "OPEN" => FromWake(b)

\* A step that hands out nothing: it may only end what carries a work item on.
HandsOutNothing ==
  /\ \A b \in Batons :
       /\ (baton[b] = NoBaton)' <=> baton[b] = NoBaton
       /\ baton'[b].work = baton[b].work
       /\ (baton[b].status = "OPEN")' => baton[b].status = "OPEN"
       /\ (wake[b].status \in Live)' => wake[b].status \in Live
       /\ (wake[b].status = "CONSUMED")' <=> wake[b].status = "CONSUMED"
       /\ wake'[b] = NoWake <=> wake[b] = NoWake
       /\ wake'[b].budget = wake[b].budget
       /\ wake'[b].next = wake[b].next

LEMMA IssuedRows ==
  ASSUME DialogueType, NEW w
  PROVE  Issued(w) = {b \in Batons : baton[b] # NoBaton /\ baton[b].work = w}
  BY BatonStatus DEF Issued

LEMMA GrantedNat ==
  ASSUME DialogueType, NEW b \in Batons
  PROVE  Granted(b) \in Nat /\ (wake[b] # NoWake => wake[b].budget \in Nat)
  BY BatonStatus DEF Granted, WakeRow

LEMMA WithinLess ==
  ASSUME DialogueType, NEW w, NEW m \in Nat, NEW n \in Nat, n <= m, Within(w, m)
  PROVE  Within(w, n)
<1>1. PICK f \in Issued(w) : /\ \A c \in Issued(w) : f <= c
                             /\ Cardinality(Issued(w)) + m <= 1 + Granted(f)
  BY DEF Within
<1>2. Granted(f) \in Nat /\ Cardinality(Issued(w)) \in Nat
  BY GrantedNat, FS_CardinalityType DEF Within, Issued
<1>3. Cardinality(Issued(w)) + n <= 1 + Granted(f)
  BY <1>1, <1>2
<1> QED
  BY <1>1, <1>3 DEF Within

LEMMA LaterLess ==
  ASSUME DialogueType', NEW w, NEW m \in Nat, NEW n \in Nat, n <= m, Within(w, m)'
  PROVE  Within(w, n)'
<1>1. PICK f \in Issued(w)' : /\ \A c \in Issued(w)' : f <= c
                              /\ Cardinality(Issued(w))' + m <= 1 + Granted(f)'
  BY DEF Within
<1>2. Granted(f)' \in Nat /\ Cardinality(Issued(w))' \in Nat
  <2>1. f \in Batons /\ IsFiniteSet(Issued(w)')
    BY DEF Within, Issued
  <2>2. Granted(f)' \in Nat
    BY <2>1 DEF Granted, DialogueType, WakeRow, NoWake, Live
  <2> QED
    BY <2>1, <2>2, FS_CardinalityType
<1>3. Cardinality(Issued(w))' + n <= 1 + Granted(f)'
  BY <1>1, <1>2
<1> QED
  BY <1>1, <1>3 DEF Within

----------------------------------------------------------------------------
LEMMA HandsOutNothingKeeps ==
  ASSUME DialogueInv, DialogueInv', WakesInv, HandsOutNothing
  PROVE  WakesInv'
<1>0. DialogueType /\ DialogueType'
  BY DEF DialogueInv
<1>1. ASSUME NEW w PROVE Issued(w)' = Issued(w)
  <2>1. Issued(w)' = {b \in Batons : (baton[b] # NoBaton)' /\ baton'[b].work = w}
    BY <1>0, BatonStatus DEF Issued, DialogueType, NoBaton, BatonRow
  <2> QED
    BY <1>0, <2>1, IssuedRows DEF HandsOutNothing
<1>2. ASSUME NEW b \in Batons PROVE Granted(b)' = Granted(b)
  <2>1. (wake[b].status = "NONE")' <=> wake[b].status = "NONE"
    BY <1>0 DEF HandsOutNothing, DialogueType, NoWake, WakeRow, Live
  <2> QED
    BY <2>1 DEF HandsOutNothing, Granted
<1>3. ASSUME NEW w, NEW n, Within(w, n) PROVE Within(w, n)'
  <2>1. PICK f \in Issued(w) : /\ \A c \in Issued(w) : f <= c
                               /\ Cardinality(Issued(w)) + n <= 1 + Granted(f)
    BY <1>3 DEF Within
  <2>2. f \in Batons
    BY DEF Issued
  <2> QED
    BY <1>1, <1>2, <1>3, <2>1, <2>2 DEF Within
<1>4. InOrder'
  BY DEF WakesInv, InOrder, HandsOutNothing
<1>5. \A w \in Works : Issued(w)' # {} => Within(w, 0)'
  BY <1>1, <1>3 DEF WakesInv
<1>6. \A b \in Batons : (wake[b].status \in Live)' => Within(baton[b].work, wake[b].budget)'
  <2> SUFFICES ASSUME NEW b \in Batons, (wake[b].status \in Live)'
               PROVE  Within(baton[b].work, wake[b].budget)'
    OBVIOUS
  <2>1. PICK w, n : w = baton[b].work /\ n = wake[b].budget
    OBVIOUS
  <2>2. Within(w, n)'
    BY <2>1, <1>3 DEF WakesInv, HandsOutNothing
  <2> QED
    BY <2>1, <2>2 DEF HandsOutNothing
<1>7. \A b \in Batons : (baton[b].status = "OPEN")' => FromWake(b)'
  <2> SUFFICES ASSUME NEW b \in Batons, (baton[b].status = "OPEN")'
               PROVE  FromWake(b)'
    OBVIOUS
  <2>1. FromWake(b) /\ baton'[b].work = baton[b].work
    BY Zenon DEF WakesInv, HandsOutNothing
  <2>2. PICK w : w = baton[b].work
    OBVIOUS
  <2>3. CASE Issued(w) = {b}
    BY <1>1, <2>1, <2>2, <2>3 DEF FromWake
  <2>4. CASE \E p \in Batons : /\ wake[p].status = "CONSUMED" /\ wake[p].next = b
                               /\ Within(w, wake[p].budget)
    <3>1. PICK p \in Batons : /\ wake[p].status = "CONSUMED" /\ wake[p].next = b
                              /\ Within(w, wake[p].budget)
      BY <2>4
    <3>2. PICK n : n = wake[p].budget
      OBVIOUS
    <3>3. Within(w, n)'
      BY <1>3, <3>1, <3>2
    <3>4. wake'[p].budget = n /\ wake'[p].next = b /\ (wake[p].status = "CONSUMED")'
      BY <3>1, <3>2 DEF HandsOutNothing
    <3> QED
      BY <2>1, <2>2, <3>3, <3>4 DEF FromWake
  <2> QED
    BY <2>1, <2>2, <2>3, <2>4, Zenon DEF FromWake
<1> QED
  BY <1>4, <1>5, <1>6, <1>7 DEF WakesInv

LEMMA NothingHandedOut ==
  ASSUME DialogueInv,
         \/ UNCHANGED <<baton, wake>>
         \/ \E b \in Batons : AdmitWakeEvent(b) \/ LeaseRunsOut(b)
         \/ \E s \in Schedulers, b \in Batons : ClaimDueWake(s, b)
         \/ RevokeSchedulerLeases /\ UNCHANGED baton
         \/ Stop
  PROVE  HandsOutNothing
<1>0. DialogueType
  BY DEF DialogueInv
<1>1. CASE UNCHANGED <<baton, wake>>
  BY <1>1 DEF HandsOutNothing
<1>2. ASSUME NEW b \in Batons, AdmitWakeEvent(b) \/ LeaseRunsOut(b)
      PROVE  HandsOutNothing
  <2>1. wake[b] \in WakeRow /\ wake[b].status \in Live /\ UNCHANGED baton
    BY <1>0, <1>2, BatonStatus, Zenon DEF AdmitWakeEvent, LeaseRunsOut, NoWake, Live
  <2>2. PICK m : m = wake'[b]
    OBVIOUS
  <2>3. /\ m.status \in Live /\ m.budget = wake[b].budget /\ m.next = wake[b].next
        /\ m.status # "CONSUMED" /\ m # NoWake
    BY <1>0, <1>2, <2>1, <2>2 DEF AdmitWakeEvent, LeaseRunsOut, DialogueType, WakeRow, Live, NoWake
  <2>4. \A c \in Batons : c # b => wake'[c] = wake[c]
    BY <1>0, <1>2, Zenon DEF AdmitWakeEvent, LeaseRunsOut, DialogueType
  <2> QED
    BY <2>1, <2>2, <2>3, <2>4 DEF HandsOutNothing, Live, NoWake
<1>3. ASSUME NEW s \in Schedulers, NEW b \in Batons, ClaimDueWake(s, b)
      PROVE  HandsOutNothing
  <2>1. wake[b] \in WakeRow /\ wake[b].status \in Live /\ UNCHANGED baton
    BY <1>0, <1>3, BatonStatus, Zenon DEF ClaimDueWake, NoWake, Live
  <2>2. PICK m : m = wake'[b]
    OBVIOUS
  <2>3. /\ m.status \in Live /\ m.budget = wake[b].budget /\ m.next = wake[b].next
        /\ m.status # "CONSUMED" /\ m # NoWake
    BY <1>0, <1>3, <2>1, <2>2, Zenon DEF ClaimDueWake, DialogueType, WakeRow, Live, NoWake
  <2>4. \A c \in Batons : c # b => wake'[c] = wake[c]
    BY <1>0, <1>3, Zenon DEF ClaimDueWake, DialogueType
  <2> QED
    BY <2>1, <2>2, <2>3, <2>4 DEF HandsOutNothing, Live, NoWake
<1>4. CASE RevokeSchedulerLeases /\ UNCHANGED baton
  <2>1. ASSUME NEW b \in Batons, wake[b].status = "LEASED"
        PROVE  /\ wake'[b].status = "PENDING" /\ wake'[b].budget = wake[b].budget
               /\ wake'[b].next = wake[b].next /\ wake[b] # NoWake /\ wake'[b] # NoWake
    <3>1. PICK m \in WakeRow : m = wake[b]
      BY <1>0, <2>1, BatonStatus DEF NoWake
    <3>2. wake'[b] = [m EXCEPT !.status = "PENDING", !.holder = NoHolder,
                              !.fence = 0, !.late = FALSE]
      BY <1>4, <2>1, <3>1, Zenon DEF RevokeSchedulerLeases
    <3> QED
      BY <2>1, <3>1, <3>2, Zenon DEF WakeRow, NoWake
  <2>2. ASSUME NEW b \in Batons, wake[b].status # "LEASED" PROVE wake'[b] = wake[b]
    BY <1>4, <2>2, Zenon DEF RevokeSchedulerLeases
  <2> QED
    BY <1>4, <2>1, <2>2 DEF HandsOutNothing, Live
<1>5. CASE Stop
  <2>1. ASSUME NEW b \in Batons, wake[b].status \in Live
        PROVE  /\ wake'[b].status = "CANCELLED" /\ wake'[b].budget = wake[b].budget
               /\ wake'[b].next = wake[b].next /\ wake[b] # NoWake /\ wake'[b] # NoWake
    <3>1. wake[b] \in WakeRow
      BY <1>0, <2>1, BatonStatus DEF NoWake, Live
    <3>2. wake'[b] = [wake[b] EXCEPT !.status = "CANCELLED"]
      BY <1>5, <2>1, Zenon DEF Stop
    <3> QED
      BY <2>1, <3>1, <3>2 DEF WakeRow, NoWake, Live
  <2>2. ASSUME NEW b \in Batons, wake[b].status \notin Live PROVE wake'[b] = wake[b]
    BY <1>5, <2>2, Zenon DEF Stop
  <2>3. ASSUME NEW b \in Batons, baton[b].status = "OPEN"
        PROVE  /\ baton'[b].status = "CANCELLED" /\ baton'[b].work = baton[b].work
               /\ baton[b] # NoBaton /\ baton'[b] # NoBaton
    <3>1. baton[b] \in BatonRow
      BY <1>0, <2>3, BatonStatus DEF NoBaton
    <3>2. baton'[b] = [baton[b] EXCEPT !.status = "CANCELLED"]
      BY <1>5, <2>3, Zenon DEF Stop
    <3> QED
      BY <2>3, <3>1, <3>2 DEF BatonRow, NoBaton
  <2>4. ASSUME NEW b \in Batons, baton[b].status # "OPEN" PROVE baton'[b] = baton[b]
    BY <1>5, <2>4, Zenon DEF Stop
  <2>5. \A b \in Batons : wake[b].status \in Live => wake[b].status # "CONSUMED"
    BY DEF Live
  <2>6. "CANCELLED" \notin Live
    BY DEF Live
  <2> QED
    BY <2>1, <2>2, <2>3, <2>4, <2>5, <2>6 DEF HandsOutNothing
<1> QED
  BY <1>1, <1>2, <1>3, <1>4, <1>5
----------------------------------------------------------------------------
(* The operations that hand something out.                                 *)

\* A baton is issued only for a work item that has none: an open one has a carrier.
LEMMA IssueBatonKeeps ==
  ASSUME DialogueInv, DialogueInv', WakesInv,
         NEW w \in Works, NEW a \in Participants, NEW t \in TurnIds,
         NEW parent \in Batons \cup {0}, NEW b \in Batons, IssueBaton(w, a, t, parent, b)
  PROVE  WakesInv'
<1>0. DialogueType /\ DialogueType'
  BY DEF DialogueInv
<1>1. /\ baton[b] = NoBaton /\ UNCHANGED wake /\ wake[b] = NoWake
      /\ \A c \in Batons : c < b => baton[c] # NoBaton
      /\ \A c \in Batons : c # b => baton'[c] = baton[c]
  BY <1>0, FreshRow, Zenon DEF IssueBaton, Fresh, DialogueType
<1>2. /\ baton'[b] # NoBaton /\ baton'[b].work = w /\ baton'[b].status = "OPEN"
  BY <1>0, Zenon DEF IssueBaton, NewBaton, DialogueType, NoBaton
<1>3. Issued(w) = {}
  <2> SUFFICES ASSUME NEW c \in Batons, baton[c] # NoBaton, baton[c].work = w PROVE FALSE
    BY <1>0, IssuedRows
  <2>1. PICK d \in Batons : CarriesOn(d) /\ baton[d].work = w
    BY Zenon DEF DialogueInv, Carried, IssueBaton
  <2> QED
    BY <2>1 DEF IssueBaton, NoContinuation, OpenBaton, LiveWake, CarriesOn
<1>4. Issued(w)' = {b}
  BY <1>0, <1>1, <1>2, <1>3, ZenonT(30) DEF Issued, NoBaton
<1>5. ASSUME NEW v, v # w PROVE Issued(v)' = Issued(v)
  BY <1>0, <1>1, <1>2, <1>5 DEF Issued, NoBaton
<1>6. ASSUME NEW c PROVE Granted(c)' = Granted(c)
  BY <1>1 DEF Granted
<1>7. ASSUME NEW v, v # w, NEW n, Within(v, n) PROVE Within(v, n)'
  BY <1>5, <1>6, <1>7 DEF Within
<1>8. Within(w, 0)'
  <2>1. Cardinality({b}) = 1 /\ IsFiniteSet({b}) /\ b \in Nat
    BY FS_Singleton, DialogueAssumption, Zenon
  <2>2. Granted(b)' = 0
    BY <1>1, <1>6 DEF Granted, NoWake
  <2> QED
    BY <1>4, <2>1, <2>2 DEF Within
<1>9. InOrder'
  BY <1>1, <1>2, DialogueAssumption DEF WakesInv, InOrder
<1>10. \A v \in Works : Issued(v)' # {} => Within(v, 0)'
  BY <1>5, <1>7, <1>8 DEF WakesInv
<1>11. ASSUME NEW c \in Batons, baton[c] # NoBaton PROVE c # b /\ baton[c].work # w
  BY <1>0, <1>1, <1>3, <1>11, IssuedRows
<1>12. \A c \in Batons : (wake[c].status \in Live)' => Within(baton[c].work, wake[c].budget)'
  <2> SUFFICES ASSUME NEW c \in Batons, wake[c].status \in Live
               PROVE  Within(baton[c].work, wake[c].budget)'
    BY <1>1
  <2>1. baton[c] # NoBaton
    BY <1>0 DEF DialogueInv, Paired, NoBaton, NoWake, Live
  <2>2. PICK v, n : v = baton[c].work /\ n = wake[c].budget
    OBVIOUS
  <2>3. Within(v, n)'
    BY <1>7, <1>11, <2>1, <2>2, Zenon DEF WakesInv
  <2> QED
    BY <1>1, <1>11, <2>1, <2>2, <2>3
<1>13. \A c \in Batons : (baton[c].status = "OPEN")' => FromWake(c)'
  <2> SUFFICES ASSUME NEW c \in Batons, (baton[c].status = "OPEN")' PROVE FromWake(c)'
    OBVIOUS
  <2>1. CASE c = b
    BY <1>2, <1>4, <2>1 DEF FromWake
  <2>2. CASE c # b
    <3>1. baton'[c] = baton[c] /\ baton[c].status = "OPEN" /\ baton[c] # NoBaton
      BY <1>1, <2>2 DEF NoBaton
    <3>2. PICK v : v = baton[c].work
      OBVIOUS
    <3>3. v # w /\ FromWake(c)
      BY <1>11, <3>1, <3>2 DEF WakesInv
    <3>4. CASE Issued(v) = {c}
      BY <1>5, <3>1, <3>2, <3>3, <3>4 DEF FromWake
    <3>5. CASE \E p \in Batons : /\ wake[p].status = "CONSUMED" /\ wake[p].next = c
                                 /\ Within(v, wake[p].budget)
      <4>1. PICK p \in Batons : /\ wake[p].status = "CONSUMED" /\ wake[p].next = c
                                /\ Within(v, wake[p].budget)
        BY <3>5
      <4>2. PICK n : n = wake[p].budget
        OBVIOUS
      <4>3. Within(v, n)'
        BY <1>7, <3>3, <4>1, <4>2
      <4> QED
        BY <1>1, <3>1, <3>2, <4>1, <4>2, <4>3 DEF FromWake
    <3> QED
      BY <3>2, <3>3, <3>4, <3>5, Zenon DEF FromWake
  <2> QED
    BY <2>1, <2>2
<1> QED
  BY <1>9, <1>10, <1>12, <1>13 DEF WakesInv

\* A closed baton gets at most what the wake it was made from has left.
LEMMA CloseBatonKeeps ==
  ASSUME DialogueInv, DialogueInv', WakesInv,
         NEW b \in Batons, NEW disp \in Closing, NEW target \in Participants,
         NEW auth \in BOOLEAN, NEW n \in 1..MaxBudget, CloseBaton(b, disp, target, auth, n)
  PROVE  WakesInv'
<1>0. DialogueType /\ DialogueType' /\ n \in Nat
  BY DialogueAssumption DEF DialogueInv
<1>1. PICK w : w = baton[b].work
  OBVIOUS
<1>2. /\ baton[b] \in BatonRow /\ w \in Works /\ baton[b].status = "OPEN" /\ wake[b] = NoWake
      /\ baton'[b].work = w /\ baton'[b].status = "CLOSED" /\ baton'[b] # NoBaton
      /\ \A c \in Batons : c # b => baton'[c] = baton[c] /\ wake'[c] = wake[c]
  <2>1. baton[b].status = "OPEN" /\ baton[b] \in BatonRow
    BY <1>0, BatonStatus, Zenon DEF CloseBaton, NoBaton
  <2>2. wake[b] = NoWake
    BY <2>1, Zenon DEF DialogueInv, Paired
  <2>3. /\ baton'[b].work = w /\ baton'[b].status = "CLOSED"
        /\ \A c \in Batons : c # b => baton'[c] = baton[c] /\ wake'[c] = wake[c]
    BY <1>0, <1>1, <2>1 DEF CloseBaton, DialogueType, BatonRow
  <2> QED
    BY <1>1, <2>1, <2>2, <2>3 DEF BatonRow, NoBaton
<1>3. ASSUME NEW v PROVE Issued(v)' = Issued(v)
  BY <1>0, <1>1, <1>2 DEF Issued, NoBaton
<1>4. /\ \/ wake'[b] = NoWake
         \/ /\ disp \in Continuing /\ wake'[b].status \in Live
            /\ wake'[b].budget = n /\ wake'[b].next = 0
      /\ wake'[b].status # "CONSUMED"
  <2>1. CASE disp \notin Continuing
    <3>1. wake' = wake
      BY <2>1, Zenon DEF CloseBaton
    <3>2. wake'[b] = NoWake
      BY <1>2, <3>1
    <3>3. NoWake.status # "CONSUMED"
      BY DEF NoWake
    <3> QED
      BY <3>2, <3>3
  <2>2. CASE disp \in Continuing
    <3>1. PICK st \in {"PENDING", "WAITING"} :
            wake' = [wake EXCEPT ![b] = NewWake(st, target, auth, n)]
      <4> DEFINE st == IF disp = "CONTINUE" THEN "PENDING" ELSE "WAITING"
      <4>1. wake' = [wake EXCEPT ![b] = NewWake(st, target, auth, n)]
        BY <2>2, Zenon DEF CloseBaton
      <4>2. st \in {"PENDING", "WAITING"}
        OBVIOUS
      <4> QED
        BY <4>1, <4>2, Zenon
    <3>2. wake'[b] = NewWake(st, target, auth, n)
      BY <1>0, <3>1 DEF DialogueType
    <3> QED
      BY <2>2, <3>1, <3>2 DEF NewWake, Live
  <2> QED
    BY <2>1, <2>2
<1>5. ASSUME NEW c \in Batons PROVE Granted(c)' >= Granted(c) /\ Granted(c)' \in Nat
  <2>1. CASE c # b
    <3>1. Granted(c)' = Granted(c)
      BY <1>2, <2>1 DEF Granted
    <3> QED
      BY <1>0, <3>1, GrantedNat
  <2>2. CASE c = b
    <3>1. Granted(c) = 0
      BY <1>2, <2>2 DEF Granted, NoWake
    <3>2. Granted(c)' \in {0, n}
      BY <1>4, <2>2 DEF Granted, Live, NoWake
    <3> QED
      BY <1>0, <3>1, <3>2
  <2> QED
    BY <2>1, <2>2, Zenon
<1>6. ASSUME NEW v, NEW m \in Nat, Within(v, m) PROVE Within(v, m)'
  <2>1. PICK f \in Issued(v) : /\ \A c \in Issued(v) : f <= c
                               /\ Cardinality(Issued(v)) + m <= 1 + Granted(f)
    BY <1>6 DEF Within
  <2>2. f \in Batons /\ Cardinality(Issued(v)) \in Nat
    BY <1>6, FS_CardinalityType DEF Issued, Within
  <2>3. Granted(f) \in Nat /\ Granted(f)' \in Nat /\ Granted(f)' >= Granted(f)
    BY <1>0, <1>5, <2>2, GrantedNat
  <2>4. Cardinality(Issued(v)) + m <= 1 + Granted(f)'
    BY <2>1, <2>2, <2>3
  <2> QED
    BY <1>3, <1>6, <2>1, <2>4 DEF Within
<1>7. InOrder'
  BY <1>2 DEF WakesInv, InOrder, BatonRow, NoBaton
<1>8. \A v \in Works : Issued(v)' # {} => Within(v, 0)'
  BY <1>3, <1>6 DEF WakesInv
<1>9. ASSUME wake'[b].status \in Live PROVE Within(w, n)'
  <2>1. disp \in Continuing /\ wake'[b].budget = n
    BY <1>4, <1>9 DEF Live, NoWake
  <2>2. CASE Issued(w) = {b}
    <3>1. Cardinality({b}) = 1 /\ IsFiniteSet({b}) /\ b \in Nat
      BY FS_Singleton, DialogueAssumption, Zenon
    <3>2. Granted(b)' = n
      BY <1>9, <2>1 DEF Granted, Live
    <3> QED
      BY <1>0, <1>3, <2>2, <3>1, <3>2 DEF Within
  <2>3. CASE \E p \in Batons : /\ wake[p].status = "CONSUMED" /\ wake[p].next = b
                               /\ Within(w, wake[p].budget)
    <3>1. PICK p \in Batons : /\ wake[p].status = "CONSUMED" /\ wake[p].next = b
                              /\ Within(w, wake[p].budget)
      BY <2>3, Zenon
    <3>2. n <= wake[p].budget
      BY <2>1, <3>1, Zenon DEF CloseBaton, BudgetGranted, ParentWake
    <3>3. wake[p].budget \in Nat
      BY <1>0, <3>1, GrantedNat DEF NoWake
    <3>4. Within(w, n)
      BY <1>0, <3>1, <3>2, <3>3, WithinLess, Zenon
    <3> QED
      BY <1>0, <1>6, <3>4
  <2> QED
    BY <1>1, <1>2, <2>2, <2>3, ZenonT(30) DEF WakesInv, FromWake
<1>10. \A c \in Batons : (wake[c].status \in Live)' => Within(baton[c].work, wake[c].budget)'
  <2> SUFFICES ASSUME NEW c \in Batons, wake'[c].status \in Live
               PROVE  Within(baton[c].work, wake[c].budget)'
    OBVIOUS
  <2>1. CASE c = b
    <3>1. wake'[b].budget = n
      BY <1>4, <2>1 DEF Live, NoWake
    <3> QED
      BY <1>2, <1>9, <2>1, <3>1
  <2>2. CASE c # b
    <3>1. PICK v, m : v = baton[c].work /\ m = wake[c].budget
      OBVIOUS
    <3>2. wake[c] # NoWake /\ wake[c].status \in Live
      BY <1>2, <2>2 DEF NoWake, Live
    <3>3. Within(v, m) /\ m \in Nat
      BY <1>0, <3>1, <3>2, GrantedNat, Zenon DEF WakesInv
    <3>4. Within(v, m)'
      BY <1>6, <3>3
    <3> QED
      BY <1>2, <2>2, <3>1, <3>4, Zenon
  <2> QED
    BY <2>1, <2>2
<1>11. \A c \in Batons : (baton[c].status = "OPEN")' => FromWake(c)'
  <2> SUFFICES ASSUME NEW c \in Batons, (baton[c].status = "OPEN")' PROVE FromWake(c)'
    BY Zenon
  <2>1. c # b /\ baton'[c] = baton[c] /\ FromWake(c)
    BY <1>2 DEF WakesInv
  <2>2. PICK v : v = baton[c].work
    OBVIOUS
  <2>3. CASE Issued(v) = {c}
    BY <1>3, <2>1, <2>2, <2>3, Zenon DEF FromWake
  <2>4. CASE \E p \in Batons : /\ wake[p].status = "CONSUMED" /\ wake[p].next = c
                               /\ Within(v, wake[p].budget)
    <3>1. PICK p \in Batons : /\ wake[p].status = "CONSUMED" /\ wake[p].next = c
                              /\ Within(v, wake[p].budget)
      BY <2>4, Zenon
    <3>2. PICK m : m = wake[p].budget
      BY Zenon
    <3>3. m \in Nat /\ p # b
      BY <1>0, <1>2, <3>1, <3>2, GrantedNat DEF NoWake
    <3>4. Within(v, m)'
      BY <1>6, <3>1, <3>2, <3>3, Zenon
    <3> QED
      BY <1>2, <2>1, <2>2, <3>1, <3>2, <3>3, <3>4, Zenon DEF FromWake
  <2> QED
    BY <2>1, <2>2, <2>3, <2>4, Zenon DEF FromWake
<1> QED
  BY <1>7, <1>8, <1>10, <1>11, Zenon DEF WakesInv

\* A consumed wake gives one of its budget to the baton made from it.
LEMMA IssueNextBatonKeeps ==
  ASSUME DialogueInv, DialogueInv', WakesInv,
         NEW s \in Schedulers, NEW b \in Batons, NEW t \in TurnIds, NEW c \in Batons,
         IssueNextBaton(s, b, t, c)
  PROVE  WakesInv'
<1>0. DialogueType /\ DialogueType'
  BY DEF DialogueInv
<1>1. PICK w, k : w = baton[b].work /\ k = wake[b].budget
  OBVIOUS
<1>2. /\ baton[c] = NoBaton /\ wake[c] = NoWake
      /\ \A d \in Batons : d < c => baton[d] # NoBaton
      /\ \A d \in Batons : d # c => baton'[d] = baton[d]
      /\ \A d \in Batons : d # b => wake'[d] = wake[d]
  BY <1>0, FreshRow DEF IssueNextBaton, Fresh, DialogueType
<1>3. /\ wake[b] \in WakeRow /\ wake[b].status = "LEASED" /\ k \in Nat /\ k >= 1
      /\ baton[b] # NoBaton /\ w \in Works /\ b # c
  BY <1>0, <1>1, <1>2, BatonStatus, Zenon
  DEF IssueNextBaton, HoldsLease, NoWake, NoBaton, WakeRow
<1>4. wake'[b].status = "CONSUMED" /\ wake'[b].next = c /\ wake'[b].budget = k - 1
  <2>1. wake'[b] = [wake[b] EXCEPT !.status = "CONSUMED", !.next = c, !.budget = @ - 1]
    BY <1>0, Zenon DEF IssueNextBaton, DialogueType
  <2> QED
    BY <1>1, <1>3, <2>1 DEF WakeRow
<1>5. baton'[c] # NoBaton /\ baton'[c].work = w /\ baton'[c].status = "OPEN"
  BY <1>0, <1>1, Zenon DEF IssueNextBaton, NewBaton, DialogueType, NoBaton
<1>6. Issued(w)' = Issued(w) \cup {c} /\ c \notin Issued(w)
  BY <1>0, <1>2, <1>5 DEF Issued, NoBaton
<1>7. ASSUME NEW v, v # w PROVE Issued(v)' = Issued(v)
  BY <1>0, <1>2, <1>5, <1>7 DEF Issued, NoBaton
<1>8. ASSUME NEW d \in Batons PROVE Granted(d)' = Granted(d)
  <2>1. CASE d # b
    BY <1>2, <2>1 DEF Granted
  <2>2. CASE d = b
    BY <1>1, <1>3, <1>4, <2>2 DEF Granted
  <2> QED
    BY <2>1, <2>2
<1>9. ASSUME NEW v, v # w, NEW m, Within(v, m) PROVE Within(v, m)'
  <2>1. PICK f \in Issued(v) : /\ \A d \in Issued(v) : f <= d
                               /\ Cardinality(Issued(v)) + m <= 1 + Granted(f)
    BY <1>9 DEF Within
  <2>2. f \in Batons
    BY DEF Issued
  <2> QED
    BY <1>7, <1>8, <1>9, <2>1, <2>2 DEF Within
<1>10. Within(w, k - 1)'
  <2>1. Within(w, k)
    BY <1>1, <1>3, Zenon DEF WakesInv, Live
  <2>2. PICK f \in Issued(w) : /\ \A d \in Issued(w) : f <= d
                               /\ Cardinality(Issued(w)) + k <= 1 + Granted(f)
    BY <2>1 DEF Within
  <2>3. f \in Batons /\ Cardinality(Issued(w)) \in Nat /\ IsFiniteSet(Issued(w))
    BY <2>1, FS_CardinalityType DEF Issued, Within
  <2>4. Cardinality(Issued(w))' = Cardinality(Issued(w)) + 1 /\ IsFiniteSet(Issued(w))'
    BY <1>6, <2>3, FS_AddElement
  <2>5. f <= c
    <3>1. baton[f] # NoBaton
      BY <1>0, IssuedRows
    <3> QED
      BY <1>2, <2>3, <3>1, DialogueAssumption DEF WakesInv, InOrder
  <2>6. Granted(f)' = Granted(f) /\ Granted(f) \in Nat
    BY <1>0, <1>8, <2>3, GrantedNat, Zenon
  <2>7. Cardinality(Issued(w))' + (k - 1) <= 1 + Granted(f)'
    BY <1>3, <2>2, <2>3, <2>4, <2>6
  <2>8. f \in Issued(w)' /\ \A d \in Issued(w)' : f <= d
    BY <1>6, <2>2, <2>5
  <2> QED
    BY <2>4, <2>7, <2>8 DEF Within
<1>11. InOrder'
  BY <1>2, <1>5, DialogueAssumption, Zenon DEF WakesInv, InOrder
<1>12. \A v \in Works : Issued(v)' # {} => Within(v, 0)'
  <2>1. Within(w, 0)'
    <3>1. k - 1 \in Nat /\ 0 <= k - 1
      BY <1>3
    <3>2. \E j \in Nat : j = k - 1 /\ 0 <= j /\ Within(w, j)'
      BY <1>10, <3>1
    <3> QED
      BY <1>0, <3>2, LaterLess
  <2> QED
    BY <1>7, <1>9, <2>1 DEF WakesInv
<1>13. ASSUME NEW d \in Batons, CarriesOn(d), d # b PROVE baton[d].work # w
  BY <1>1, <1>3, <1>13, Zenon DEF DialogueInv, Sole, CarriesOn, Live
<1>14. \A d \in Batons : (wake[d].status \in Live)' => Within(baton[d].work, wake[d].budget)'
  <2> SUFFICES ASSUME NEW d \in Batons, wake'[d].status \in Live
               PROVE  Within(baton[d].work, wake[d].budget)'
    OBVIOUS
  <2>1. d # b /\ wake'[d] = wake[d] /\ wake[d] # NoWake
    BY <1>2, <1>4 DEF Live, NoWake
  <2>2. d # c /\ baton'[d] = baton[d]
    BY <1>2, <2>1, Zenon
  <2>3. PICK v, m : v = baton[d].work /\ m = wake[d].budget
    BY Zenon
  <2>4. v # w /\ Within(v, m)
    BY <1>13, <2>1, <2>3 DEF WakesInv, CarriesOn
  <2>5. Within(v, m)'
    BY <1>9, <2>4, Zenon
  <2> QED
    BY <2>1, <2>2, <2>3, <2>5, Zenon
<1>15. \A d \in Batons : (baton[d].status = "OPEN")' => FromWake(d)'
  <2> SUFFICES ASSUME NEW d \in Batons, (baton[d].status = "OPEN")' PROVE FromWake(d)'
    OBVIOUS
  <2>1. CASE d = c
    BY <1>4, <1>5, <1>10, <2>1 DEF FromWake
  <2>2. CASE d # c
    <3>1. baton'[d] = baton[d] /\ baton[d].status = "OPEN" /\ FromWake(d)
      BY <1>2, <2>2, Zenon DEF WakesInv
    <3>2. PICK v : v = baton[d].work
      OBVIOUS
    <3>3. d # b /\ v # w
      BY <1>13, <3>1, <3>2, Zenon DEF CarriesOn, IssueNextBaton
    <3>4. CASE Issued(v) = {d}
      BY <1>7, <3>1, <3>2, <3>3, <3>4, Zenon DEF FromWake
    <3>5. CASE \E p \in Batons : /\ wake[p].status = "CONSUMED" /\ wake[p].next = d
                                 /\ Within(v, wake[p].budget)
      <4>1. PICK p \in Batons : /\ wake[p].status = "CONSUMED" /\ wake[p].next = d
                                /\ Within(v, wake[p].budget)
        BY <3>5
      <4>2. PICK m : m = wake[p].budget
        OBVIOUS
      <4>3. Within(v, m)'
        BY <1>9, <3>3, <4>1, <4>2
      <4>4. wake'[p] = wake[p]
        BY <1>2, <1>3, <4>1, Zenon
      <4> QED
        BY <3>1, <3>2, <4>1, <4>2, <4>3, <4>4, Zenon DEF FromWake
    <3> QED
      BY <3>1, <3>2, <3>4, <3>5, Zenon DEF FromWake
  <2> QED
    BY <2>1, <2>2
<1> QED
  BY <1>11, <1>12, <1>14, <1>15, Zenon DEF WakesInv

LEMMA WakesNextInv ==
  ASSUME DialogueInv, DialogueInv', WakesInv, [DialogueNext]_dialogueVars
  PROVE  WakesInv'
<1>1. CASE HandsOutNothing
  BY <1>1, HandsOutNothingKeeps
<1>2. CASE UNCHANGED <<baton, wake>>
  BY <1>1, <1>2, NothingHandedOut
<1>3. CASE \E w \in Works, a \in Participants, t \in TurnIds, parent \in Batons \cup {0}, b \in Batons :
             IssueBaton(w, a, t, parent, b)
  BY <1>3, IssueBatonKeeps
<1>4. CASE \E b \in Batons, disp \in Closing, target \in Participants, auth \in BOOLEAN :
             \E n \in 1..MaxBudget : CloseBaton(b, disp, target, auth, n)
  BY <1>4, CloseBatonKeeps
<1>5. CASE \E b \in Batons : AdmitWakeEvent(b) \/ LeaseRunsOut(b)
  BY <1>1, <1>5, NothingHandedOut
<1>6. CASE \E s \in Schedulers : Schedule(s)
  <2>1. PICK s \in Schedulers, b \in Batons :
          ClaimDueWake(s, b) \/ ReplayClaim(s, b)
            \/ \E t \in TurnIds, c \in Batons : IssueNextBaton(s, b, t, c)
    BY <1>6 DEF Schedule
  <2>2. CASE ClaimDueWake(s, b)
    BY <1>1, <2>2, NothingHandedOut
  <2>3. CASE ReplayClaim(s, b)
    BY <1>2, <2>3 DEF ReplayClaim
  <2>4. CASE \E t \in TurnIds, c \in Batons : IssueNextBaton(s, b, t, c)
    BY <2>4, IssueNextBatonKeeps
  <2> QED
    BY <2>1, <2>2, <2>3, <2>4
<1>7. CASE Owner
  <2>1. CASE \E status \in HeldBack : HoldBack(status)
    BY <1>1, <2>1, NothingHandedOut DEF HoldBack
  <2>2. CASE Resume
    BY <1>2, <2>2 DEF Resume
  <2>3. CASE Stop
    BY <1>1, <2>3, NothingHandedOut
  <2> QED
    BY <1>7, <2>1, <2>2, <2>3 DEF Owner, HeldBack
<1> QED
  BY <1>2, <1>3, <1>4, <1>5, <1>6, <1>7, Zenon
  DEF DialogueNext, dialogueVars, OpenConversation, OpenWorkItem, SealTurnExit

\* Agents cannot keep a work item going for ever: whoever closes and continues its
\* batons, they are at most one more than the wakes its first baton was granted.
THEOREM DialogueWakesBounded == DialogueSpec => []WakesBounded
<1>1. DialogueInit => WakesInv
  BY DEF DialogueInit, WakesInv, InOrder, Issued, NoBaton, NoWake, Live
<1>2. DialogueInv /\ DialogueInv' /\ WakesInv /\ [DialogueNext]_dialogueVars => WakesInv'
  BY WakesNextInv
<1>3. DialogueInv /\ WakesInv => WakesBounded
  <2> SUFFICES ASSUME DialogueInv, WakesInv, NEW w \in Works, Issued(w) # {}
               PROVE  Cardinality(Issued(w)) <= 1 + Granted(First(w))
    BY DEF WakesBounded
  <2>1. PICK f \in Issued(w) : /\ \A c \in Issued(w) : f <= c
                               /\ Cardinality(Issued(w)) + 0 <= 1 + Granted(f)
    BY DEF WakesInv, Within
  <2>2. Issued(w) \subseteq Nat
    BY DialogueAssumption DEF Issued
  <2>3. First(w) \in Issued(w) /\ \A c \in Issued(w) : First(w) <= c
    BY <2>1 DEF First
  <2>4. First(w) = f
    BY <2>1, <2>2, <2>3
  <2>5. Cardinality(Issued(w)) \in Nat
    BY FS_CardinalityType, Zenon DEF WakesInv, Within
  <2> QED
    BY <2>1, <2>4, <2>5
<1> QED
  BY <1>1, <1>2, <1>3, DialogueInvariant, PTL DEF DialogueSpec

=============================================================================
