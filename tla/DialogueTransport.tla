-------------------------- MODULE DialogueTransport --------------------------
(***************************************************************************)
(* How a baton made from a wake becomes a dormant Codex task:              *)
(* PerpetualDialogueTransportAdapter (perpetual_dialogue_transport.py)     *)
(* over CodexAppServerTransportDriver and its dispatch journal             *)
(* (codex_app_server_transport.py), composed with the dialogue store.      *)
(*                                                                         *)
(* A dispatch_id is derived from the wake and the baton, so dispatches are *)
(* indexed by baton.  The app-server is external: it creates a task on     *)
(* thread/start and keeps it only once items were injected; replies may be *)
(* lost, and its process is gone when a session ends.                      *)
(***************************************************************************)
EXTENDS PerpetualDialogue, Sequences

CONSTANTS Drivers,   \* processes that call dispatch
          MaxTasks   \* bound on the tasks the app-server creates

ASSUME TransportAssumption == MaxTasks \in Nat

VARIABLES journal,   \* Batons -> [state, task]
          tasks,     \* the app-server: the sequence of [baton, kept] it created
          driver,    \* Drivers -> [at, req, task]
          requests,  \* signed requests: [wake, baton, gen]
          receipts,  \* signed receipts: [baton, task]
          admitted   \* turns admitted to work: [baton, task]

transportVars == <<journal, tasks, driver, requests, receipts, admitted>>

NoTask == 0
NoRequest == [wake |-> 0, baton |-> 0, gen |-> 0]
Idle == [at |-> "idle", req |-> NoRequest, task |-> NoTask]

TransportInit ==
  /\ journal = [b \in Batons |-> [state |-> "NONE", task |-> NoTask]]
  /\ tasks = <<>>
  /\ driver = [d \in Drivers |-> Idle]
  /\ requests = {} /\ receipts = {} /\ admitted = {}

\* What both build_request and _require_current_request ask of the snapshot: b's wake
\* was turned into c, whose turn is still open under the fence of that wake.
StillCurrent(b, c) ==
  /\ conv.status = "ACTIVE"
  /\ wake[b].status = "CONSUMED"
  /\ wake[b].next = c
  /\ baton[c].status = "OPEN"
  /\ baton[c].agent = wake[b].target
  /\ work[baton[c].work].status = "OPEN"
  /\ work[baton[c].work].fence = wake[b].fence

BuildRequest(b, c) ==
  /\ StillCurrent(b, c)
  /\ requests' = requests \cup {[wake |-> b, baton |-> c, gen |-> conv.gen]}
  /\ UNCHANGED <<journal, tasks, driver, receipts, admitted>>

\* _require_current_request, for a request built under an earlier snapshot.
RequireCurrent(r) == StillCurrent(r.wake, r.baton) /\ conv.gen = r.gen

Goto(d, at) == driver' = [driver EXCEPT ![d].at = at]
Done(d) == driver' = [driver EXCEPT ![d] = Idle]

Dispatch(d, r) ==
  /\ driver[d] = Idle
  /\ RequireCurrent(r)
  /\ driver' = [driver EXCEPT ![d] = [at |-> "prepare", req |-> r, task |-> NoTask]]
  /\ UNCHANGED <<journal, tasks, requests, receipts, admitted>>

Receipted(d, task) == receipts' = receipts \cup {[baton |-> driver[d].req.baton, task |-> task]}

\* Mutated form: a start whose outcome is not known is tried again.
ClaimableAgain(c) == journal[c].state \in {"NONE", "PREPARED"}

\* prepare inserts a row, and so claims the dispatch, only if there is none.
Claimable(c) == journal[c].state = "NONE"

Prepare(d) ==
  LET c == driver[d].req.baton
  IN /\ driver[d].at = "prepare"
     /\ \/ /\ Claimable(c)
           /\ journal' = [journal EXCEPT ![c] = [state |-> "PREPARED", task |-> NoTask]]
           /\ Goto(d, "start")
           /\ UNCHANGED receipts
        \/ /\ journal[c].state = "READY"
           /\ Receipted(d, journal[c].task)
           /\ Done(d)
           /\ UNCHANGED journal
        \/ /\ ~Claimable(c)
           /\ journal[c].state # "READY"
           /\ Goto(d, "unknown")
           /\ UNCHANGED <<journal, receipts>>
     /\ UNCHANGED <<tasks, requests, admitted>>

\* thread/start: answered, or answered in vain.
ThreadStart(d) ==
  LET n == Len(tasks) + 1
      new == [baton |-> driver[d].req.baton, kept |-> FALSE]
  IN /\ driver[d].at = "start"
     /\ n <= MaxTasks
     /\ tasks' = Append(tasks, new)
     /\ \/ driver' = [driver EXCEPT ![d].at = "record", ![d].task = n]
        \/ Goto(d, "unknown")
     /\ UNCHANGED <<journal, requests, receipts, admitted>>

\* on_thread_started: record_started
RecordStarted(d) ==
  LET c == driver[d].req.baton
  IN /\ driver[d].at = "record"
     /\ journal[c].state = "PREPARED"
     /\ journal' = [journal EXCEPT ![c] = [state |-> "STARTED", task |-> driver[d].task]]
     /\ Goto(d, "inject")
     /\ UNCHANGED <<tasks, requests, receipts, admitted>>

\* thread/name/set, thread/inject_items and thread/read: the task is kept from the
\* second on; any of the replies may not arrive.
Inject(d) ==
  /\ driver[d].at = "inject"
  /\ \/ /\ tasks' = [tasks EXCEPT ![driver[d].task].kept = TRUE]
        /\ Goto(d, "ready") \/ Goto(d, "unknown")
     \/ Goto(d, "unknown") /\ UNCHANGED tasks
  /\ UNCHANGED <<journal, requests, receipts, admitted>>

\* mark_ready accepts the task it was started with, STARTED or READY.
MarkedReady(c, task) ==
  /\ journal[c].state \in {"STARTED", "READY"}
  /\ journal[c].task = task
  /\ journal' = [journal EXCEPT ![c].state = "READY"]

MarkReady(d) ==
  /\ driver[d].at = "ready"
  /\ MarkedReady(driver[d].req.baton, driver[d].task)
  /\ Receipted(d, driver[d].task)
  /\ Done(d)
  /\ UNCHANGED <<tasks, requests, admitted>>

\* thread/resume finds a task only if it was kept.
Resumes(task) == tasks[task].kept

\* COMMIT_UNKNOWN: read_by_dispatch_id.  Where it finds nothing, dispatch raises.
ReadBack(d) ==
  LET c == driver[d].req.baton
      row == journal[c]
  IN /\ driver[d].at = "unknown"
     /\ \/ /\ row.state = "READY"
           /\ Receipted(d, row.task)
           /\ UNCHANGED journal
        \/ /\ row.state = "STARTED" /\ Resumes(row.task)
           /\ MarkedReady(c, row.task)
           /\ Receipted(d, row.task)
        \/ /\ row.state \in {"NONE", "PREPARED"} \/ (row.state = "STARTED" /\ ~Resumes(row.task))
           /\ UNCHANGED <<journal, receipts>>
     /\ Done(d)
     /\ UNCHANGED <<tasks, requests, admitted>>

\* The app-server refuses a call, or the process ends.
GivesUp(d) ==
  /\ driver[d] # Idle
  /\ Done(d)
  /\ UNCHANGED <<journal, tasks, requests, receipts, admitted>>

AdmitTurn(r, receipt) ==
  /\ receipt.baton = r.baton
  /\ RequireCurrent(r)
  /\ admitted' = admitted \cup {receipt}
  /\ UNCHANGED <<journal, tasks, driver, requests, receipts>>

Drive(d) ==
  \/ \E r \in requests : Dispatch(d, r)
  \/ Prepare(d) \/ ThreadStart(d) \/ RecordStarted(d)
  \/ Inject(d) \/ MarkReady(d) \/ ReadBack(d) \/ GivesUp(d)

TransportStep ==
  \/ \E b \in Batons, c \in Batons : BuildRequest(b, c)
  \/ \E d \in Drivers : Drive(d)
  \/ \E r \in requests, receipt \in receipts : AdmitTurn(r, receipt)

TransportNext ==
  \/ TransportStep /\ UNCHANGED dialogueVars
  \/ DialogueNext /\ UNCHANGED transportVars

----------------------------------------------------------------------------
\* One task for one baton: however often a continuation is dispatched, by however
\* many drivers, with replies lost and requests rebuilt after the owner paused and
\* resumed, the app-server is asked for one task; a receipt is given, and a turn
\* admitted, only for that task, and only once it is kept.
OneTask ==
  /\ \A m, n \in DOMAIN tasks : tasks[m].baton = tasks[n].baton => m = n
  /\ \A r \in receipts \cup admitted : tasks[r.task].baton = r.baton /\ tasks[r.task].kept
==============================================================================
