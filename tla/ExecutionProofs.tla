-------------------------- MODULE ExecutionProofs ---------------------------
(***************************************************************************)
(* Proofs about who may act for an agent: the commands of the execution    *)
(* bridge (ExecutionBridge), for any operations, threads and restarts; the *)
(* runs of Claude Code (RunLedger), for any number of processes, sessions  *)
(* and requests; and the lease of the head (LeaseCustody), for any number  *)
(* of agents, handoffs and fence tokens.                                   *)
(***************************************************************************)
EXTENDS LeaseCustody, RunLedger, ExecutionBridge, TLAPS

(***************************************************************************)
(* 1. ExecutionBridge                                                      *)
(***************************************************************************)
BridgeSpec == BridgeInit /\ [][BridgeNext]_bridgeVars

----------------------------------------------------------------------------
(* The inductive invariant.                                                *)

BridgeRecord == [closed: BOOLEAN, stopped: BOOLEAN, uncertain: BOOLEAN, restarts: Nat]

RowStates == {"none", "prepared", "rejected", "running", "returned", "unknown"}

ServingRecord == [at: {"idle", "current", "reserve", "invoke", "act", "done", "raised"},
                  op: Operations \cup {"none"}]

USE DEF BridgeRecord, RowStates, ServingRecord

JobRecord == [state: {"none", "submitted", "unknown", "reported_exit"},
              stop: {"no", "asked", "overdue"}, known: BOOLEAN, recorded: BOOLEAN]

BridgeType ==
  /\ bridge \in BridgeRecord
  /\ delivery \in [Operations -> RowStates]
  /\ serving \in [Threads -> ServingRecord]
  /\ job \in [Operations -> JobRecord]
  /\ command \in [Operations -> {"none", "running", "ended"}]
  /\ begun \in [Operations -> Nat]

\* What the job, the row and the command of an operation have to do with each other.
JobOk(o) ==
  /\ job[o].state = "reported_exit" => command[o] = "ended"
  /\ job[o].state # "none" => delivery[o] \in {"running", "unknown", "returned"}
  /\ job[o].known => job[o].state # "none"
  /\ command[o] # "none" => begun[o] = 1 /\ KindOf(o) = "start"

\* A command that runs is a job of this process, or the process is in doubt; and it has
\* a row that will put the next process in doubt.
RunOk(o) ==
  command[o] = "running" =>
    /\ delivery[o] \in {"running", "unknown"}
    /\ job[o].state \in {"submitted", "unknown"} \/ bridge.uncertain

Consistent == \A o \in Operations : JobOk(o) /\ RunOk(o)

\* What a thread relies on while it serves an operation.
ThreadOk(t) ==
  LET o == serving[t].op
  IN serving[t].at # "idle" =>
       /\ o \in Operations
       /\ serving[t].at \in {"current", "reserve", "invoke", "act"} /\ Kind(t) # "write" =>
            Reconciled(job)
       /\ serving[t].at = "invoke" => delivery[o] = "prepared" /\ job[o].state = "none"
       /\ serving[t].at = "act" =>
            /\ delivery[o] = "running" /\ job[o].state = "none" /\ begun[o] = 0
            /\ Kind(t) # "write" => Running = {}
       /\ serving[t].at = "done" => IF Kind(t) = "start" THEN job[o].state # "none"
                                                         ELSE begun[o] = 1

\* Locks are held from the admission of a call to its end.
Locked ==
  \A t, u \in Threads :
    ~Serves(t, "idle") /\ ~Serves(u, "idle") /\ LockOf(serving[t].op) = LockOf(serving[u].op)
      => t = u

Serving == Locked /\ \A t \in Threads : ThreadOk(t)

ClosedFirst == bridge.stopped => bridge.closed

BridgeInv ==
  BridgeType /\ Consistent /\ Serving /\ DeliveredOnce /\ ClosedFirst /\ ClosedMeansStopped

----------------------------------------------------------------------------
(* Lemmas.                                                                 *)

\* What a round over the jobs may do to one of them.
JobMoves(o) ==
  /\ job'[o] \in JobRecord
  /\ job'[o].known <=> job[o].known
  /\ job[o].stop # "no" => job'[o].stop # "no"
  /\ \/ job'[o].state = job[o].state
     \/ job[o].state = "submitted" /\ job'[o].state = "unknown"
     \/ job[o].state = "submitted" /\ job'[o].state = "reported_exit" /\ command[o] = "ended"

\* And to its row.
RowMoves(o) ==
  \/ delivery'[o] = delivery[o]
  \/ delivery'[o] = "unknown" /\ job[o].known
  \/ delivery'[o] = "returned" /\ job[o].known /\ job'[o].state = "reported_exit"

CommandMoves(o) ==
  \/ command'[o] = command[o]
  \/ command[o] = "running" /\ command'[o] = "ended"

Round ==
  /\ \A o \in Operations : JobMoves(o) /\ RowMoves(o) /\ CommandMoves(o)
  /\ bridge.uncertain => bridge'.uncertain
  /\ UNCHANGED begun

\* Jobs as they may be when the watcher has looked after them.
Looked(js) ==
  /\ js \in [Operations -> JobRecord]
  /\ \A o \in Operations :
       /\ js[o].known <=> job[o].known
       /\ job[o].stop # "no" => js[o].stop # "no"
       /\ \/ js[o].state = job[o].state
          \/ job[o].state = "submitted" /\ js[o].state = "unknown"

\* Stopping a job, and looking after it.
LEMMA StoppedMoves ==
  ASSUME NEW j \in JobRecord
  PROVE  /\ Stopped(j) \in JobRecord /\ Stopped(j).state = j.state
         /\ Stopped(j).known = j.known /\ Stopped(j).recorded = j.recorded
         /\ j.stop # "no" => Stopped(j).stop # "no"
         /\ j.state = "submitted" => Stopped(j).stop # "no"
BY DEF Stopped, JobRecord

LEMMA TickedMoves ==
  ASSUME NEW j \in JobRecord, NEW revoked
  PROVE  /\ Ticked(j, revoked) \in JobRecord
         /\ Ticked(j, revoked).known = j.known
         /\ j.stop # "no" => Ticked(j, revoked).stop # "no"
         /\ \/ Ticked(j, revoked).state = j.state
            \/ j.state = "submitted" /\ Ticked(j, revoked).state = "unknown"
<1>1. CASE Ticked(j, revoked) = j
  BY <1>1
<1>2. CASE j.state = "submitted" /\ Ticked(j, revoked) = [j EXCEPT !.state = "unknown"]
  BY <1>2 DEF JobRecord
<1>3. CASE Ticked(j, revoked) = Stopped(j)
  BY <1>3, StoppedMoves
<1> QED BY <1>1, <1>2, <1>3, Zenon DEF Ticked

LEMMA RecordedMoves ==
  ASSUME NEW j \in JobRecord
  PROVE  LET k == [j EXCEPT !.recorded = TRUE]
         IN k \in JobRecord /\ k.known = j.known /\ k.state = j.state /\ k.stop = j.stop
BY Zenon DEF JobRecord

\* _sync_job settles rows of known jobs only, and ends no job.
LEMMA SyncMoves ==
  ASSUME BridgeInv, NEW ops, NEW js, NEW failing, NEW lost, Sync(ops, js, failing, lost),
         Looked(js), UNCHANGED command
  PROVE  /\ job' \in [Operations -> JobRecord]
         /\ \A o \in Operations : JobMoves(o) /\ RowMoves(o) /\ CommandMoves(o)
         /\ delivery' \in [Operations -> RowStates]
         /\ bridge' \in BridgeRecord
         /\ bridge'.closed = bridge.closed /\ bridge'.stopped = bridge.stopped
         /\ bridge.uncertain => bridge'.uncertain
<1> DEFINE due == {o \in ops : Unrecorded(o, js[o])}
<1>1. /\ job' = [o \in Operations |->
                  IF o \in failing THEN Stopped(js[o])
                  ELSE IF o \in due THEN [js[o] EXCEPT !.recorded = TRUE] ELSE js[o]]
      /\ delivery' = [o \in Operations |->
                       IF o \notin due \/ o \in lost THEN delivery[o]
                       ELSE IF o \in failing \/ js[o].state = "unknown" THEN "unknown"
                       ELSE "returned"]
      /\ bridge' = [bridge EXCEPT !.uncertain =
                     @ \/ failing # {} \/ \E o \in ops : js[o].state = "unknown"]
  BY DEF Sync
<1>2. \A o \in due : js[o].known /\ js[o].state \in {"unknown", "reported_exit"}
  BY DEF Unrecorded
<1> HIDE DEF due
<1> USE DEF Looked
<1>3. ASSUME NEW o \in Operations
      PROVE  /\ job'[o] \in JobRecord /\ job'[o].known = js[o].known
             /\ job'[o].state = js[o].state /\ (js[o].stop # "no" => job'[o].stop # "no")
  <2>1. CASE job'[o] = Stopped(js[o])
    BY <2>1, StoppedMoves
  <2>2. CASE job'[o] = [js[o] EXCEPT !.recorded = TRUE]
    BY <2>2, RecordedMoves
  <2>3. CASE job'[o] = js[o]
    BY <2>3
  <2> QED BY <1>1, <2>1, <2>2, <2>3, Zenon
<1>4. job' \in [Operations -> JobRecord]
  BY <1>1, <1>3
<1>5. \A o \in Operations : JobMoves(o)
  BY <1>3 DEF JobMoves
<1>6. \A o \in Operations : RowMoves(o)
  BY <1>1, <1>2, <1>3 DEF RowMoves
<1>7. delivery' \in [Operations -> RowStates]
  BY <1>1 DEF BridgeInv, BridgeType
<1>8. /\ bridge' \in BridgeRecord
      /\ bridge'.closed = bridge.closed /\ bridge'.stopped = bridge.stopped
      /\ bridge.uncertain => bridge'.uncertain
  BY <1>1, Zenon DEF BridgeInv, BridgeType
<1> QED BY <1>4, <1>5, <1>6, <1>7, <1>8 DEF CommandMoves

\* A round keeps what is recorded true.
LEMMA RoundKeeps ==
  ASSUME BridgeInv, Round
  PROVE  Consistent' /\ DeliveredOnce'
<1>1. ASSUME NEW o \in Operations
      PROVE  /\ JobOk(o)' /\ RunOk(o)'
             /\ begun'[o] <= 1
             /\ delivery'[o] \in {"none", "prepared", "rejected"} => begun'[o] = 0
             /\ delivery'[o] = "returned" => begun'[o] = 1 /\ command'[o] # "running"
  <2>1. JobOk(o) /\ RunOk(o) /\ JobMoves(o) /\ RowMoves(o) /\ CommandMoves(o)
    BY DEF BridgeInv, Consistent, Round
  <2>2. /\ begun[o] <= 1
        /\ delivery[o] \in {"none", "prepared", "rejected"} => begun[o] = 0
        /\ delivery[o] = "returned" => begun[o] = 1 /\ command[o] # "running"
    BY DEF BridgeInv, DeliveredOnce
  <2>3. /\ begun' = begun /\ (bridge.uncertain => bridge'.uncertain)
    BY DEF Round
  <2>4. JobOk(o)'
    BY <2>1, <2>3 DEF JobOk, JobMoves, RowMoves, CommandMoves
  <2>5. RunOk(o)'
    BY <2>1, <2>3 DEF JobOk, RunOk, JobMoves, RowMoves, CommandMoves
  <2>6. delivery'[o] = "returned" => begun[o] = 1 /\ command'[o] # "running"
    BY <2>1, <2>2 DEF JobOk, JobMoves, RowMoves, CommandMoves
  <2>7. delivery'[o] \in {"none", "prepared", "rejected"} => begun[o] = 0
    BY <2>1, <2>2 DEF RowMoves
  <2> QED BY <2>2, <2>3, <2>4, <2>5, <2>6, <2>7
<1> QED BY <1>1 DEF Consistent, DeliveredOnce

\* A round takes nothing away that a thread relies on.
LEMMA RoundThread ==
  ASSUME BridgeInv, Round, NEW t \in Threads, serving'[t] = serving[t]
  PROVE  ThreadOk(t)'
<1>1. Reconciled(job) => Reconciled(job')
  BY DEF Round, JobMoves, Reconciled
<1>2. Running' \subseteq Running
  BY DEF Round, CommandMoves, Running
<1>3. \A o \in Operations : job[o].state = "none" =>
        job'[o].state = "none" /\ delivery'[o] = delivery[o]
  BY DEF Round, JobMoves, RowMoves, BridgeInv, Consistent, JobOk
<1>4. \A o \in Operations : job[o].state # "none" => job'[o].state # "none"
  BY DEF Round, JobMoves
<1>5. begun' = begun
  BY DEF Round
<1>6. ThreadOk(t)
  BY DEF BridgeInv, Serving
<1> QED BY <1>1, <1>2, <1>3, <1>4, <1>5, <1>6, Zenon DEF ThreadOk, Kind

LEMMA RoundStep ==
  ASSUME BridgeInv, BridgeType', Round, UNCHANGED serving, ClosedFirst', ClosedMeansStopped'
  PROVE  BridgeInv'
<1>1. Consistent' /\ DeliveredOnce'
  BY RoundKeeps
<1>2. \A t \in Threads : ThreadOk(t)'
  BY RoundThread
<1>3. Locked'
  BY DEF BridgeInv, Serving, Locked, Serves
<1> QED BY <1>1, <1>2, <1>3 DEF BridgeInv, Serving

\* As long as it is not known to be stopped, or nothing was submitted meanwhile, the
\* bridge stays closed once it is closed.
LEMMA StaysClosed ==
  ASSUME BridgeInv, Round, UNCHANGED serving, bridge'.closed = bridge.closed,
         bridge'.stopped = bridge.stopped
  PROVE  ClosedFirst' /\ ClosedMeansStopped'
<1>1. ClosedFirst'
  BY DEF BridgeInv, ClosedFirst
<1>2. \A o \in Operations : job'[o].state = "submitted" =>
        job[o].state = "submitted" /\ (job[o].stop # "no" => job'[o].stop # "no")
  BY DEF Round, JobMoves
<1>3. ClosedMeansStopped'
  BY <1>2 DEF BridgeInv, ClosedMeansStopped, DispatchFree, Serves
<1> QED BY <1>1, <1>3

----------------------------------------------------------------------------
(* The steps, one by one.                                                  *)

LEMMA JobsSame ==
  ASSUME BridgeInv, UNCHANGED job
  PROVE  \A o \in Operations : JobMoves(o)
BY DEF BridgeInv, BridgeType, JobMoves

LEMMA WatchStep ==
  ASSUME BridgeInv, NEW o \in Jobs, Watch(o) \/ CommandRead(o)
  PROVE  BridgeInv'
<1>0. o \in Operations /\ job \in [Operations -> JobRecord] /\ UNCHANGED <<serving, command, begun>>
  BY DEF Jobs, BridgeInv, BridgeType, Watch, CommandRead, Outside
<1>1. PICK js, failing, lost :
        /\ Sync({o}, js, failing, lost)
        /\ js = job \/ \E revoked : js = [job EXCEPT ![o] = Ticked(@, revoked)]
  BY Zenon DEF Watch, CommandRead
<1>2. Looked(js)
  <2>1. CASE js = job
    BY <1>0, <2>1 DEF Looked
  <2>2. ASSUME NEW revoked, js = [job EXCEPT ![o] = Ticked(job[o], revoked)]
        PROVE  Looked(js)
    BY <1>0, <2>2, TickedMoves DEF Looked
  <2> QED BY <1>1, <2>1, <2>2
<1>3. /\ BridgeType' /\ Round /\ bridge'.closed = bridge.closed /\ bridge'.stopped = bridge.stopped
  BY <1>0, <1>1, <1>2, SyncMoves, Zenon DEF BridgeInv, BridgeType, Round
<1> QED BY <1>0, <1>3, StaysClosed, RoundStep

\* A job is asked to stop, ends, or is given up.
LEMMA JobStep ==
  ASSUME BridgeInv, NEW o \in Jobs,
         CommandStop(o) \/ Complete(o) \/ StopFails(o) \/ Overdue(o)
  PROVE  BridgeInv'
<1>0. /\ o \in Operations /\ job \in [Operations -> JobRecord]
      /\ UNCHANGED <<bridge, delivery, serving, channel, control, command, begun>>
  BY DEF Jobs, BridgeInv, BridgeType, CommandStop, Complete, StopFails, Overdue, JobBecomes, Outside
<1>1. job' = [job EXCEPT ![o] = job'[o]] /\ JobMoves(o)
  <2>1. CASE CommandStop(o)
    <3>1. job' = [job EXCEPT ![o] = Stopped(job[o])]
      BY <2>1 DEF CommandStop
    <3> QED BY <1>0, <3>1, StoppedMoves DEF JobMoves
  <2>2. CASE JobBecomes(o, "unknown") \/ (command[o] = "ended" /\ JobBecomes(o, "reported_exit"))
    BY <1>0, <2>2 DEF JobBecomes, JobMoves, JobRecord
  <2>3. CASE Overdue(o)
    BY <1>0, <2>3 DEF Overdue, JobMoves, JobRecord
  <2> QED BY <2>1, <2>2, <2>3 DEF Complete, StopFails
<1>2. \A q \in Operations : q # o => job'[q] = job[q]
  BY <1>0, <1>1
<1>3. job' \in [Operations -> JobRecord]
  BY <1>0, <1>1 DEF JobMoves
<1>4. Round
  BY <1>0, <1>1, <1>2 DEF Round, JobMoves, RowMoves, CommandMoves
<1>5. BridgeType'
  BY <1>0, <1>3 DEF BridgeInv, BridgeType
<1> QED BY <1>0, <1>4, <1>5, StaysClosed, RoundStep

LEMMA OutsideSteps ==
  ASSUME BridgeInv, \/ \E o \in Jobs : CommandEnds(o)
                    \/ ChannelFails \/ OwnerControls \/ UNCHANGED bridgeVars
  PROVE  BridgeInv'
<1>0. job \in [Operations -> JobRecord] /\ UNCHANGED <<bridge, delivery, serving, begun>>
  BY DEF BridgeInv, BridgeType, CommandEnds, ChannelFails, OwnerControls, bridgeVars
<1>1. /\ \A o \in Operations : JobMoves(o)
      /\ job' \in [Operations -> JobRecord]
  <2>1. CASE UNCHANGED job
    BY <1>0, <2>1, JobsSame
  <2>2. CASE ChannelFails
    <3>1. job' = Unanswered(job)
      BY <2>2 DEF ChannelFails
    <3> QED BY <1>0, <3>1 DEF Unanswered, JobMoves, JobRecord
  <2> QED BY <2>1, <2>2 DEF CommandEnds, OwnerControls, bridgeVars
<1>2. (\A o \in Operations : CommandMoves(o)) /\ command' \in [Operations -> {"none", "running", "ended"}]
  BY DEF CommandMoves, CommandEnds, ChannelFails, OwnerControls, bridgeVars, BridgeInv, BridgeType
<1>3. Round
  BY <1>0, <1>1, <1>2 DEF Round, RowMoves
<1>4. BridgeType'
  BY <1>0, <1>1, <1>2 DEF BridgeInv, BridgeType
<1> QED BY <1>0, <1>3, <1>4, StaysClosed, RoundStep

LEMMA CloseSteps ==
  ASSUME BridgeInv, CloseAdmission \/ CloseJobs
  PROVE  BridgeInv'
<1>0. /\ job \in [Operations -> JobRecord] /\ UNCHANGED <<delivery, serving, command, begun>>
      /\ bridge \in BridgeRecord
  BY DEF BridgeInv, BridgeType, CloseAdmission, CloseJobs, Outside
<1>1. CASE CloseAdmission
  <2>1. /\ bridge' \in BridgeRecord
        /\ bridge'.closed /\ bridge'.stopped = bridge.stopped /\ bridge'.uncertain = bridge.uncertain
        /\ UNCHANGED job
    BY <1>0, <1>1, Zenon DEF CloseAdmission
  <2>2. BridgeType' /\ Round
    BY <1>0, <2>1, JobsSame DEF BridgeInv, BridgeType, Round, RowMoves, CommandMoves
  <2>3. ClosedFirst' /\ ClosedMeansStopped'
    BY <1>0, <2>1 DEF BridgeInv, ClosedFirst, ClosedMeansStopped, DispatchFree, Serves
  <2> QED BY <1>0, <2>2, <2>3, RoundStep
<1>2. CASE CloseJobs
  <2>1. /\ bridge' \in BridgeRecord
        /\ bridge'.closed /\ bridge'.stopped /\ bridge'.uncertain = bridge.uncertain
        /\ job' = [o \in Operations |-> Stopped(job[o])] /\ DispatchFree
    BY <1>0, <1>2, Zenon DEF CloseJobs
  <2>2. /\ job' \in [Operations -> JobRecord]
        /\ \A o \in Operations : JobMoves(o) /\ (job'[o].state = "submitted" => job'[o].stop # "no")
    BY <1>0, <2>1, StoppedMoves DEF JobMoves
  <2>3. BridgeType' /\ Round
    BY <1>0, <2>1, <2>2 DEF BridgeInv, BridgeType, Round, RowMoves, CommandMoves
  <2>4. ClosedFirst' /\ ClosedMeansStopped'
    BY <1>0, <2>1, <2>2 DEF ClosedFirst, ClosedMeansStopped, DispatchFree, Serves
  <2> QED BY <1>0, <2>3, <2>4, RoundStep
<1> QED BY <1>1, <1>2

\* A new process: what may still run has a row that puts it in doubt.
LEMMA RestartStep ==
  ASSUME BridgeInv, Restart
  PROVE  BridgeInv'
<1> DEFINE reread == [o \in Operations |-> Incomplete(delivery[o])]
<1>1. /\ delivery' = reread /\ UNCHANGED <<command, begun>>
      /\ serving' = [t \in Threads |-> Unserved] /\ job' = [o \in Operations |-> NoJob]
      /\ bridge' = [closed |-> FALSE, stopped |-> FALSE, uncertain |-> Uncertain(reread),
                    restarts |-> bridge.restarts + 1]
  BY DEF Restart
<1>2. \A o \in Operations :
        /\ reread[o] \in {"none", "rejected", "returned", "unknown"}
        /\ delivery[o] \in {"running", "unknown"} => reread[o] = "unknown"
        /\ reread[o] # "unknown" => reread[o] = delivery[o]
  BY DEF BridgeInv, BridgeType, Incomplete
<1>3. Uncertain(reread) <=> \E o \in Operations : reread[o] = "unknown"
  BY DEF Uncertain
<1>4. /\ bridge' \in BridgeRecord
      /\ ~bridge'.stopped /\ (bridge'.uncertain <=> Uncertain(reread))
  BY <1>1 DEF BridgeInv, BridgeType, Uncertain
<1>5. \A o \in Operations : /\ job'[o] \in JobRecord /\ job'[o].state = "none" /\ ~job'[o].known
                            /\ delivery'[o] = reread[o]
  BY <1>1 DEF NoJob, JobRecord
<1>6. \A t \in Threads : serving'[t].at = "idle" /\ serving'[t].op = "none"
  BY <1>1 DEF Unserved
<1> HIDE DEF reread
<1>7. BridgeType'
  <2>1. delivery' \in [Operations -> RowStates]
    BY <1>1, <1>2 DEF reread
  <2>2. job' \in [Operations -> JobRecord]
    BY <1>1, <1>5
  <2>3. serving' \in [Threads -> ServingRecord]
    BY <1>1 DEF Unserved
  <2> QED BY <1>1, <1>4, <2>1, <2>2, <2>3, Zenon DEF BridgeInv, BridgeType
<1>8. Consistent'
  <2>1. ASSUME NEW o \in Operations PROVE JobOk(o)' /\ RunOk(o)'
    <3>1. JobOk(o) /\ RunOk(o)
      BY DEF BridgeInv, Consistent
    <3> QED BY <1>1, <1>2, <1>3, <1>4, <1>5, <3>1, Zenon DEF JobOk, RunOk
  <2> QED BY <2>1 DEF Consistent
<1>9. DeliveredOnce'
  BY <1>1, <1>2, <1>5 DEF BridgeInv, DeliveredOnce
<1>10. Serving'
  BY <1>6, Zenon DEF Serving, Locked, Serves, ThreadOk
<1> QED BY <1>4, <1>7, <1>8, <1>9, <1>10 DEF BridgeInv, ClosedFirst, ClosedMeansStopped

----------------------------------------------------------------------------
(* The steps of a thread.                                                  *)

\* Thread t goes on with the operation it serves, ends, or begins under a free lock.
LEMMA LocksKeep ==
  ASSUME BridgeInv, NEW t \in Threads,
         \A u \in Threads : u # t => serving'[u] = serving[u],
         \/ serving'[t].at = "idle"
         \/ serving[t].at # "idle" /\ serving'[t].op = serving[t].op
         \/ LockFree(LockOf(serving'[t].op))
  PROVE  Locked'
<1>1. Locked
  BY DEF BridgeInv, Serving
<1>2. LockFree(LockOf(serving'[t].op)) =>
        \A u \in Threads : serving[u].at # "idle" => LockOf(serving[u].op) # LockOf(serving'[t].op)
  BY DEF LockFree, Serves
<1> QED BY <1>1, <1>2 DEF Locked, Serves

\* Unless t enters its action or launches a command, close keeps its promise.
LEMMA ClosedKeeps ==
  ASSUME BridgeInv, bridge'.closed = bridge.closed, bridge'.stopped = bridge.stopped,
         \/ ~bridge.stopped
         \/ /\ \A u \in Threads : serving'[u].at = "act" => serving[u].at = "act"
            /\ \A o \in Operations : job'[o].state = "submitted" =>
                 job[o].state = "submitted" /\ (job[o].stop # "no" => job'[o].stop # "no")
  PROVE  ClosedFirst' /\ ClosedMeansStopped'
BY DEF BridgeInv, ClosedFirst, ClosedMeansStopped, DispatchFree, Serves

\* What is known of a thread that serves an operation.
LEMMA ServingFacts ==
  ASSUME BridgeInv, NEW t \in Threads, serving[t].at # "idle"
  PROVE  /\ serving[t].op \in Operations /\ ThreadOk(t)
         /\ \A u \in Threads : u # t /\ serving[u].at # "idle" =>
              /\ serving[u].op \in Operations /\ serving[u].op # serving[t].op
              /\ Kind(t) # "write" => Kind(u) = "write"
<1>1. serving[t].op \in Operations /\ ThreadOk(t)
  BY Zenon DEF BridgeInv, Serving, ThreadOk
<1>2. \A u \in Threads : u # t /\ serving[u].at # "idle" =>
        serving[u].op \in Operations /\ LockOf(serving[u].op) # LockOf(serving[t].op)
  BY Zenon DEF BridgeInv, Serving, ThreadOk, Locked, Serves
<1> QED BY <1>1, <1>2 DEF LockOf, Kind

LEMMA AdmitCallStep ==
  ASSUME BridgeInv, NEW t \in Threads, NEW o \in Operations, AdmitCall(t, o)
  PROVE  BridgeInv'
<1>0. /\ serving[t].at = "idle" /\ UNCHANGED <<command, begun>> /\ LockFree(LockOf(o))
      /\ job \in [Operations -> JobRecord]
      /\ serving \in [Threads -> ServingRecord]
  BY DEF AdmitCall, Serves, Outside, BridgeInv, BridgeType
<1>1. PICK failing, lost : Sync({p \in Operations : job[p].state # "none"}, job, failing, lost)
  BY Zenon DEF AdmitCall
<1>2. Looked(job)
  BY <1>0 DEF Looked
<1>3. /\ job' \in [Operations -> JobRecord]
      /\ \A q \in Operations : JobMoves(q) /\ RowMoves(q) /\ CommandMoves(q)
      /\ delivery' \in [Operations -> RowStates]
      /\ bridge' \in BridgeRecord
      /\ bridge'.closed = bridge.closed /\ bridge'.stopped = bridge.stopped
      /\ bridge.uncertain => bridge'.uncertain
  BY <1>0, <1>1, <1>2, SyncMoves, Zenon
<1>4. Round
  BY <1>0, <1>3 DEF Round
<1>5. CASE UNCHANGED serving
  <2>1. BridgeType'
    BY <1>0, <1>3, <1>5, Zenon DEF BridgeInv, BridgeType
  <2> QED BY <1>3, <1>4, <1>5, <2>1, StaysClosed, RoundStep
<1>6. CASE Reconciled(job) /\ serving' = [serving EXCEPT ![t] = [at |-> "current", op |-> o]]
  <2>1. /\ serving' \in [Threads -> ServingRecord]
        /\ \A u \in Threads : u # t => serving'[u] = serving[u]
        /\ serving'[t].at = "current" /\ serving'[t].op = o
    BY <1>0, <1>6
  <2>2. BridgeType'
    BY <1>0, <1>3, <2>1, Zenon DEF BridgeInv, BridgeType
  <2>3. Reconciled(job')
    BY <1>3, <1>6 DEF Reconciled, JobMoves
  <2>4. ThreadOk(t)'
    BY <2>1, <2>3 DEF ThreadOk
  <2>5. \A u \in Threads : u # t => ThreadOk(u)'
    BY <1>4, <2>1, RoundThread
  <2>6. Locked'
    BY <1>0, <2>1, LocksKeep
  <2>7. \A q \in Operations : job'[q].state = "submitted" =>
          job[q].state = "submitted" /\ (job[q].stop # "no" => job'[q].stop # "no")
    BY <1>3 DEF JobMoves
  <2>8. ClosedFirst' /\ ClosedMeansStopped'
    <3>1. \A u \in Threads : serving'[u].at = "act" => serving[u].at = "act"
      BY <2>1
    <3> QED BY <1>3, <2>7, <3>1, ClosedKeeps, Zenon
  <2>9. Consistent' /\ DeliveredOnce'
    BY <1>4, RoundKeeps
  <2> QED BY <2>2, <2>4, <2>5, <2>6, <2>8, <2>9 DEF BridgeInv, Serving
<1> QED BY <1>5, <1>6 DEF AdmitCall

\* A step of thread t that leaves jobs, commands and effects alone, and the rows of
\* other operations.
LEMMA RowStep ==
  ASSUME BridgeInv, NEW t \in Threads, NEW o \in Operations,
         UNCHANGED <<job, command, begun>>,
         serving' \in [Threads -> ServingRecord],
         \A u \in Threads : u # t => serving'[u] = serving[u] /\ (serving[u].at # "idle" => serving[u].op # o),
         \/ serving'[t].at = "idle"
         \/ serving[t].at # "idle" /\ serving'[t].op = serving[t].op
         \/ LockFree(LockOf(serving'[t].op)),
         serving'[t].at = "act" => ~bridge.stopped,
         bridge' \in BridgeRecord,
         bridge'.closed = bridge.closed, bridge'.stopped = bridge.stopped,
         bridge.uncertain => bridge'.uncertain,
         delivery' \in [Operations -> RowStates],
         \A q \in Operations : q # o => delivery'[q] = delivery[q],
         JobOk(o)', RunOk(o)',
         delivery'[o] \in {"none", "prepared", "rejected"} => begun[o] = 0,
         delivery'[o] = "returned" => begun[o] = 1 /\ command[o] # "running",
         ThreadOk(t)'
  PROVE  BridgeInv'
<1>1. BridgeType'
  BY Zenon DEF BridgeInv, BridgeType
<1>2. Consistent'
  <2>1. ASSUME NEW q \in Operations, q # o PROVE JobOk(q)' /\ RunOk(q)'
    BY <2>1, Zenon DEF BridgeInv, Consistent, JobOk, RunOk
  <2> QED BY <2>1 DEF Consistent
<1>3. DeliveredOnce'
  <2> SUFFICES ASSUME NEW q \in Operations
               PROVE  /\ begun[q] <= 1
                      /\ delivery'[q] \in {"none", "prepared", "rejected"} => begun[q] = 0
                      /\ delivery'[q] = "returned" => begun[q] = 1 /\ command[q] # "running"
    BY Zenon DEF DeliveredOnce
  <2>1. CASE q = o
    BY <2>1, Zenon DEF BridgeInv, DeliveredOnce
  <2>2. CASE q # o
    BY <2>2, ZenonT(30) DEF BridgeInv, DeliveredOnce
  <2> QED BY <2>1, <2>2
<1>4. \A u \in Threads : u # t => ThreadOk(u)'
  <2> SUFFICES ASSUME NEW u \in Threads, u # t PROVE ThreadOk(u)'
    OBVIOUS
  <2>1. ThreadOk(u) /\ serving'[u] = serving[u]
    BY DEF BridgeInv, Serving
  <2>2. serving[u].at # "idle" => serving[u].op \in Operations /\ delivery'[serving[u].op] = delivery[serving[u].op]
    BY <2>1, Zenon DEF ThreadOk
  <2>3. Running' = Running
    BY Zenon DEF Running
  <2> QED BY <2>1, <2>2, <2>3, ZenonT(30) DEF ThreadOk, Kind
<1>5. Locked'
  BY LocksKeep
<1>6. ClosedFirst' /\ ClosedMeansStopped'
  BY ClosedKeeps
<1> QED BY <1>1, <1>2, <1>3, <1>4, <1>5, <1>6, Zenon DEF BridgeInv, Serving

\* Where thread t is after it went on, or returned.
LEMMA ThreadMoves ==
  ASSUME BridgeInv, NEW t \in Threads, serving[t].at # "idle",
         NEW at \in {"reserve", "invoke", "act", "done", "raised"},
         Proceeds(t, at) \/ Returns(t)
  PROVE  /\ serving' \in [Threads -> ServingRecord]
         /\ \A u \in Threads : u # t => serving'[u] = serving[u]
         /\ Proceeds(t, at) => serving'[t].at = at /\ serving'[t].op = serving[t].op
         /\ Returns(t) => serving'[t].at = "idle"
<1>1. serving \in [Threads -> ServingRecord]
  BY DEF BridgeInv, BridgeType
<1>2. CASE Proceeds(t, at)
  <2>1. serving' = [serving EXCEPT ![t] = [serving[t] EXCEPT !.at = at]]
    BY <1>1, <1>2 DEF Proceeds
  <2>2. Returns(t) => serving'[t].at = "idle"
    BY <1>1 DEF Returns, Unserved
  <2> QED BY <1>1, <2>1, <2>2
<1>3. CASE Returns(t)
  <2>1. Proceeds(t, at) => serving'[t].at = at /\ serving'[t].op = serving[t].op
    BY <1>1 DEF Proceeds
  <2> QED BY <1>1, <1>3, <2>1 DEF Returns, Unserved
<1> QED BY <1>2, <1>3

LEMMA AdmitWriteStep ==
  ASSUME BridgeInv, NEW t \in Threads, NEW o \in Operations, AdmitWrite(t, o)
  PROVE  BridgeInv'
<1>1. /\ KindOf(o) = "write" /\ LockFree(LockOf(o))
      /\ serving' = [serving EXCEPT ![t] = [at |-> "current", op |-> o]]
      /\ UNCHANGED <<bridge, delivery, job, command, begun>>
  BY DEF AdmitWrite, Outside
<1>2. serving \in [Threads -> ServingRecord]
  BY DEF BridgeInv, BridgeType
<1>3. /\ serving' \in [Threads -> ServingRecord]
      /\ \A u \in Threads : u # t => serving'[u] = serving[u]
      /\ serving'[t].at = "current" /\ serving'[t].op = o
  BY <1>1, <1>2
<1>4. \A u \in Threads : u # t /\ serving[u].at # "idle" => serving[u].op # o
  BY <1>1 DEF LockFree, Serves
<1>5. JobOk(o) /\ RunOk(o) /\ BridgeType /\ DeliveredOnce
  BY DEF BridgeInv, Consistent
<1>6. JobOk(o)' /\ RunOk(o)'
  BY <1>1, <1>5, Zenon DEF JobOk, RunOk
<1>7. ThreadOk(t)'
  BY <1>1, <1>3, Zenon DEF ThreadOk, Kind
<1>8. /\ delivery'[o] \in {"none", "prepared", "rejected"} => begun[o] = 0
      /\ delivery'[o] = "returned" => begun[o] = 1 /\ command[o] # "running"
      /\ delivery' = delivery /\ bridge' = bridge
  BY <1>1, <1>5 DEF DeliveredOnce
<1> QED BY <1>1, <1>3, <1>4, <1>5, <1>6, <1>7, <1>8, RowStep DEF BridgeType

LEMMA CheckCurrentStep ==
  ASSUME BridgeInv, NEW t \in Threads, CheckCurrent(t)
  PROVE  BridgeInv'
<1> DEFINE o == serving[t].op
<1>1. /\ serving[t].at = "current" /\ UNCHANGED <<bridge, delivery, job, command, begun>>
      /\ Proceeds(t, "reserve") \/ Returns(t)
  BY DEF CheckCurrent, Serves, Outside
<1>2. o \in Operations /\ ThreadOk(t)
      /\ \A u \in Threads : u # t /\ serving[u].at # "idle" => serving[u].op # o
  BY <1>1, ServingFacts
<1>3. /\ serving' \in [Threads -> ServingRecord]
      /\ \A u \in Threads : u # t => serving'[u] = serving[u]
      /\ \/ serving'[t].at = "reserve" /\ serving'[t].op = o
         \/ serving'[t].at = "idle"
  BY <1>1, ThreadMoves, Zenon
<1>4. JobOk(o) /\ RunOk(o) /\ BridgeType /\ DeliveredOnce
  BY <1>2 DEF BridgeInv, Consistent
<1>5. ThreadOk(t)'
  BY <1>1, <1>2, <1>3, Zenon DEF ThreadOk, Kind
<1>6. /\ delivery[o] \in {"none", "prepared", "rejected"} => begun[o] = 0
      /\ delivery[o] = "returned" => begun[o] = 1 /\ command[o] # "running"
  BY <1>2, <1>4, Zenon DEF DeliveredOnce
<1> HIDE DEF o
<1>7. ASSUME NEW p \in Operations, p = o PROVE JobOk(p)' /\ RunOk(p)'
  BY <1>1, <1>4, <1>7, Zenon DEF JobOk, RunOk
<1> QED BY <1>1, <1>2, <1>3, <1>4, <1>5, <1>6, <1>7, RowStep DEF BridgeType, o

LEMMA ReserveStep ==
  ASSUME BridgeInv, NEW t \in Threads, Reserve(t)
  PROVE  BridgeInv'
<1>0. serving[t].at = "reserve" /\ UNCHANGED <<bridge, job, command, begun>>
  BY DEF Reserve, Serves, Outside
<1>1. PICK o \in Operations : o = serving[t].op
  BY <1>0, ServingFacts
<1>2. /\ ThreadOk(t) /\ JobOk(o) /\ RunOk(o) /\ BridgeType /\ DeliveredOnce
      /\ \A u \in Threads : u # t /\ serving[u].at # "idle" => serving[u].op # o
  BY <1>0, <1>1, ServingFacts DEF BridgeInv, Consistent
<1>3. CASE delivery[o] = "none" /\ Settles(o, "prepared") /\ Proceeds(t, "invoke")
  <2>1. /\ serving' \in [Threads -> ServingRecord]
        /\ \A u \in Threads : u # t => serving'[u] = serving[u]
        /\ serving'[t].at = "invoke" /\ serving'[t].op = o
    BY <1>0, <1>1, <1>3, ThreadMoves, Zenon
  <2>2. /\ delivery' \in [Operations -> RowStates]
        /\ \A q \in Operations : q # o => delivery'[q] = delivery[q]
        /\ delivery'[o] = "prepared"
    BY <1>2, <1>3 DEF Settles, BridgeType
  <2>3. begun[o] = 0 /\ job[o].state = "none" /\ command[o] = "none"
    BY <1>2, <1>3 DEF JobOk, RunOk, DeliveredOnce, BridgeType
  <2>4. JobOk(o)' /\ RunOk(o)'
    BY <1>0, <1>2, <2>2, <2>3, Zenon DEF JobOk, RunOk
  <2>5. ThreadOk(t)'
    BY <1>0, <1>1, <1>2, <2>1, <2>2, <2>3, ZenonT(30) DEF ThreadOk, Kind
  <2> QED BY <1>0, <1>1, <1>2, <2>1, <2>2, <2>3, <2>4, <2>5, RowStep DEF BridgeType
<1>4. CASE Returns(t) /\ UNCHANGED delivery
  <2>1. /\ serving' \in [Threads -> ServingRecord]
        /\ \A u \in Threads : u # t => serving'[u] = serving[u]
        /\ serving'[t].at = "idle"
    BY <1>0, <1>4, ThreadMoves, Zenon
  <2>2. JobOk(o)' /\ RunOk(o)'
    BY <1>0, <1>2, <1>4, Zenon DEF JobOk, RunOk
  <2>3. ThreadOk(t)'
    BY <2>1 DEF ThreadOk
  <2>4. /\ delivery[o] \in {"none", "prepared", "rejected"} => begun[o] = 0
        /\ delivery[o] = "returned" => begun[o] = 1 /\ command[o] # "running"
    BY <1>2 DEF DeliveredOnce
  <2> QED BY <1>0, <1>2, <1>4, <2>1, <2>2, <2>3, <2>4, RowStep DEF BridgeType
<1> QED BY <1>1, <1>3, <1>4 DEF Reserve, Reservable

LEMMA RefuseStep ==
  ASSUME BridgeInv, NEW t \in Threads, Refuse(t)
  PROVE  BridgeInv'
<1>0. serving[t].at = "invoke" /\ Returns(t) /\ UNCHANGED <<job, command, begun>>
  BY DEF Refuse, Serves, Outside
<1>1. PICK o \in Operations : o = serving[t].op
  BY <1>0, ServingFacts
<1>2. /\ ThreadOk(t) /\ JobOk(o) /\ RunOk(o) /\ BridgeType /\ DeliveredOnce
      /\ \A u \in Threads : u # t /\ serving[u].at # "idle" => serving[u].op # o
  BY <1>0, <1>1, ServingFacts DEF BridgeInv, Consistent
<1>3. /\ serving' \in [Threads -> ServingRecord]
      /\ \A u \in Threads : u # t => serving'[u] = serving[u]
      /\ serving'[t].at = "idle"
  BY <1>0, ThreadMoves, Zenon
<1>4. delivery[o] = "prepared" /\ job[o].state = "none" /\ begun[o] = 0 /\ command[o] = "none"
  BY <1>0, <1>1, <1>2 DEF ThreadOk, DeliveredOnce, JobOk, BridgeType
<1>5. /\ delivery' \in [Operations -> RowStates]
      /\ \A q \in Operations : q # o => delivery'[q] = delivery[q]
      /\ delivery'[o] \in {"prepared", "rejected"}
      /\ bridge' \in BridgeRecord
      /\ bridge'.closed = bridge.closed /\ bridge'.stopped = bridge.stopped
      /\ bridge.uncertain => bridge'.uncertain
  <2>1. CASE Settles(o, "rejected") /\ UNCHANGED bridge
    BY <1>2, <2>1 DEF Settles, BridgeType
  <2>2. CASE UNCHANGED delivery /\ bridge' = [bridge EXCEPT !.uncertain = TRUE]
    BY <1>2, <1>4, <2>2, Zenon DEF BridgeType
  <2> QED BY <1>1, <2>1, <2>2, Zenon DEF Refuse
<1>6. JobOk(o)' /\ RunOk(o)'
  BY <1>0, <1>2, <1>4, <1>5, Zenon DEF JobOk, RunOk
<1>7. ThreadOk(t)'
  BY <1>3 DEF ThreadOk
<1> QED BY <1>0, <1>2, <1>3, <1>4, <1>5, <1>6, <1>7, RowStep, Zenon

\* The last check: no command of the task runs when a thread may change the workspace.
LEMMA GuardedStep ==
  ASSUME BridgeInv, NEW t \in Threads, Guarded(t)
  PROVE  BridgeInv'
<1>0. /\ serving[t].at = "invoke" /\ Proceeds(t, "act") /\ Settles(serving[t].op, "running")
      /\ UNCHANGED <<bridge, job, command, begun>> /\ ~bridge.uncertain /\ ~bridge.closed
  BY DEF Guarded, Serves, Outside, MayDispatch, EffectsAllowed
<1>1. PICK o \in Operations : o = serving[t].op
  BY <1>0, ServingFacts
<1>2. /\ ThreadOk(t) /\ JobOk(o) /\ RunOk(o) /\ BridgeType /\ DeliveredOnce
      /\ \A u \in Threads : u # t /\ serving[u].at # "idle" => serving[u].op # o
  BY <1>0, <1>1, ServingFacts, Zenon DEF BridgeInv, Consistent
<1>3. /\ serving' \in [Threads -> ServingRecord]
      /\ \A u \in Threads : u # t => serving'[u] = serving[u]
      /\ serving'[t].at = "act" /\ serving'[t].op = o
  BY <1>0, <1>1, ThreadMoves, Zenon
<1>4. job[o].state = "none" /\ begun[o] = 0 /\ command[o] = "none"
  BY <1>0, <1>1, <1>2 DEF ThreadOk, DeliveredOnce, JobOk, BridgeType
<1>5. /\ delivery' \in [Operations -> RowStates]
      /\ \A q \in Operations : q # o => delivery'[q] = delivery[q]
      /\ delivery'[o] = "running"
  BY <1>0, <1>1, <1>2 DEF Settles, BridgeType
<1>6. Kind(t) # "write" => Reconciled(job) /\ Running = {}
  <2> SUFFICES ASSUME Kind(t) # "write" PROVE Reconciled(job) /\ Running = {}
    OBVIOUS
  <2>1. Reconciled(job)
    BY <1>0, <1>2, Zenon DEF ThreadOk
  <2>2. \A q \in Operations : command[q] = "running" => job[q].state \in {"submitted", "unknown"}
    BY <1>0 DEF BridgeInv, Consistent, RunOk
  <2> QED BY <2>1, <2>2 DEF Reconciled, Running
<1>7. JobOk(o)' /\ RunOk(o)'
  BY <1>0, <1>2, <1>4, <1>5, Zenon DEF JobOk, RunOk
<1>8. ThreadOk(t)'
  <2>1. Running' = Running /\ Kind(t)' = Kind(t)
    BY <1>0, <1>1, <1>3 DEF Running, Kind
  <2> QED BY <1>0, <1>3, <1>4, <1>5, <1>6, <2>1 DEF ThreadOk
<1>9. ~bridge.stopped
  BY <1>0, Zenon DEF BridgeInv, ClosedFirst
<1>10. bridge' = bridge /\ bridge' \in BridgeRecord
  BY <1>0, <1>2, Zenon DEF BridgeType
<1> QED BY <1>0, <1>1, <1>2, <1>3, <1>5, <1>7, <1>8, <1>9, <1>10, RowStep, Zenon

\* The action of operation o, of which nothing was done before, as far as others see it.
Acted(o, at) ==
  /\ job' \in [Operations -> JobRecord]
  /\ command' \in [Operations -> {"none", "running", "ended"}]
  /\ begun' \in [Operations -> Nat]
  /\ \A q \in Operations : q # o =>
       /\ begun'[q] = begun[q] /\ command'[q] = command[q]
       /\ job'[q].known = job[q].known
       /\ job'[q].state = job[q].state \/ (job[q].state = "submitted" /\ job'[q].state = "unknown")
  /\ begun'[o] \in {0, 1} /\ job'[o].state # "reported_exit" /\ ~job'[o].known
  /\ command'[o] # "none" =>
       begun'[o] = 1 /\ KindOf(o) = "start" /\ job'[o].state \in {"submitted", "unknown"}
  /\ at = "done" => IF KindOf(o) = "start" THEN job'[o].state # "none" ELSE begun'[o] = 1
  /\ KindOf(o) # "start" => UNCHANGED <<job, command>>

LEMMA LaunchActs ==
  ASSUME BridgeInv, NEW t \in Threads, NEW o \in Operations, o = serving[t].op, LaunchCommand(t),
         KindOf(o) = "start", begun[o] = 0, command[o] = "none"
  PROVE  Acted(o, "done")
<1> DEFINE submitted == [job EXCEPT ![o] = [NoJob EXCEPT !.state = "submitted"]]
<1>1. /\ job \in [Operations -> JobRecord] /\ begun \in [Operations -> Nat]
      /\ command \in [Operations -> {"none", "running", "ended"}]
  BY DEF BridgeInv, BridgeType
<1>2. /\ submitted \in [Operations -> JobRecord]
      /\ submitted[o].state = "submitted" /\ ~submitted[o].known
      /\ \A q \in Operations : q # o => submitted[q] = job[q]
  BY <1>1, Zenon DEF NoJob, JobRecord
<1>3. job' = submitted \/ job' = Unanswered(submitted)
  BY Zenon DEF LaunchCommand
<1> HIDE DEF submitted
<1>4. /\ job' \in [Operations -> JobRecord]
      /\ \A q \in Operations :
           /\ job'[q].known = submitted[q].known
           /\ \/ job'[q].state = submitted[q].state
              \/ submitted[q].state = "submitted" /\ job'[q].state = "unknown"
  <2>1. CASE job' = submitted
    BY <1>2, <2>1, Zenon
  <2>2. CASE job' = Unanswered(submitted)
    <3>1. \A j \in JobRecord : /\ [j EXCEPT !.state = "unknown"] \in JobRecord
                               /\ [j EXCEPT !.state = "unknown"].known = j.known
                               /\ [j EXCEPT !.state = "unknown"].state = "unknown"
      BY DEF JobRecord
    <3> QED BY <1>2, <2>2, <3>1, Zenon DEF Unanswered
  <2> QED BY <1>3, <2>1, <2>2, Zenon
<1>5. \/ Begins(o) /\ command' = [command EXCEPT ![o] = "running"]
      \/ UNCHANGED <<begun, command>>
  BY Zenon DEF LaunchCommand
<1>6. /\ begun' \in [Operations -> Nat] /\ command' \in [Operations -> {"none", "running", "ended"}]
      /\ \A q \in Operations : q # o => begun'[q] = begun[q] /\ command'[q] = command[q]
      /\ begun'[o] \in {0, 1} /\ (command'[o] # "none" => begun'[o] = 1)
  BY <1>1, <1>5 DEF Begins
<1> QED BY <1>2, <1>4, <1>6 DEF Acted

LEMMA ActStep ==
  ASSUME BridgeInv, NEW t \in Threads, Act(t)
  PROVE  BridgeInv'
<1>0. serving[t].at = "act" /\ UNCHANGED <<bridge, delivery>>
  BY DEF Act, Serves
<1>1. PICK o \in Operations : o = serving[t].op
  BY <1>0, ServingFacts
<1>2. /\ ThreadOk(t) /\ JobOk(o) /\ BridgeType /\ DeliveredOnce
      /\ \A u \in Threads : u # t /\ serving[u].at # "idle" =>
           /\ serving[u].op \in Operations /\ serving[u].op # o
           /\ KindOf(o) # "write" => Kind(u) = "write"
  BY <1>0, <1>1, ServingFacts, Zenon DEF BridgeInv, Consistent, Kind
<1>3. /\ delivery[o] = "running" /\ job[o].state = "none" /\ begun[o] = 0
      /\ command[o] = "none" /\ ~job[o].known
  BY <1>0, <1>1, <1>2 DEF ThreadOk, JobOk, BridgeType, JobRecord
<1>4. PICK at \in {"done", "raised"} : Proceeds(t, at) /\ Acted(o, at)
  <2>1. CASE Kind(t) = "start" /\ LaunchCommand(t)
    BY <1>1, <1>3, <2>1, LaunchActs, Zenon DEF LaunchCommand, Kind
  <2>2. CASE Kind(t) # "start" /\ Edit(t)
    <3>1. PICK at \in {"done", "raised"} : Proceeds(t, at)
      BY <2>2 DEF Edit
    <3>2. Acted(o, at)
      BY <1>1, <1>2, <1>3, <2>2 DEF Edit, Begins, Acted, BridgeType, Kind
    <3> QED BY <3>1, <3>2, Zenon
  <2>3. CASE Proceeds(t, "raised") /\ UNCHANGED <<job, channel, command, begun>>
    BY <1>2, <1>3, <2>3, Zenon DEF Acted, BridgeType
  <2> QED BY <2>1, <2>2, <2>3 DEF Act
<1>5. /\ serving' \in [Threads -> ServingRecord]
      /\ \A u \in Threads : u # t => serving'[u] = serving[u]
      /\ serving'[t].at = at /\ serving'[t].op = o
  BY <1>0, <1>1, <1>4, ThreadMoves, Zenon
<1>6. BridgeType'
  BY <1>0, <1>2, <1>4, <1>5, Zenon DEF Acted, BridgeType
<1>7. Consistent'
  <2>1. JobOk(o)' /\ RunOk(o)'
    BY <1>0, <1>3, <1>4, Zenon DEF Acted, JobOk, RunOk
  <2>2. ASSUME NEW q \in Operations, q # o PROVE JobOk(q)' /\ RunOk(q)'
    BY <1>0, <1>4, <2>2 DEF BridgeInv, Consistent, Acted, JobOk, RunOk
  <2> QED BY <2>1, <2>2 DEF Consistent
<1>8. DeliveredOnce'
  BY <1>0, <1>2, <1>3, <1>4 DEF Acted, DeliveredOnce
<1>9. \A u \in Threads : ThreadOk(u)'
  <2>1. ThreadOk(t)'
    BY <1>4, <1>5, Zenon DEF ThreadOk, Acted, Kind
  <2>2. ASSUME NEW u \in Threads, u # t PROVE ThreadOk(u)'
    <3>1. ThreadOk(u) /\ serving'[u] = serving[u]
      BY <1>5, <2>2 DEF BridgeInv, Serving
    <3>2. KindOf(o) # "start" => UNCHANGED <<job, command>> /\ Running' = Running
      BY <1>4 DEF Acted, Running
    <3>3. serving[u].at # "idle" =>
            LET q == serving[u].op
            IN /\ begun'[q] = begun[q] /\ (job[q].state = "none" <=> job'[q].state = "none")
               /\ Kind(u) # "write" => UNCHANGED job /\ Running' = Running
      BY <1>2, <1>4, <2>2, <3>2, Zenon DEF Acted
    <3> QED BY <1>0, <3>1, <3>3, Zenon DEF ThreadOk, Kind
  <2> QED BY <2>1, <2>2
<1>10. Locked'
  BY <1>0, <1>1, <1>5, LocksKeep, Zenon
<1>11. ~bridge.stopped
  BY <1>0 DEF BridgeInv, ClosedMeansStopped, DispatchFree, Serves
<1>12. ClosedFirst' /\ ClosedMeansStopped'
  BY <1>0, <1>11, ClosedKeeps, Zenon
<1> QED BY <1>6, <1>7, <1>8, <1>9, <1>10, <1>12 DEF BridgeInv, Serving

LEMMA FinishStep ==
  ASSUME BridgeInv, NEW t \in Threads, FinishEffect(t)
  PROVE  BridgeInv'
<1>0. serving[t].at \in {"done", "raised"} /\ Returns(t) /\ UNCHANGED <<command, begun>>
  BY DEF FinishEffect, Serves, Outside
<1>1. PICK o \in Operations : o = serving[t].op
  BY <1>0, ServingFacts
<1>2. /\ ThreadOk(t) /\ JobOk(o) /\ RunOk(o) /\ BridgeType /\ DeliveredOnce
      /\ \A u \in Threads : u # t /\ serving[u].at # "idle" => serving[u].op # o
  BY <1>0, <1>1, ServingFacts, Zenon DEF BridgeInv, Consistent
<1>3. /\ serving' \in [Threads -> ServingRecord]
      /\ \A u \in Threads : u # t => serving'[u] = serving[u]
      /\ serving'[t].at = "idle"
  BY <1>0, ThreadMoves, Zenon
<1>4. ThreadOk(t)'
  BY <1>3 DEF ThreadOk
<1>5. CASE /\ serving[t].at = "done" /\ Kind(t) = "start"
           /\ job' = [job EXCEPT ![o].known = TRUE] /\ UNCHANGED <<bridge, delivery>>
  <2>1. /\ job' \in [Operations -> JobRecord]
        /\ \A q \in Operations : /\ job'[q].state = job[q].state /\ job'[q].stop = job[q].stop
                                 /\ q # o => job'[q] = job[q]
    <3>1. job' = [job EXCEPT ![o] = [job[o] EXCEPT !.known = TRUE]]
      BY <1>2, <1>5 DEF BridgeType
    <3>2. LET k == [job[o] EXCEPT !.known = TRUE]
          IN k \in JobRecord /\ k.state = job[o].state /\ k.stop = job[o].stop
      BY <1>2, ZenonT(30) DEF BridgeType, JobRecord
    <3> QED BY <1>2, <3>1, <3>2 DEF BridgeType
  <2>2. BridgeType'
    BY <1>0, <1>2, <1>3, <1>5, <2>1, Zenon DEF BridgeType
  <2>3. Consistent'
    <3>1. JobOk(o)'
      BY <1>0, <1>1, <1>2, <1>5, <2>1 DEF JobOk, ThreadOk
    <3>2. ASSUME NEW q \in Operations PROVE RunOk(q)' /\ (q # o => JobOk(q)')
      BY <1>0, <1>5, <2>1 DEF BridgeInv, Consistent, JobOk, RunOk
    <3> QED BY <3>1, <3>2 DEF Consistent
  <2>4. DeliveredOnce'
    BY <1>0, <1>2, <1>5 DEF DeliveredOnce
  <2>5. ASSUME NEW u \in Threads, u # t PROVE ThreadOk(u)'
    <3>1. ThreadOk(u) /\ serving'[u] = serving[u] /\ Running' = Running
      BY <1>0, <1>3, <2>5 DEF BridgeInv, Serving, Running
    <3>2. Reconciled(job) <=> Reconciled(job')
      BY <2>1 DEF Reconciled
    <3> QED BY <1>0, <1>5, <2>1, <3>1, <3>2 DEF ThreadOk, Kind
  <2>6. Locked'
    BY <1>3, LocksKeep
  <2>7. ClosedFirst' /\ ClosedMeansStopped'
    <3>1. \A u \in Threads : serving'[u].at = "act" => serving[u].at = "act"
      BY <1>3
    <3> QED BY <1>5, <2>1, <3>1, ClosedKeeps
  <2> QED BY <1>4, <2>2, <2>3, <2>4, <2>5, <2>6, <2>7 DEF BridgeInv, Serving
<1>6. CASE /\ serving[t].at = "done" /\ Kind(t) # "start"
           /\ Settles(o, "returned") /\ UNCHANGED <<bridge, job>>
  <2>1. /\ delivery' \in [Operations -> RowStates]
        /\ \A q \in Operations : q # o => delivery'[q] = delivery[q]
        /\ delivery'[o] = "returned"
    BY <1>2, <1>6 DEF Settles, BridgeType
  <2>2. begun[o] = 1 /\ command[o] = "none"
    BY <1>1, <1>2, <1>6, Zenon DEF ThreadOk, JobOk, Kind
  <2>3. JobOk(o)' /\ RunOk(o)'
    BY <1>0, <1>2, <1>6, <2>1, <2>2, Zenon DEF JobOk, RunOk
  <2> QED BY <1>0, <1>2, <1>3, <1>4, <1>6, <2>1, <2>2, <2>3, RowStep, Zenon DEF BridgeType
<1>7. CASE /\ bridge' = [bridge EXCEPT !.uncertain = TRUE]
           /\ Settles(o, "unknown") \/ UNCHANGED delivery
           /\ UNCHANGED job
  <2>1. /\ delivery' \in [Operations -> RowStates]
        /\ \A q \in Operations : q # o => delivery'[q] = delivery[q]
        /\ delivery'[o] \in {"unknown", delivery[o]}
    BY <1>2, <1>7 DEF Settles, BridgeType
  <2>2. /\ bridge' \in BridgeRecord
        /\ bridge'.closed = bridge.closed /\ bridge'.stopped = bridge.stopped /\ bridge'.uncertain
    BY <1>2, <1>7, Zenon DEF BridgeType
  <2>3. JobOk(o)' /\ RunOk(o)'
    BY <1>0, <1>2, <1>7, <2>1, <2>2, Zenon DEF JobOk, RunOk
  <2>4. /\ delivery'[o] \in {"none", "prepared", "rejected"} => begun[o] = 0
        /\ delivery'[o] = "returned" => begun[o] = 1 /\ command[o] # "running"
    BY <1>2, <2>1, Zenon DEF DeliveredOnce
  <2> QED BY <1>0, <1>2, <1>3, <1>4, <1>7, <2>1, <2>2, <2>3, <2>4, RowStep, Zenon
<1> QED BY <1>1, <1>5, <1>6, <1>7, Zenon DEF FinishEffect, Serves, AfterRaise

----------------------------------------------------------------------------
(* The theorems.                                                           *)

LEMMA BridgeStep ==
  ASSUME BridgeInv, [BridgeNext]_bridgeVars
  PROVE  BridgeInv'
<1>1. ASSUME NEW t \in Threads, Serve(t) PROVE BridgeInv'
  BY <1>1, AdmitCallStep, AdmitWriteStep, CheckCurrentStep, ReserveStep, RefuseStep, GuardedStep,
     ActStep, FinishStep DEF Serve
<1>2. ASSUME NEW o \in Jobs, \/ Watch(o) \/ CommandRead(o) \/ CommandStop(o) \/ Complete(o)
                             \/ StopFails(o) \/ Overdue(o) \/ CommandEnds(o)
      PROVE  BridgeInv'
  <2>1. o \in Operations
    BY DEF Jobs
  <2> QED BY <1>2, <2>1, WatchStep, JobStep, OutsideSteps
<1>3. CASE ChannelFails \/ OwnerControls \/ UNCHANGED bridgeVars
  BY <1>3, OutsideSteps
<1>4. CASE CloseAdmission \/ CloseJobs \/ Restart
  BY <1>4, CloseSteps, RestartStep
<1> QED BY <1>1, <1>2, <1>3, <1>4 DEF BridgeNext

\* What threads, jobs, rows and commands have to do with each other holds in every
\* state of the bridge: after every refusal, exception, failed write and restart.
THEOREM BridgeInvariant == BridgeSpec => []BridgeInv
<1>1. BridgeInit => BridgeInv
  <2> SUFFICES ASSUME BridgeInit PROVE BridgeInv
    OBVIOUS
  <2>1. BridgeType
    BY DEF BridgeInit, BridgeType, NoJob, JobRecord, Unserved
  <2>2. Consistent
    BY DEF BridgeInit, Consistent, JobOk, RunOk, NoJob
  <2>3. Serving
    BY DEF BridgeInit, Serving, Locked, Serves, ThreadOk, Unserved
  <2>4. DeliveredOnce
    BY DEF BridgeInit, DeliveredOnce
  <2>5. ClosedFirst /\ ClosedMeansStopped
    BY DEF BridgeInit, ClosedFirst, ClosedMeansStopped
  <2> QED BY <2>1, <2>2, <2>3, <2>4, <2>5 DEF BridgeInv
<1>2. BridgeInv /\ [BridgeNext]_bridgeVars => BridgeInv'
  BY BridgeStep
<1> QED BY <1>1, <1>2, PTL DEF BridgeSpec

\* An operation takes effect at most once, and the delivery cache tells the truth about
\* it, whatever is repeated after a refusal, an exception or a restart.
THEOREM BridgeDeliveredOnce == BridgeSpec => []DeliveredOnce
<1>1. BridgeInv => DeliveredOnce
  BY DEF BridgeInv
<1> QED BY <1>1, BridgeInvariant, PTL

\* When Bridge.close has returned, no effect is under way and every command of the
\* process was asked to stop.
THEOREM BridgeClosed == BridgeSpec => []ClosedMeansStopped
<1>1. BridgeInv => ClosedMeansStopped
  BY DEF BridgeInv
<1> QED BY <1>1, BridgeInvariant, PTL

\* A command is started, or a file replaced, only when no command of the task runs, one
\* of an earlier process included: only action() begins an effect, and the thread that
\* takes it knows that none runs.
THEOREM BridgeSoleWriter == BridgeSpec => SoleWriter
<1> DEFINE Alone == \A o \in Operations : begun'[o] # begun[o] /\ KindOf(o) # "write" => Running = {}
<1>1. BridgeInv /\ [BridgeNext]_bridgeVars => [Alone]_bridgeVars
  <2> SUFFICES ASSUME BridgeInv, [BridgeNext]_bridgeVars PROVE Alone
    OBVIOUS
  <2>1. ASSUME NEW t \in Threads, Act(t) PROVE Alone
    <3>1. serving[t].at = "act"
      BY <2>1 DEF Act, Serves
    <3>2. serving[t].op \in Operations /\ (Kind(t) # "write" => Running = {})
      BY <3>1, ServingFacts, Zenon DEF ThreadOk
    <3>3. Begins(serving[t].op) \/ UNCHANGED begun
      BY <2>1, Zenon DEF Act, LaunchCommand, Edit
    <3>4. begun \in [Operations -> Nat]
      BY DEF BridgeInv, BridgeType
    <3> QED BY <3>2, <3>3, <3>4 DEF Begins, Kind
  <2>2. CASE UNCHANGED begun
    BY <2>2
  <2>3. \/ UNCHANGED begun
        \/ \E t \in Threads : Act(t)
    BY Zenon DEF BridgeNext, Serve, bridgeVars, AdmitCall, AdmitWrite, CheckCurrent, Reserve, Refuse, Guarded,
           FinishEffect, Watch, CommandRead, CommandStop, Complete, StopFails, Overdue, CommandEnds,
           ChannelFails, CloseAdmission, CloseJobs, Restart, OwnerControls, Outside
  <2> QED BY <2>1, <2>2, <2>3
<1> QED BY <1>1, BridgeInvariant, PTL DEF BridgeSpec, SoleWriter

HIDE DEF BridgeRecord, RowStates, ServingRecord

(***************************************************************************)
(* 2. RunLedger                                                            *)
(***************************************************************************)
RunSpec == RunInit /\ [][RunNext]_runVars

----------------------------------------------------------------------------
(* The inductive invariant.                                                *)

States == {"none"} \cup InFlight \cup Holding \cup Releasing

\* States a row may be in while execute of its owner is at a step.
StatesAt ==
  [claimed |-> {"claimed"},
   spawn |-> {"dispatching", "cancel_requested"},
   started |-> {"dispatching", "cancel_requested"},
   supervise |-> {"dispatching", "running", "cancel_requested"},
   report |-> InFlight, finish |-> InFlight, settle |-> InFlight,
   over |-> States \ {"none"}]

Steps == {"claimed", "spawn", "started", "supervise", "report", "finish", "settle", "over"}
Judged == {"report", "finish", "settle"}

Execution == [pc: Steps, req: Requests, target: {"none"} \cup Holding \cup Releasing,
              resumable: BOOLEAN]

Executing(p) == runner[p].pc \notin {"new", "dead"}

RunType ==
  /\ runRow \in [Requests -> [state: States, owner: Runners \cup {NoRequest}]]
  /\ session = [s \in Sessions |-> session[s]]
  /\ \A s \in Sessions : {"known", "blocked", "lease"} \subseteq DOMAIN session[s]
  /\ runner = [p \in Runners |-> runner[p]]
  /\ \A p \in Runners : Executing(p) => runner[p] \in Execution
  /\ living \subseteq Requests
  /\ launched \in [Requests -> Nat]

\* A process that executes a run owns it, and has the lease of its session until the
\* run is over.
Owning ==
  \A p \in Runners : Executing(p) =>
    /\ runRow[Req(p)].owner = p
    /\ StateOf(p) \in StatesAt[runner[p].pc]
    /\ runner[p].pc # "over" => session[SessionOf(Req(p))].lease = Req(p)

\* Before it resumes the executor nothing runs, and what it judged to be over does not.
Judging ==
  \A p \in Runners :
    /\ runner[p].pc \in {"claimed", "spawn"} => launched[Req(p)] = 0 /\ Req(p) \notin living
    /\ runner[p].pc \in Judged =>
         /\ runner[p].target # "none"
         /\ runner[p].target \in Releasing => Req(p) \notin living

\* An executor that may be alive keeps the lease, whatever became of its supervisor.
Leasing == \A r \in living : session[SessionOf(r)].lease = r

Launching ==
  \A r \in Requests :
    /\ launched[r] <= 1
    /\ runRow[r].state = "none" => launched[r] = 0 /\ r \notin living

RunInv == RunType /\ Owning /\ Judging /\ Leasing /\ Launching

----------------------------------------------------------------------------
(* Lemmas.                                                                 *)

LEMMA StatesAtFacts ==
  /\ StatesAt["claimed"] = {"claimed"}
  /\ StatesAt["spawn"] = {"dispatching", "cancel_requested"}
  /\ StatesAt["started"] = {"dispatching", "cancel_requested"}
  /\ StatesAt["supervise"] = {"dispatching", "running", "cancel_requested"}
  /\ \A pc \in Judged : StatesAt[pc] = InFlight
  /\ StatesAt["over"] = States \ {"none"}
  /\ \A pc \in Steps : StatesAt[pc] \subseteq States \ {"none"}
<1>1. /\ StatesAt["claimed"] = {"claimed"}
      /\ StatesAt["spawn"] = {"dispatching", "cancel_requested"}
      /\ StatesAt["started"] = {"dispatching", "cancel_requested"}
      /\ StatesAt["supervise"] = {"dispatching", "running", "cancel_requested"}
      /\ StatesAt["report"] = InFlight /\ StatesAt["finish"] = InFlight
      /\ StatesAt["settle"] = InFlight /\ StatesAt["over"] = States \ {"none"}
  BY DEF StatesAt
<1>2. \A pc \in Judged : StatesAt[pc] = InFlight
  BY <1>1, Zenon DEF Judged
<1>3. InFlight \subseteq States \ {"none"}
  BY DEF InFlight, States
<1>4. /\ {"claimed"} \subseteq InFlight /\ {"dispatching", "cancel_requested"} \subseteq InFlight
      /\ {"dispatching", "running", "cancel_requested"} \subseteq InFlight
  BY Zenon DEF InFlight
<1>5. \A pc \in Steps : StatesAt[pc] \subseteq InFlight \/ StatesAt[pc] = States \ {"none"}
  BY <1>1, <1>4, Zenon DEF Steps
<1> QED BY <1>1, <1>2, <1>3, <1>5, Zenon

\* Two processes never execute the same run.
LEMMA Distinct ==
  ASSUME RunInv, NEW p \in Runners, NEW q \in Runners, Executing(p), Executing(q), Req(p) = Req(q)
  PROVE  p = q
BY DEF RunInv, Owning

\* What Advance does.
LEMMA AdvanceEffect ==
  ASSUME RunInv, NEW p \in Runners, Executing(p), NEW source, NEW target, NEW resumable,
         Advance(p, source, target, resumable), target \in States \ {"none"}
  PROVE  /\ runRow' \in [Requests -> [state: States, owner: Runners \cup {NoRequest}]]
         /\ \A r \in Requests : r # Req(p) => runRow'[r] = runRow[r]
         /\ runRow'[Req(p)].owner = runRow[Req(p)].owner
         /\ runRow'[Req(p)].state \in {runRow[Req(p)].state, target}
         /\ session' = [s \in Sessions |-> session'[s]]
         /\ \A s \in Sessions : {"known", "blocked", "lease"} \subseteq DOMAIN session'[s]
         /\ \A s \in Sessions :
              \/ session'[s].lease = session[s].lease
              \/ target \in Releasing /\ s = SessionOf(Req(p)) /\ session[s].lease = Req(p)
<1> DEFINE r == Req(p)
           s0 == SessionOf(r)
<1>0. r \in Requests /\ s0 \in Sessions
  BY DEF RunInv, RunType, Execution, Req, Sessions
<1>1. CASE UNCHANGED <<runRow, session>>
  BY <1>0, <1>1 DEF RunInv, RunType
<1>2. CASE /\ runRow' = [runRow EXCEPT ![r].state = target]
           /\ session' = [session EXCEPT
               ![s0].lease = IF target \in Releasing /\ @ = r THEN NoRequest ELSE @,
               ![s0].blocked = @ \/ Blocks(r, target, resumable)]
  <2> HIDE DEF s0, r
  <2>1. /\ runRow' \in [Requests -> [state: States, owner: Runners \cup {NoRequest}]]
        /\ \A q \in Requests : q # r => runRow'[q] = runRow[q]
        /\ runRow'[r].owner = runRow[r].owner /\ runRow'[r].state = target
    BY <1>0, <1>2 DEF RunInv, RunType
  <2>2. session = [s \in Sessions |-> session[s]]
        /\ \A s \in Sessions : {"known", "blocked", "lease"} \subseteq DOMAIN session[s]
    BY DEF RunInv, RunType
  <2>3. session' = [s \in Sessions |-> session'[s]]
    BY <1>2, <2>2, Zenon
  <2>4. \A s \in Sessions : s # s0 => session'[s] = session[s]
    BY <1>2, <2>2, Zenon
  <2>5. /\ {"known", "blocked", "lease"} \subseteq DOMAIN session'[s0]
        /\ session'[s0].lease = IF target \in Releasing /\ session[s0].lease = r
                                THEN NoRequest ELSE session[s0].lease
    BY <1>0, <1>2, <2>2, Zenon
  <2> QED BY <2>1, <2>2, <2>3, <2>4, <2>5, Zenon DEF r, s0
<1> QED BY <1>1, <1>2, Zenon DEF Advance
\* A step of a process that executes a run, and what must be shown of it.
LEMMA ExecutionStep ==
  ASSUME RunInv, NEW p \in Runners, Executing(p),
         runner' = [q \in Runners |-> IF q = p THEN runner'[p] ELSE runner[q]],
         runner'[p] \in Execution, runner'[p].req = Req(p),
         runner[p].pc = "over" => runner'[p].pc = "over",
         runRow' \in [Requests -> [state: States, owner: Runners \cup {NoRequest}]],
         \A r \in Requests : r # Req(p) => runRow'[r] = runRow[r],
         runRow'[Req(p)].owner = runRow[Req(p)].owner,
         runRow'[Req(p)].state \in StatesAt[runner'[p].pc],
         session' = [s \in Sessions |-> session'[s]],
         \A s \in Sessions : {"known", "blocked", "lease"} \subseteq DOMAIN session'[s],
         \A s \in Sessions :
           \/ session'[s].lease = session[s].lease
           \/ /\ s = SessionOf(Req(p)) /\ session[s].lease = Req(p)
              /\ runner'[p].pc = "over" /\ Req(p) \notin living',
         living' \subseteq living \cup {Req(p)}, living \subseteq living' \cup {Req(p)},
         Req(p) \in living' => Req(p) \in living \/ runner[p].pc # "over",
         launched' \in [Requests -> Nat],
         \A r \in Requests : r # Req(p) => launched'[r] = launched[r],
         launched'[Req(p)] <= 1,
         runner'[p].pc \in {"claimed", "spawn"} => launched'[Req(p)] = 0 /\ Req(p) \notin living',
         runner'[p].pc \in Judged =>
           runner'[p].target # "none" /\ (runner'[p].target \in Releasing => Req(p) \notin living')
  PROVE  RunInv'
<1> DEFINE r == Req(p)
<1>0. r \in Requests /\ SessionOf(r) \in Sessions /\ runner[p] \in Execution
  BY Zenon DEF RunInv, RunType, Execution, Req, Sessions
<1>1. Executing(p)' /\ Req(p)' = r /\ runner'[p].pc \in Steps
  BY Zenon DEF Executing, Execution, Steps, Req
<1>2. \A q \in Runners : q # p => /\ runner'[q] = runner[q] /\ Req(q)' = Req(q)
                                  /\ Executing(q)' <=> Executing(q)
                                  /\ Executing(q) => Req(q) # r /\ Req(q) \in Requests
  <2>1. \A q \in Runners : q # p => runner'[q] = runner[q]
    OBVIOUS
  <2>2. \A q \in Runners : q # p /\ Executing(q) => Req(q) # r
    BY Distinct, Zenon
  <2>3. \A q \in Runners : Executing(q) => Req(q) \in Requests
    BY Zenon DEF RunInv, RunType, Execution, Req
  <2> QED BY <2>1, <2>2, <2>3, Zenon DEF Req, Executing
<1>3. RunType'
  <2>1. runner' = [q \in Runners |-> runner'[q]]
    OBVIOUS
  <2>2. \A q \in Runners : Executing(q)' => runner'[q] \in Execution
    BY <1>2, Zenon DEF RunInv, RunType
  <2>3. living' \subseteq Requests
    BY <1>0, Zenon DEF RunInv, RunType
  <2> QED BY <2>1, <2>2, <2>3, Zenon DEF RunType, Executing
<1>4. \A s \in Sessions : session[s].lease # r => session'[s].lease = session[s].lease
  BY Zenon
<1>5. runner[p].pc # "over" => session[SessionOf(r)].lease = r
  BY Zenon DEF RunInv, Owning
<1>6. runner'[p].pc # "over" => session'[SessionOf(r)].lease = r
  BY <1>0, <1>5, Zenon
<1>7. Owning'
  <2>1. ASSUME NEW q \in Runners, q # p, Executing(q)
        PROVE  /\ runRow'[Req(q)].owner = q
               /\ runRow'[Req(q)].state \in StatesAt[runner[q].pc]
               /\ runner[q].pc # "over" => session'[SessionOf(Req(q))].lease = Req(q)
    <3>1. SessionOf(Req(q)) \in Sessions
      BY <1>2, <2>1, Zenon DEF Sessions
    <3> QED BY <1>2, <1>4, <2>1, <3>1 DEF RunInv, Owning, StateOf
  <2>2. /\ runRow'[r].owner = p /\ runRow'[r].state \in StatesAt[runner'[p].pc]
    BY Zenon DEF RunInv, Owning
  <2> SUFFICES ASSUME NEW q \in Runners, Executing(q)'
               PROVE  /\ runRow'[Req(q)'].owner = q
                      /\ runRow'[Req(q)'].state \in StatesAt[runner'[q].pc]
                      /\ runner'[q].pc # "over" => session'[SessionOf(Req(q)')].lease = Req(q)'
    BY Zenon DEF Owning, StateOf
  <2>3. CASE q = p
    BY <1>1, <1>6, <2>2, <2>3, Zenon
  <2>4. CASE q # p
    BY <1>2, <2>1, <2>4, ZenonT(30)
  <2> QED BY <2>3, <2>4
<1>8. Judging'
  <2>1. ASSUME NEW q \in Runners, q # p
        PROVE  /\ runner[q].pc \in {"claimed", "spawn"} =>
                    launched'[Req(q)] = 0 /\ Req(q) \notin living'
               /\ runner[q].pc \in Judged =>
                    /\ runner[q].target # "none"
                    /\ runner[q].target \in Releasing => Req(q) \notin living'
    BY <1>2, <2>1 DEF RunInv, Judging, Executing, Judged
  <2> QED BY <1>1, <1>2, <2>1 DEF Judging
<1>9. Leasing'
  <2> SUFFICES ASSUME NEW a \in living' PROVE session'[SessionOf(a)].lease = a
    BY Zenon DEF Leasing
  <2>1. a \in Requests /\ SessionOf(a) \in Sessions
    BY <1>0, Zenon DEF RunInv, RunType, Sessions
  <2>2. CASE a = r
    <3>1. session[SessionOf(r)].lease = r
      BY <1>5, <2>2, Zenon DEF RunInv, Leasing
    <3> QED BY <2>1, <2>2, <3>1, Zenon
  <2>3. CASE a # r
    BY <1>4, <2>1, <2>3 DEF RunInv, Leasing
  <2> QED BY <2>2, <2>3, Zenon
<1>10. Launching'
  <2>1. runRow'[r].state # "none"
    BY <1>1, StatesAtFacts, Zenon
  <2> QED BY <2>1 DEF RunInv, Launching
<1> QED BY <1>3, <1>7, <1>8, <1>9, <1>10, Zenon DEF RunInv

----------------------------------------------------------------------------
(* The steps, one by one.                                                  *)

\* What is known of a process that executes a run.
LEMMA ExecutingFacts ==
  ASSUME RunInv, NEW p \in Runners, Executing(p)
  PROVE  /\ runner = [q \in Runners |-> runner[q]] /\ runner[p] \in Execution
         /\ Req(p) \in Requests /\ SessionOf(Req(p)) \in Sessions
         /\ runRow \in [Requests -> [state: States, owner: Runners \cup {NoRequest}]]
         /\ session = [s \in Sessions |-> session[s]]
         /\ \A s \in Sessions : {"known", "blocked", "lease"} \subseteq DOMAIN session[s]
         /\ living \subseteq Requests
         /\ launched \in [Requests -> Nat] /\ launched[Req(p)] <= 1
         /\ StateOf(p) \in StatesAt[runner[p].pc]
         /\ runner[p].pc # "over" => session[SessionOf(Req(p))].lease = Req(p)
BY Zenon DEF RunInv, RunType, Owning, Launching, Execution, Req, Sessions

\* A process goes on to pc without a change of its other variables.
LEMMA GoesEffect ==
  ASSUME RunInv, NEW p \in Runners, Executing(p), NEW pc \in Steps, Goes(p, pc)
  PROVE  /\ runner' = [q \in Runners |-> IF q = p THEN runner'[p] ELSE runner[q]]
         /\ runner'[p] \in Execution /\ runner'[p].req = Req(p) /\ runner'[p].pc = pc
         /\ runner'[p].target = runner[p].target
<1>1. runner'[p] = [runner[p] EXCEPT !.pc = pc]
  BY ExecutingFacts DEF Goes
<1>2. runner' = [q \in Runners |-> IF q = p THEN runner'[p] ELSE runner[q]]
  BY ExecutingFacts, Zenon DEF Goes
<1>3. runner[p] \in Execution
  BY ExecutingFacts
<1> QED BY <1>1, <1>2, <1>3 DEF Execution, Req

LEMMA PendingEffect ==
  ASSUME RunInv, NEW p \in Runners, Executing(p), NEW target \in Holding \cup Releasing,
         NEW resumable \in BOOLEAN, Pending(p, target, resumable)
  PROVE  /\ runner' = [q \in Runners |-> IF q = p THEN runner'[p] ELSE runner[q]]
         /\ runner'[p] \in Execution /\ runner'[p].req = Req(p) /\ runner'[p].pc = "report"
         /\ runner'[p].target = target
<1>1. runner'[p] = [[[runner[p] EXCEPT !.pc = "report"] EXCEPT !.target = target]
                      EXCEPT !.resumable = resumable]
  BY ExecutingFacts, Zenon DEF Pending
<1>2. runner' = [q \in Runners |-> IF q = p THEN runner'[p] ELSE runner[q]]
  BY ExecutingFacts, Zenon DEF Pending
<1>3. runner[p] \in Execution
  BY ExecutingFacts
<1> QED BY <1>1, <1>2, <1>3, Zenon DEF Execution, Req, Steps

LEMMA ClaimStep ==
  ASSUME RunInv, NEW p \in Runners, NEW r \in Requests, ClaimRun(p, r)
  PROVE  RunInv'
<1> DEFINE m == [pc |-> "claimed", req |-> r, target |-> "none", resumable |-> FALSE]
<1>0. /\ runRow[r].state = "none" /\ session[SessionOf(r)].lease = NoRequest
      /\ UNCHANGED <<living, launched>> /\ SessionOf(r) \in Sessions
      /\ launched[r] = 0 /\ r \notin living
  BY DEF ClaimRun, AdmitsRun, Sessions, RunInv, Launching
<1>1. runner' = [q \in Runners |-> IF q = p THEN m ELSE runner[q]]
  BY Zenon DEF ClaimRun, RunInv, RunType
<1>2. m \in Execution /\ m.pc = "claimed" /\ m.req = r /\ m.target = "none"
  BY DEF Execution, Steps
<1> HIDE DEF m
<1>3. /\ runRow' \in [Requests -> [state: States, owner: Runners \cup {NoRequest}]]
      /\ \A q \in Requests : q # r => runRow'[q] = runRow[q]
      /\ runRow'[r].owner = p /\ runRow'[r].state = "claimed"
  BY DEF ClaimRun, RunInv, RunType, States, InFlight
<1>4. /\ session' = [s \in Sessions |-> session'[s]]
      /\ \A s \in Sessions : {"known", "blocked", "lease"} \subseteq DOMAIN session'[s]
      /\ \A s \in Sessions : s # SessionOf(r) => session'[s] = session[s]
      /\ session'[SessionOf(r)].lease = r
  <2>1. session' = [session EXCEPT ![SessionOf(r)].known = TRUE, ![SessionOf(r)].lease = r]
    BY DEF ClaimRun
  <2>2. /\ session = [s \in Sessions |-> session[s]]
        /\ \A s \in Sessions : {"known", "blocked", "lease"} \subseteq DOMAIN session[s]
    BY DEF RunInv, RunType
  <2> QED BY <1>0, <2>1, <2>2, Zenon
<1>5. \A q \in Runners : q # p => /\ runner'[q] = runner[q] /\ Req(q)' = Req(q)
                                  /\ Executing(q)' <=> Executing(q)
                                  /\ Executing(q) => Req(q) # r /\ Req(q) \in Requests
  <2>1. \A q \in Runners : Executing(q) => StateOf(q) # "none" /\ Req(q) \in Requests
    <3>1. \A q \in Runners : Executing(q) => runner[q].pc \in Steps /\ Req(q) \in Requests
      BY DEF RunInv, RunType, Execution, Req
    <3> QED BY <3>1, StatesAtFacts, Zenon DEF RunInv, Owning
  <2> QED BY <1>0, <1>1, <2>1, Zenon DEF Req, Executing, StateOf
<1>6. Executing(p)' /\ Req(p)' = r /\ runner'[p] = m
  BY <1>1, <1>2 DEF Executing, Req
<1>7. RunType'
  <2>1. \A q \in Runners : Executing(q)' => runner'[q] \in Execution
    BY <1>2, <1>5, <1>6 DEF RunInv, RunType
  <2>2. runner' = [q \in Runners |-> runner'[q]]
    BY <1>1
  <2> QED BY <1>0, <1>3, <1>4, <2>1, <2>2, Zenon DEF RunInv, RunType, Executing
<1>8. Owning'
  <2>1. ASSUME NEW q \in Runners, q # p, Executing(q)
        PROVE  /\ runRow'[Req(q)].owner = q
               /\ runRow'[Req(q)].state \in StatesAt[runner[q].pc]
               /\ runner[q].pc # "over" => session'[SessionOf(Req(q))].lease = Req(q)
    <3>1. SessionOf(Req(q)) \in Sessions
      BY <1>5, <2>1, Zenon DEF Sessions
    <3> QED BY <1>0, <1>3, <1>4, <1>5, <2>1, <3>1, RequestsAssumption DEF RunInv, Owning, StateOf
  <2> QED BY <1>2, <1>3, <1>4, <1>5, <1>6, <2>1, StatesAtFacts DEF Owning, StateOf
<1>9. Judging'
  BY <1>0, <1>2, <1>5, <1>6 DEF RunInv, Judging, Judged
<1>10. Leasing'
  BY <1>0, <1>4, RequestsAssumption, ZenonT(30) DEF RunInv, RunType, Leasing, Sessions
<1>11. Launching'
  BY <1>0, <1>3 DEF RunInv, Launching
<1> QED BY <1>7, <1>8, <1>9, <1>10, <1>11 DEF RunInv

\* A process that executes a run records nothing and starts nothing, and goes on.
LEMMA ReportStep ==
  ASSUME RunInv, NEW p \in Runners, Executing(p),
         UNCHANGED <<runRow, session, launched>>, living' \in {living, living \ {Req(p)}},
         runner' = [q \in Runners |-> IF q = p THEN runner'[p] ELSE runner[q]],
         runner'[p] \in Execution, runner'[p].req = Req(p),
         runner[p].pc # "over", runner'[p].pc \in Judged, StateOf(p) \in InFlight,
         runner'[p].target # "none",
         runner'[p].target \in Releasing => Req(p) \notin living'
  PROVE  RunInv'
<1>1. runRow'[Req(p)].state \in StatesAt[runner'[p].pc]
  BY StatesAtFacts DEF StateOf
<1>2. runner'[p].pc \notin {"claimed", "spawn"}
  BY DEF Judged
<1> QED BY <1>1, <1>2, ExecutingFacts, ExecutionStep, Zenon

LEMMA FlagStep ==
  ASSUME RunInv, UNCHANGED <<runRow, session, runner, living, launched>>
  PROVE  RunInv'
BY Zenon DEF RunInv, RunType, Owning, Judging, Leasing, Launching, Executing, Req, StateOf

LEMMA RecordCancelStep ==
  ASSUME RunInv, NEW p \in Runners, RecordCancel(p)
  PROVE  RunInv'
<1>1. CASE UNCHANGED runRow
  BY <1>1, FlagStep DEF RecordCancel
<1>2. CASE runRow' # runRow
  <2>1. /\ Executing(p) /\ StateOf(p) \in {"dispatching", "running"}
        /\ runRow' = [runRow EXCEPT ![Req(p)].state = "cancel_requested"]
        /\ UNCHANGED <<session, runner, living, launched>>
    BY <1>2 DEF RecordCancel, Executing, RunnerAt
  <2>2. /\ runRow' \in [Requests -> [state: States, owner: Runners \cup {NoRequest}]]
        /\ \A r \in Requests : r # Req(p) => runRow'[r] = runRow[r]
        /\ runRow'[Req(p)].owner = runRow[Req(p)].owner
        /\ runRow'[Req(p)].state = "cancel_requested"
    BY <2>1, ExecutingFacts DEF States, InFlight
  <2>3. runner[p].pc \in Steps /\ StateOf(p) \in StatesAt[runner[p].pc]
    BY <2>1, ExecutingFacts DEF Execution
  <2>4. "cancel_requested" \in StatesAt[runner[p].pc]
    BY <2>1, <2>3 DEF StatesAt, Steps, InFlight, States
  <2>5. /\ runner[p].pc \in {"claimed", "spawn"} => launched[Req(p)] = 0 /\ Req(p) \notin living
        /\ runner[p].pc \in Judged =>
             runner[p].target # "none" /\ (runner[p].target \in Releasing => Req(p) \notin living)
    BY DEF RunInv, Judging
  <2>6. /\ runner' = [q \in Runners |-> IF q = p THEN runner'[p] ELSE runner[q]]
        /\ runner'[p] \in Execution /\ runner'[p].req = Req(p) /\ runner'[p].pc = runner[p].pc
        /\ runner'[p].target = runner[p].target
    BY <2>1, ExecutingFacts, Zenon DEF Req
  <2>7. /\ session' = [s \in Sessions |-> session'[s]]
        /\ \A s \in Sessions : {"known", "blocked", "lease"} \subseteq DOMAIN session'[s]
        /\ \A s \in Sessions : session'[s].lease = session[s].lease
        /\ launched' \in [Requests -> Nat] /\ launched'[Req(p)] <= 1
        /\ \A r \in Requests : r # Req(p) => launched'[r] = launched[r]
    BY <2>1, ExecutingFacts
  <2>8. living' \subseteq living \cup {Req(p)} /\ living \subseteq living' \cup {Req(p)}
        /\ (Req(p) \in living' => Req(p) \in living)
    BY <2>1
  <2> QED BY <2>1, <2>2, <2>4, <2>5, <2>6, <2>7, <2>8, ExecutionStep
<1> QED BY <1>1, <1>2

\* The owner leaves its run in a terminal state, or as it is.
LEMMA OverStep ==
  ASSUME RunInv, NEW p \in Runners, Executing(p), NEW source,
         NEW target \in Holding \cup Releasing, NEW resumable,
         Advance(p, source, target, resumable), Goes(p, "over"),
         UNCHANGED <<living, launched>>, target \in Releasing => Req(p) \notin living,
         runner[p].pc # "over"
  PROVE  RunInv'
<1>1. target \in States \ {"none"}
  BY Zenon DEF States, Holding, Releasing
<1>2. "over" \in Steps
  BY DEF Steps
<1>3. /\ runner' = [q \in Runners |-> IF q = p THEN runner'[p] ELSE runner[q]]
      /\ runner'[p] \in Execution /\ runner'[p].req = Req(p) /\ runner'[p].pc = "over"
  BY <1>2, GoesEffect
<1>4. runRow'[Req(p)].state \in {runRow[Req(p)].state, target}
  BY <1>1, AdvanceEffect, Zenon
<1>5. runRow'[Req(p)].state \in StatesAt[runner'[p].pc]
  <2>1. StateOf(p) \in States \ {"none"}
    BY ExecutingFacts, StatesAtFacts DEF Execution
  <2> QED BY <1>1, <1>3, <1>4, <2>1, StatesAtFacts DEF StateOf
<1>6. /\ runRow' \in [Requests -> [state: States, owner: Runners \cup {NoRequest}]]
      /\ \A r \in Requests : r # Req(p) => runRow'[r] = runRow[r]
      /\ runRow'[Req(p)].owner = runRow[Req(p)].owner
      /\ session' = [s \in Sessions |-> session'[s]]
      /\ \A s \in Sessions : {"known", "blocked", "lease"} \subseteq DOMAIN session'[s]
      /\ \A s \in Sessions :
           \/ session'[s].lease = session[s].lease
           \/ target \in Releasing /\ s = SessionOf(Req(p)) /\ session[s].lease = Req(p)
  BY <1>1, AdvanceEffect, Zenon
<1>7. "over" \notin {"claimed", "spawn"} /\ "over" \notin Judged
  BY DEF Judged
<1>8. /\ living' \subseteq living \cup {Req(p)} /\ living \subseteq living' \cup {Req(p)}
      /\ launched' \in [Requests -> Nat] /\ launched'[Req(p)] <= 1
      /\ \A r \in Requests : r # Req(p) => launched'[r] = launched[r]
  BY ExecutingFacts
<1> QED BY <1>3, <1>5, <1>6, <1>7, <1>8, ExecutionStep, Zenon

LEMMA RefusedStep ==
  ASSUME RunInv, NEW p \in Runners, Refused(p)
  PROVE  RunInv'
<1>1. /\ Executing(p) /\ runner[p].pc = "claimed" /\ Req(p) \notin living
      /\ UNCHANGED <<living, launched>>
  BY DEF Refused, RunnerAt, Executing, RunInv, Judging
<1>2. Advance(p, StateOf(p), "not_started", FALSE) /\ Goes(p, "over")
  BY Zenon DEF Refused
<1>3. "not_started" \in Holding \cup Releasing
  BY DEF Releasing
<1> QED BY <1>1, <1>2, <1>3, OverStep, Zenon

LEMMA FinishSteps ==
  ASSUME RunInv, NEW p \in Runners, Finish(p) \/ SettleUnknown(p)
  PROVE  RunInv'
<1>1. /\ Executing(p) /\ runner[p].pc \in {"finish", "settle"}
      /\ UNCHANGED <<living, launched>> /\ Goes(p, "over")
      /\ runner[p].pc \in Judged
  BY Zenon DEF Finish, SettleUnknown, RunnerAt, Executing, Judged
<1>2. /\ runner[p].target \in Holding \cup Releasing
      /\ runner[p].target \in Releasing => Req(p) \notin living
  BY <1>1, ExecutingFacts, Zenon DEF RunInv, Judging, Execution
<1>3. CASE Finish(p)
  <2>1. \E source : Advance(p, source, runner[p].target, runner[p].resumable)
    BY <1>3, Zenon DEF Finish
  <2> QED BY <1>1, <1>2, <2>1, OverStep, ZenonT(30)
<1>4. CASE SettleUnknown(p)
  <2> DEFINE target == IF runner[p].target \in Holding THEN runner[p].target ELSE "unknown"
  <2>1. Advance(p, StateOf(p), target, FALSE)
    BY <1>4, Zenon DEF SettleUnknown
  <2>2. target \in Holding /\ target \notin Releasing
    BY DEF Holding, Releasing
  <2> HIDE DEF target
  <2> QED BY <1>1, <2>1, <2>2, OverStep, Zenon
<1> QED BY <1>3, <1>4

LEMMA LaunchStep ==
  ASSUME RunInv, NEW p \in Runners, Launch(p)
  PROVE  RunInv'
<1>1. /\ Executing(p) /\ runner[p].pc = "claimed" /\ Req(p) \notin living /\ launched[Req(p)] = 0
      /\ UNCHANGED <<living, launched>> /\ StateOf(p) = "claimed"
  <2>1. Executing(p) /\ runner[p].pc = "claimed" /\ UNCHANGED <<living, launched>>
    BY DEF Launch, RunnerAt, Executing
  <2> QED BY <2>1, ExecutingFacts, StatesAtFacts, Zenon DEF RunInv, Judging
<1>2. CASE Cancelled(p)
  <2>1. Pending(p, "not_started", FALSE) /\ UNCHANGED <<runRow, session>>
    BY <1>2, Zenon DEF Launch
  <2>2. "not_started" \in Holding \cup Releasing /\ "not_started" # "none" /\ "report" \in Judged
    BY DEF Releasing, Judged
  <2>3. StateOf(p) \in InFlight
    BY <1>1 DEF InFlight
  <2> QED BY <1>1, <2>1, <2>2, <2>3, PendingEffect, ReportStep, Zenon
<1>3. CASE ~Cancelled(p)
  <2>1. Advance(p, "claimed", "dispatching", FALSE) /\ Goes(p, "spawn")
    BY <1>3, Zenon DEF Launch
  <2>2. /\ "spawn" \in Steps /\ "spawn" \notin Judged /\ "dispatching" \in States \ {"none"}
        /\ "dispatching" \notin Releasing
    BY DEF Steps, Judged, States, InFlight, Releasing
  <2>3. /\ runner' = [q \in Runners |-> IF q = p THEN runner'[p] ELSE runner[q]]
        /\ runner'[p] \in Execution /\ runner'[p].req = Req(p) /\ runner'[p].pc = "spawn"
    BY <1>1, <2>1, <2>2, GoesEffect
  <2>4. runRow' = [runRow EXCEPT ![Req(p)].state = "dispatching"]
    BY <1>1, <2>1, Zenon DEF Advance, RunTransitions, RunInv, Owning
  <2>5. runRow'[Req(p)].state \in StatesAt[runner'[p].pc]
    BY <1>1, <2>3, <2>4, ExecutingFacts, StatesAtFacts
  <2>6. /\ runRow' \in [Requests -> [state: States, owner: Runners \cup {NoRequest}]]
        /\ \A r \in Requests : r # Req(p) => runRow'[r] = runRow[r]
        /\ runRow'[Req(p)].owner = runRow[Req(p)].owner
        /\ session' = [s \in Sessions |-> session'[s]]
        /\ \A s \in Sessions : {"known", "blocked", "lease"} \subseteq DOMAIN session'[s]
        /\ \A s \in Sessions : session'[s].lease = session[s].lease
    BY <1>1, <2>1, <2>2, AdvanceEffect, Zenon
  <2>7. /\ living' \subseteq living \cup {Req(p)} /\ living \subseteq living' \cup {Req(p)}
        /\ launched' \in [Requests -> Nat] /\ launched'[Req(p)] <= 1
        /\ \A r \in Requests : r # Req(p) => launched'[r] = launched[r]
    BY <1>1, ExecutingFacts
  <2> QED BY <1>1, <2>2, <2>3, <2>5, <2>6, <2>7, ExecutionStep, Zenon
<1> QED BY <1>2, <1>3

LEMMA NotResumedStep ==
  ASSUME RunInv, NEW p \in Runners, NotResumed(p)
  PROVE  RunInv'
<1>1. /\ Executing(p) /\ runner[p].pc = "spawn" /\ Req(p) \notin living
      /\ UNCHANGED <<runRow, session, living, launched>>
  BY Zenon DEF NotResumed, RunnerAt, Executing, RunInv, Judging
<1>2. PICK target \in {"not_started"} \cup Holding : Pending(p, target, FALSE)
  BY Zenon DEF NotResumed
<1>3. target \in Holding \cup Releasing /\ target # "none" /\ "report" \in Judged
  BY Zenon DEF Releasing, Holding, Judged
<1>4. StateOf(p) \in InFlight
  BY <1>1, ExecutingFacts, StatesAtFacts DEF InFlight
<1>5. /\ runner' = [q \in Runners |-> IF q = p THEN runner'[p] ELSE runner[q]]
      /\ runner'[p] \in Execution /\ runner'[p].req = Req(p) /\ runner'[p].pc = "report"
      /\ runner'[p].target = target
  BY <1>1, <1>2, <1>3, PendingEffect, Zenon
<1> QED BY <1>1, <1>3, <1>4, <1>5, ReportStep

\* The executor is resumed for the first time, under the lease.
LEMMA ResumeStep ==
  ASSUME RunInv, NEW p \in Runners, ResumeThread(p)
  PROVE  RunInv'
<1>1. /\ Executing(p) /\ runner[p].pc = "spawn" /\ launched[Req(p)] = 0
      /\ UNCHANGED <<runRow, session>> /\ Goes(p, "started")
      /\ living' = living \cup {Req(p)}
      /\ launched' = [launched EXCEPT ![Req(p)] = @ + 1]
  BY Zenon DEF ResumeThread, RunnerAt, Executing, RunInv, Judging
<1>2. "started" \in Steps /\ "started" \notin Judged
  BY DEF Steps, Judged
<1>3. /\ runner' = [q \in Runners |-> IF q = p THEN runner'[p] ELSE runner[q]]
      /\ runner'[p] \in Execution /\ runner'[p].req = Req(p) /\ runner'[p].pc = "started"
  BY <1>1, <1>2, GoesEffect, Zenon
<1>4. runRow'[Req(p)].state \in StatesAt[runner'[p].pc]
  BY <1>1, <1>3, ExecutingFacts, StatesAtFacts, Zenon DEF StateOf
<1>5. /\ launched' \in [Requests -> Nat] /\ launched'[Req(p)] <= 1
      /\ \A r \in Requests : r # Req(p) => launched'[r] = launched[r]
  BY <1>1, ExecutingFacts
<1>6. /\ runRow' \in [Requests -> [state: States, owner: Runners \cup {NoRequest}]]
      /\ \A r \in Requests : r # Req(p) => runRow'[r] = runRow[r]
      /\ runRow'[Req(p)].owner = runRow[Req(p)].owner
      /\ session' = [s \in Sessions |-> session'[s]]
      /\ \A s \in Sessions : {"known", "blocked", "lease"} \subseteq DOMAIN session'[s]
      /\ \A s \in Sessions : session'[s].lease = session[s].lease
  BY <1>1, ExecutingFacts, Zenon
<1>7. living' \subseteq living \cup {Req(p)} /\ living \subseteq living' \cup {Req(p)}
  BY <1>1, Zenon
<1> QED BY <1>1, <1>2, <1>3, <1>4, <1>5, <1>6, <1>7, ExecutionStep, Zenon

LEMMA StartedStep ==
  ASSUME RunInv, NEW p \in Runners, Started(p)
  PROVE  RunInv'
<1>1. /\ Executing(p) /\ runner[p].pc = "started"
      /\ UNCHANGED <<session, living, launched>> /\ Goes(p, "supervise")
      /\ runRow' \in {runRow, [runRow EXCEPT ![Req(p)].state = IF @ = "dispatching" THEN "running" ELSE @]}
  BY DEF Started, RunnerAt, Executing
<1>2. "supervise" \in Steps /\ "supervise" \notin Judged
  BY DEF Steps, Judged
<1>3. /\ runner' = [q \in Runners |-> IF q = p THEN runner'[p] ELSE runner[q]]
      /\ runner'[p] \in Execution /\ runner'[p].req = Req(p) /\ runner'[p].pc = "supervise"
  BY <1>1, <1>2, GoesEffect
<1>4. /\ runRow' \in [Requests -> [state: States, owner: Runners \cup {NoRequest}]]
      /\ \A r \in Requests : r # Req(p) => runRow'[r] = runRow[r]
      /\ runRow'[Req(p)].owner = runRow[Req(p)].owner
      /\ runRow'[Req(p)].state \in {runRow[Req(p)].state, "running"}
  <2>1. CASE runRow' = runRow
    BY <2>1, <1>1, ExecutingFacts
  <2>2. CASE runRow' = [runRow EXCEPT ![Req(p)].state = IF @ = "dispatching" THEN "running" ELSE @]
    <3>1. "running" \in States
      BY DEF States, InFlight
    <3> QED BY <1>1, <2>2, <3>1, ExecutingFacts
  <2> QED BY <1>1, <2>1, <2>2, Zenon
<1>5. runRow'[Req(p)].state \in StatesAt[runner'[p].pc]
  BY <1>1, <1>3, <1>4, ExecutingFacts, StatesAtFacts DEF StateOf
<1>6. /\ session' = [s \in Sessions |-> session'[s]]
      /\ \A s \in Sessions : {"known", "blocked", "lease"} \subseteq DOMAIN session'[s]
      /\ \A s \in Sessions : session'[s].lease = session[s].lease
      /\ launched' \in [Requests -> Nat] /\ launched'[Req(p)] <= 1
      /\ \A r \in Requests : r # Req(p) => launched'[r] = launched[r]
  BY <1>1, ExecutingFacts
<1>7. living' \subseteq living \cup {Req(p)} /\ living \subseteq living' \cup {Req(p)}
  BY <1>1
<1> QED BY <1>1, <1>2, <1>3, <1>4, <1>5, <1>6, <1>7, ExecutionStep, Zenon

\* A stop that is not verified is not judged as a releasing one.
LEMMA JudgeStep ==
  ASSUME RunInv, NEW p \in Runners, Judge(p)
  PROVE  RunInv'
<1>1. /\ Executing(p) /\ runner[p].pc = "supervise" /\ UNCHANGED <<runRow, session, launched>>
  BY DEF Judge, RunnerAt, Executing
<1>2. StateOf(p) \in {"dispatching", "running", "cancel_requested"}
  BY <1>1, ExecutingFacts, StatesAtFacts, Zenon
<1>3. living' \in {living, living \ {Req(p)}}
      /\ \E target \in Holding \cup Releasing, resumable \in BOOLEAN :
           /\ Pending(p, target, resumable)
           /\ target \in Releasing => Req(p) \notin living'
  <2>1. CASE living' \in {living, living \ {Req(p)}} /\ Pending(p, "stop_unverified", FALSE)
    <3>1. "stop_unverified" \in Holding \cup Releasing /\ "stop_unverified" \notin Releasing
      BY DEF Holding, Releasing
    <3> QED BY <2>1, <3>1, Zenon
  <2>2. CASE /\ living' = living \ {Req(p)}
             /\ \/ Pending(p, "unknown", FALSE)
                \/ \E resumable \in BOOLEAN :
                     Pending(p, CASE StateOf(p) = "dispatching" -> "unknown"
                                  [] StateOf(p) = "cancel_requested" -> "cancelled_stopped"
                                  [] StateOf(p) = "running" -> "completed", resumable)
                \/ \E resumable \in BOOLEAN : Pending(p, "cancelled_stopped", resumable)
    BY <1>2, <2>2, Zenon DEF Holding, Releasing
  <2> QED BY <2>1, <2>2, Zenon DEF Judge
<1>4. PICK target \in Holding \cup Releasing, resumable \in BOOLEAN :
        /\ Pending(p, target, resumable)
        /\ target \in Releasing => Req(p) \notin living'
  BY <1>3
<1>5. target # "none" /\ "report" \in Judged /\ StateOf(p) \in InFlight
  BY <1>2 DEF Holding, Releasing, Judged, InFlight
<1> QED BY <1>1, <1>3, <1>4, <1>5, PendingEffect, ReportStep

LEMMA CloseStep ==
  ASSUME RunInv, NEW p \in Runners, CloseLifecycle(p)
  PROVE  RunInv'
<1>1. /\ Executing(p) /\ runner[p].pc = "report" /\ runner[p].pc \in Judged
      /\ UNCHANGED <<runRow, session, living, launched>>
  BY DEF CloseLifecycle, RunnerAt, Executing, Judged
<1>2. PICK pc \in {"finish", "settle"} : Goes(p, pc)
  BY DEF CloseLifecycle
<1>3. pc \in Steps /\ pc \in Judged
  BY DEF Steps, Judged
<1>4. StateOf(p) \in InFlight
  BY <1>1, ExecutingFacts, StatesAtFacts
<1>5. runner[p].target # "none" /\ (runner[p].target \in Releasing => Req(p) \notin living)
  BY <1>1, Zenon DEF RunInv, Judging
<1> QED BY <1>1, <1>2, <1>3, <1>4, <1>5, GoesEffect, ReportStep, Zenon

LEMMA DiesStep ==
  ASSUME RunInv, NEW p \in Runners, Dies(p)
  PROVE  RunInv'
<1>1. UNCHANGED <<runRow, session, launched>> /\ living' \subseteq living
  BY DEF Dies
<1>2. runner' = [q \in Runners |-> IF q = p THEN [pc |-> "dead"] ELSE runner[q]]
  BY DEF Dies, RunInv, RunType
<1>3. ~Executing(p)' /\ runner'[p].pc = "dead"
  BY <1>2, Zenon DEF Executing
<1>4. \A q \in Runners : q # p => /\ runner'[q] = runner[q] /\ Req(q)' = Req(q)
                                  /\ Executing(q)' <=> Executing(q)
  BY <1>2 DEF Executing, Req
<1>5. RunType'
  <2>1. \A q \in Runners : Executing(q)' => runner'[q] \in Execution
    BY <1>3, <1>4 DEF RunInv, RunType
  <2>2. runner' = [q \in Runners |-> runner'[q]]
    BY <1>2, Zenon
  <2> QED BY <1>1, <2>1, <2>2 DEF RunInv, RunType, Executing
<1>6. Owning'
  BY <1>1, <1>3, <1>4 DEF RunInv, Owning, StateOf
<1>7. Judging'
  BY <1>1, <1>3, <1>4, Zenon DEF RunInv, Judging, Judged
<1>8. Leasing' /\ Launching'
  BY <1>1 DEF RunInv, Leasing, Launching
<1> QED BY <1>5, <1>6, <1>7, <1>8 DEF RunInv

----------------------------------------------------------------------------
\* The inductive invariant of governed runs (ledger.py, launcher.py): an executor that
\* may be alive holds the lease of its session, and only the owner of its run, having
\* verified that it is gone, gives the lease back.
THEOREM RunInvariant == RunSpec => []RunInv
<1>1. RunInit => RunInv
  <2> SUFFICES ASSUME RunInit PROVE RunInv
    OBVIOUS
  <2>1. RunType
    BY Zenon DEF RunInit, RunType, States, Executing
  <2>2. Owning /\ Judging /\ Leasing /\ Launching
    BY DEF RunInit, Owning, Judging, Leasing, Launching, Executing, Judged
  <2> QED BY <2>1, <2>2 DEF RunInv
<1>2. RunInv /\ [RunNext]_runVars => RunInv'
  <2> SUFFICES ASSUME RunInv, [RunNext]_runVars PROVE RunInv'
    OBVIOUS
  <2>1. CASE UNCHANGED runVars
    BY <2>1, FlagStep DEF runVars
  <2>2. ASSUME NEW p \in Runners, NEW r \in Requests, ClaimRun(p, r) PROVE RunInv'
    BY <2>2, ClaimStep
  <2>3. ASSUME NEW p \in Runners, Flag(p) PROVE RunInv'
    BY <2>3, FlagStep DEF Flag
  <2> QED BY <2>1, <2>2, <2>3, RecordCancelStep, RefusedStep, LaunchStep, NotResumedStep,
             ResumeStep, StartedStep, JudgeStep, CloseStep, FinishSteps, DiesStep DEF RunNext
<1> QED BY <1>1, <1>2, PTL DEF RunSpec

\* "One live run per session" (ledger.py), whatever supervisors die, whatever stops stay
\* unverified, whoever cancels, and however often a request is repeated.
THEOREM RunsOneLive == RunSpec => []OneLiveRun
<1>1. RunInv => OneLiveRun
  BY DEF RunInv, Leasing, Launching, OneLiveRun
<1> QED BY <1>1, RunInvariant, PTL

(***************************************************************************)
(* 3. LeaseCustody                                                         *)
(*                                                                         *)
(* The properties are inductive together with what the table of            *)
(* transactions keeps: one row for each transaction, at most one receipt   *)
(* in it, which agrees with the outcome, and every receipt that was given  *)
(* out still in its row.                                                   *)
(***************************************************************************)
\* The swap itself: a sequence of leases, one longer than the fence token says.
HeadInv ==
  /\ fence \in Nat
  /\ \E S : head \in Seq(S)

IsRow(x) ==
  /\ x = [req |-> x.req, outcome |-> x.outcome, at |-> x.at, receipt |-> x.receipt]
  /\ x.outcome = "NOT_COMMITTED" => x.receipt # {}
  /\ \A c \in x.receipt : x.receipt = {c} /\ c.status = x.outcome

RowsInv ==
  /\ \A x \in rows : IsRow(x)
  /\ \A x, y \in rows : x.req = y.req => x = y

IssuedInv ==
  \A i \in issued : /\ i = [req |-> i.req, receipt |-> i.receipt]
                    /\ \E x \in rows : x.req = i.req /\ x.receipt = {i.receipt}

LeaseInv == HeadInv /\ RowsInv /\ IssuedInv /\ OneSuccessor

----------------------------------------------------------------------------
LEMMA InitInv == Init => LeaseInv
<1> SUFFICES ASSUME Init PROVE LeaseInv
  OBVIOUS
<1>1. PICK a \in Agents : head = <<Lease(a, 0)>>
  BY DEF Init
<1>2. head \in Seq({Lease(a, 0)}) /\ Len(head) = 1
  BY <1>1
<1>3. HeadInv
  BY <1>2, Zenon DEF HeadInv, Init
<1>4. OneSuccessor
  BY <1>2 DEF OneSuccessor, Committed, Init
<1> QED
  BY <1>3, <1>4 DEF LeaseInv, RowsInv, IssuedInv, Init

\* A transaction that leaves the table's committed rows and the head alone.
LEMMA SameHead ==
  ASSUME LeaseInv, UNCHANGED <<head, fence>>, Committed' = Committed
  PROVE  HeadInv' /\ OneSuccessor'
BY DEF LeaseInv, HeadInv, OneSuccessor

LEMMA CommitInv ==
  ASSUME LeaseInv, NEW r, NEW t, CommitHandoff(r, t)
  PROVE  LeaseInv'
<1> DEFINE row == [req |-> r, outcome |-> "COMMITTED", at |-> t, receipt |-> {}]
<1> USE DEF LeaseInv
<1>1. /\ rows' = rows \cup {row} /\ issued' = issued
      /\ \A x \in rows : x.req # r
  BY DEF CommitHandoff, RowsOf
<1>2. row.req = r /\ row.outcome = "COMMITTED" /\ IsRow(row)
  BY Zenon DEF IsRow
<1> HIDE DEF row
<1>3. RowsInv'
  BY <1>1, <1>2 DEF RowsInv
<1>4. IssuedInv'
  BY <1>1 DEF IssuedInv
<1>5. PICK S : head \in Seq(S)
  BY DEF HeadInv
<1>6. head' = Append(head, r.succ) /\ fence' = fence + 1 /\ r.fence = fence
  BY DEF CommitHandoff, Swaps
<1>7. HeadInv'
  <2>1. head' \in Seq(S \cup {r.succ})
    BY <1>5, <1>6
  <2> QED
    BY <2>1, <1>6 DEF HeadInv
<1>8. OneSuccessor'
  <2>1. Committed' = Committed \cup {r}
    BY <1>1, <1>2 DEF Committed
  <2>2. \A q \in Committed : q.fence \in 0..(fence - 1) /\ head[q.fence + 2] = q.succ
    BY DEF OneSuccessor
  <2>3. fence \in Nat /\ Len(head) = fence + 1
    BY DEF HeadInv, OneSuccessor
  <2>4. /\ Len(head') = fence' + 1
        /\ head'[fence + 2] = r.succ
        /\ \A k \in 1..(fence + 1) : head'[k] = head[k]
    BY <1>5, <1>6, <2>3
  <2>5. \A q \in Committed' : q.fence \in 0..(fence' - 1) /\ head'[q.fence + 2] = q.succ
    BY <2>1, <2>2, <2>3, <2>4, <1>6
  <2>6. \A q, s \in Committed' : q.fence = s.fence => q = s
    BY <2>1, <2>2, <2>3, <1>6 DEF OneSuccessor
  <2>7. \A k \in 0..(fence' - 1) : \E q \in Committed' : q.fence = k
    <3>1. \A k \in 0..(fence - 1) : \E q \in Committed : q.fence = k
      BY DEF OneSuccessor
    <3> QED
      BY <3>1, <2>1, <2>3, <1>6
  <2> QED
    BY <2>4, <2>5, <2>6, <2>7 DEF OneSuccessor
<1> QED
  BY <1>3, <1>4, <1>7, <1>8, Zenon

LEMMA RetireInv ==
  ASSUME LeaseInv, NEW r, Retire(r), UNCHANGED <<head, fence>>
  PROVE  LeaseInv'
<1> DEFINE receipt == Receipt("NOT_COMMITTED")
           row == [req |-> r, outcome |-> "NOT_COMMITTED", at |-> 0, receipt |-> {receipt}]
           slip == [req |-> r, receipt |-> receipt]
<1> USE DEF LeaseInv
<1>1. /\ rows' = rows \cup {row} /\ issued' = issued \cup {slip}
      /\ \A x \in rows : x.req # r
  BY DEF Retire, RowsOf
<1>2. receipt.status = "NOT_COMMITTED"
  BY DEF Receipt
<1> HIDE DEF receipt
<1>3. /\ row.req = r /\ row.outcome = "NOT_COMMITTED" /\ row.receipt = {receipt} /\ IsRow(row)
      /\ slip = [req |-> slip.req, receipt |-> slip.receipt] /\ slip.req = r /\ slip.receipt = receipt
  BY <1>2 DEF IsRow
<1> HIDE DEF row, slip
<1>4. RowsInv'
  BY <1>1, <1>3 DEF RowsInv
<1>5. IssuedInv'
  BY <1>1, <1>3 DEF IssuedInv
<1>6. Committed' = Committed
  BY <1>1, <1>3 DEF Committed
<1> QED
  BY <1>4, <1>5, <1>6, SameHead

LEMMA ConfirmInv ==
  ASSUME LeaseInv, NEW r, NEW t, Confirm(r, t), UNCHANGED <<head, fence>>
  PROVE  LeaseInv'
<1> DEFINE receipt == Receipt("COMMITTED")
           slip == [req |-> r, receipt |-> receipt]
<1> USE DEF LeaseInv
<1>1. PICK old \in rows :
        /\ old.req = r /\ old.outcome = "COMMITTED" /\ old.receipt = {}
        /\ rows' = (rows \ {old}) \cup {[old EXCEPT !.receipt = {receipt}]}
        /\ issued' = issued \cup {slip}
  BY DEF Confirm, RowsOf
<1> DEFINE new == [old EXCEPT !.receipt = {receipt}]
<1>2. receipt.status = "COMMITTED"
  BY DEF Receipt
<1> HIDE DEF receipt
<1>3. old = [req |-> old.req, outcome |-> old.outcome, at |-> old.at, receipt |-> old.receipt]
  BY DEF RowsInv, IsRow
<1>4. /\ new.req = r /\ new.outcome = "COMMITTED" /\ new.receipt = {receipt} /\ IsRow(new)
      /\ slip = [req |-> slip.req, receipt |-> slip.receipt] /\ slip.req = r /\ slip.receipt = receipt
  BY <1>1, <1>2, <1>3 DEF IsRow
<1>5. rows' = (rows \ {old}) \cup {new}
  BY <1>1
<1> HIDE DEF new, slip
<1>6. RowsInv'
  BY <1>1, <1>4, <1>5 DEF RowsInv
<1>7. IssuedInv'
  BY <1>1, <1>4, <1>5 DEF IssuedInv, RowsInv
<1>8. Committed' = Committed
  BY <1>1, <1>4, <1>5 DEF Committed
<1> QED
  BY <1>6, <1>7, <1>8, SameHead

LEMMA RepeatInv ==
  ASSUME LeaseInv, NEW r, Repeat(r), UNCHANGED <<head, fence>>
  PROVE  LeaseInv'
<1> USE DEF LeaseInv
<1>1. PICK x \in rows : \E c \in x.receipt : /\ x.req = r /\ rows' = rows
                                             /\ issued' = issued \cup {[req |-> r, receipt |-> c]}
  BY DEF Repeat, RowsOf
<1>2. PICK c \in x.receipt : issued' = issued \cup {[req |-> r, receipt |-> c]}
  BY <1>1
<1>3. x.receipt = {c}
  BY <1>2 DEF RowsInv, IsRow
<1>4. RowsInv'
  BY <1>1 DEF RowsInv
<1>5. IssuedInv'
  BY <1>1, <1>2, <1>3 DEF IssuedInv
<1>6. Committed' = Committed
  BY <1>1 DEF Committed
<1> QED
  BY <1>4, <1>5, <1>6, SameHead

LEMMA NextInv == LeaseInv /\ [Next]_vars => LeaseInv'
<1> SUFFICES ASSUME LeaseInv, [Next]_vars PROVE LeaseInv'
  OBVIOUS
<1>1. CASE UNCHANGED <<head, fence, rows, issued>>
  <2>1. Committed' = Committed
    BY <1>1 DEF Committed
  <2> QED
    BY <1>1, <2>1, SameHead, Zenon DEF LeaseInv, RowsInv, IssuedInv
<1>2. ASSUME NEW r \in sent, NEW t \in Times, CommitHandoff(r, t)
      PROVE  LeaseInv'
  BY <1>2, CommitInv
<1>3. ASSUME NEW r \in sent, NEW t \in Times, Reconcile(r, t)
      PROVE  LeaseInv'
  BY <1>3, RetireInv, ConfirmInv, RepeatInv DEF Reconcile
<1> QED
  BY <1>1, <1>2, <1>3 DEF Next, Draft, Tick, vars

----------------------------------------------------------------------------
\* The inductive invariant holds in every reachable state.
THEOREM LeaseInvariant == Spec => []LeaseInv
BY InitInv, NextInv, PTL DEF Spec

\* The committed handoffs are the chain of heads, one for each fence token, whatever
\* else is handed to commit_handoff, late or again.
THEOREM CustodyOneSuccessor == Spec => []OneSuccessor
<1>1. LeaseInv => OneSuccessor
  BY DEF LeaseInv
<1> QED
  BY <1>1, LeaseInvariant, PTL

\* What reconcile_commit_unknown said of a handoff stays true: its tombstones keep a
\* retired handoff from being committed later.
THEOREM CustodyReceiptsStayTrue == Spec => []ReceiptsStayTrue
<1>1. LeaseInv => ReceiptsStayTrue
  <2> SUFFICES ASSUME LeaseInv, NEW i \in issued
               PROVE  (i.receipt.status = "COMMITTED") <=> (i.req \in Committed)
    BY DEF ReceiptsStayTrue
  <2>1. PICK x \in rows : x.req = i.req /\ x.receipt = {i.receipt}
    BY DEF LeaseInv, IssuedInv
  <2>2. i.receipt.status = x.outcome
    BY <2>1 DEF LeaseInv, RowsInv, IsRow
  <2>3. i.req \in Committed <=> x.outcome = "COMMITTED"
    BY <2>1 DEF Committed, LeaseInv, RowsInv
  <2> QED
    BY <2>2, <2>3
<1> QED
  BY <1>1, LeaseInvariant, PTL

\* All who reconcile one handoff are given the same receipt.
THEOREM CustodyOneReceipt == Spec => []OneReceipt
<1>1. LeaseInv => OneReceipt
  <2> SUFFICES ASSUME LeaseInv, NEW i \in issued, NEW j \in issued, i.req = j.req
               PROVE  i = j
    BY DEF OneReceipt
  <2>1. PICK x \in rows : x.req = i.req /\ x.receipt = {i.receipt}
    BY DEF LeaseInv, IssuedInv
  <2>2. PICK y \in rows : y.req = j.req /\ y.receipt = {j.receipt}
    BY DEF LeaseInv, IssuedInv
  <2>3. x = y
    BY <2>1, <2>2 DEF LeaseInv, RowsInv
  <2>4. i.receipt = j.receipt
    BY <2>1, <2>2, <2>3
  <2>5. i = [req |-> i.req, receipt |-> i.receipt] /\ j = [req |-> j.req, receipt |-> j.receipt]
    BY DEF LeaseInv, IssuedInv
  <2> QED
    BY <2>4, <2>5
<1> QED
  BY <1>1, LeaseInvariant, PTL

=============================================================================
