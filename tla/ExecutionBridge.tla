--------------------------- MODULE ExecutionBridge ---------------------------
(***************************************************************************)
(* The execution bridge for one registered task: Bridge and DeliveryCache  *)
(* (gateway.py) over Job and CodexExecutor (executor.py).  Threads that    *)
(* serve calls, the watcher, the callbacks of the RPC channel and close    *)
(* interleave; the process may end at any point and be started again over  *)
(* the same delivery cache, while commands it started run on.              *)
(*                                                                         *)
(* An operation is named by its operation_id, and a job by the operation   *)
(* that started it.  The commands themselves, the app-server, the owner's  *)
(* control and the permits of the adapter SDK are external.                *)
(***************************************************************************)
EXTENDS Naturals, FiniteSets

CONSTANTS Operations,
          KindOf(_),     \* "replace", "start" or "write"
          JobOf(_),      \* the job a "write" is for
          Threads,       \* threads that serve calls
          MaxRestarts    \* bound on restarts of the process

VARIABLES
  bridge,     \* [closed, stopped, uncertain, restarts]; stopped: close has returned
  delivery,   \* delivery[o]: the state of o's row in the cache
  serving,    \* serving[t]: where thread t is in call, and the operation it serves
  job,        \* job[o]: the Job of a started command, with what the runtime keeps of it
  channel,    \* the RPC channel is up
  control,    \* the owner's control and the deadline admit effects
  command,    \* command[o]: "none", "running" or "ended"
  begun       \* begun[o]: how often the effect of o was begun

bridgeVars == <<bridge, delivery, serving, job, channel, control, command, begun>>

\* Job ids are derived from the operations that start them.
Jobs == {o \in Operations : KindOf(o) = "start"}

Unserved == [at |-> "idle", op |-> "none"]

\* known: job_operations has it; recorded: its end is in the cache.
NoJob == [state |-> "none", stop |-> "no", known |-> FALSE, recorded |-> FALSE]

BridgeInit ==
  /\ bridge = [closed |-> FALSE, stopped |-> FALSE, uncertain |-> FALSE, restarts |-> 0]
  /\ delivery = [o \in Operations |-> "none"]
  /\ serving = [t \in Threads |-> Unserved]
  /\ job = [o \in Operations |-> NoJob]
  /\ channel = TRUE /\ control = TRUE
  /\ command = [o \in Operations |-> "none"]
  /\ begun = [o \in Operations |-> 0]

Kind(t) == KindOf(serving[t].op)
Serves(t, at) == serving[t].at = at
Proceeds(t, at) == serving' = [serving EXCEPT ![t].at = at]
Returns(t) == serving' = [serving EXCEPT ![t] = Unserved]
Outside == UNCHANGED <<channel, control, command, begun>>

\* _current(runtime, effect=True)
EffectsAllowed == ~bridge.closed /\ ~bridge.uncertain /\ control

\* launch_lock of the runtime, and admission_lock of a job: taken for the whole call.
LockOf(o) == IF KindOf(o) = "write" THEN JobOf(o) ELSE "workspace"
LockFree(lock) == \A t \in Threads : Serves(t, "idle") \/ LockOf(serving[t].op) # lock

\* _dispatch_lock: held by a thread between its last check and the end of its action.
DispatchFree == \A t \in Threads : ~Serves(t, "act")

(***************************************************************************)
(* record, as the callers use it: a row that is prepared or running is     *)
(* settled.  The write may fail.                                           *)
(***************************************************************************)
Settles(o, state) == delivery' = [delivery EXCEPT ![o] = state]

----------------------------------------------------------------------------
(* Jobs.                                                                   *)

\* Job.stop: one request, none for a command that has exited.
Stopped(j) == IF j.state = "reported_exit" \/ j.stop # "no" \/ j.state = "none" THEN j
              ELSE [j EXCEPT !.stop = "asked"]

\* Mutated form: a stop that is not answered is waited for.
TickedPatient(j, revoked) ==
  IF j.state # "submitted" THEN j ELSE IF revoked THEN Stopped(j) ELSE j

\* Job.tick
Ticked(j, revoked) ==
  IF j.state # "submitted" THEN j
  ELSE IF j.stop = "overdue" THEN [j EXCEPT !.state = "unknown"]
  ELSE IF revoked THEN Stopped(j) ELSE j

\* The jobs _sync_job writes to the cache.
Unrecorded(o, j) == j.known /\ ~j.recorded /\ j.state \in {"unknown", "reported_exit"}

(***************************************************************************)
(* _sync_job on the jobs js of a set of operations.  failing are those     *)
(* whose evidence cannot be written, lost those of them for which not even *)
(* "unknown" can be.                                                       *)
(***************************************************************************)
Sync(ops, js, failing, lost) ==
  LET due == {o \in ops : Unrecorded(o, js[o])}
  IN /\ failing \subseteq due /\ lost \subseteq failing
     /\ bridge' = [bridge EXCEPT !.uncertain =
                     @ \/ failing # {} \/ \E o \in ops : js[o].state = "unknown"]
     /\ delivery' = [o \in Operations |->
                       IF o \notin due \/ o \in lost THEN delivery[o]
                       ELSE IF o \in failing \/ js[o].state = "unknown" THEN "unknown"
                       ELSE "returned"]
     /\ job' = [o \in Operations |->
                  IF o \in failing THEN Stopped(js[o])
                  ELSE IF o \in due THEN [js[o] EXCEPT !.recorded = TRUE] ELSE js[o]]

\* One round of the watcher for one job; its deadline may have passed.
Watch(o) ==
  /\ ~bridge.closed
  /\ job[o].state # "none"
  /\ \E lapsed \in BOOLEAN, failing, lost \in SUBSET {o} :
       Sync({o}, [job EXCEPT ![o] = Ticked(@, ~EffectsAllowed \/ lapsed)], failing, lost)
  /\ UNCHANGED serving /\ Outside

\* command_read, which syncs the job it reads.
CommandRead(o) ==
  /\ ~bridge.closed
  /\ job[o].state # "none"
  /\ \E failing, lost \in SUBSET {o} : Sync({o}, job, failing, lost)
  /\ UNCHANGED serving /\ Outside

CommandStop(o) ==
  /\ ~bridge.closed
  /\ job[o].state # "none"
  /\ job' = [job EXCEPT ![o] = Stopped(@)]
  /\ UNCHANGED <<bridge, delivery, serving>> /\ Outside

JobBecomes(o, state) ==
  /\ job[o].state = "submitted"
  /\ job' = [job EXCEPT ![o].state = state]
  /\ UNCHANGED <<bridge, delivery, serving>>

\* Job.complete: the app-server reports the exit, or refuses the command.
Complete(o) ==
  /\ channel
  /\ \/ command[o] = "ended" /\ JobBecomes(o, "reported_exit")
     \/ JobBecomes(o, "unknown")
  /\ Outside

\* The request to terminate cannot be sent, or is not answered in time.
StopFails(o) == job[o].stop # "no" /\ JobBecomes(o, "unknown") /\ Outside

\* stop_deadline passes.
Overdue(o) ==
  /\ job[o].stop = "asked" /\ job[o].state = "submitted"
  /\ job' = [job EXCEPT ![o].stop = "overdue"]
  /\ UNCHANGED <<bridge, delivery, serving>> /\ Outside

\* RpcChannel._fail: every request that is pending ends in an exception.
Unanswered(js) ==
  [o \in Operations |->
     IF js[o].state = "submitted" THEN [js[o] EXCEPT !.state = "unknown"] ELSE js[o]]

ChannelFails ==
  /\ channel
  /\ channel' = FALSE
  /\ job' = Unanswered(job)
  /\ UNCHANGED <<bridge, delivery, serving, control, command, begun>>

----------------------------------------------------------------------------
(* call, for the tools that have an effect.                                *)

\* Every job of the runtime is known to have ended.
Reconciled(js) == \A o \in Operations : js[o].state \in {"none", "reported_exit"}

\* workspace_replace and command_start, up to _effect.
AdmitCall(t, o) ==
  /\ Serves(t, "idle") /\ ~bridge.closed
  /\ KindOf(o) # "write"
  /\ LockFree(LockOf(o))
  /\ \E failing, lost \in SUBSET Operations :
       Sync({p \in Operations : job[p].state # "none"}, job, failing, lost)
  /\ IF Reconciled(job) THEN serving' = [serving EXCEPT ![t] = [at |-> "current", op |-> o]]
                        ELSE UNCHANGED serving
  /\ Outside

\* command_write, up to _effect.
AdmitWrite(t, o) ==
  /\ Serves(t, "idle") /\ ~bridge.closed
  /\ KindOf(o) = "write" /\ job[JobOf(o)].state # "none"
  /\ LockFree(LockOf(o))
  /\ serving' = [serving EXCEPT ![t] = [at |-> "current", op |-> o]]
  /\ UNCHANGED <<bridge, delivery, job>> /\ Outside

\* The first check of _effect.
CheckCurrent(t) ==
  /\ Serves(t, "current")
  /\ IF EffectsAllowed THEN Proceeds(t, "reserve") ELSE Returns(t)
  /\ UNCHANGED <<bridge, delivery, job>> /\ Outside

\* Mutated form: an operation that is over may be repeated.
ReservableOver(o) == delivery[o] \notin {"prepared", "running"}

\* reserve: one row for an operation, for ever.
Reservable(o) == delivery[o] = "none"

Reserve(t) ==
  LET o == serving[t].op
  IN /\ Serves(t, "reserve")
     /\ IF Reservable(o) THEN Settles(o, "prepared") /\ Proceeds(t, "invoke")
                         ELSE Returns(t) /\ UNCHANGED delivery
     /\ UNCHANGED <<bridge, job>> /\ Outside

\* The invoker raises before it calls back, or guarded refuses: nothing was dispatched.
Refuse(t) ==
  LET o == serving[t].op
  IN /\ Serves(t, "invoke")
     /\ \/ Settles(o, "rejected") /\ UNCHANGED bridge
        \/ UNCHANGED delivery /\ bridge' = [bridge EXCEPT !.uncertain = TRUE]
     /\ Returns(t)
     /\ UNCHANGED job /\ Outside

\* Mutated form: whether the bridge was closed is not asked again.
MayDispatchClosed == control /\ ~bridge.uncertain

MayDispatch == EffectsAllowed

\* guarded, once it has the dispatch lock: the last check, and the row.
Guarded(t) ==
  /\ Serves(t, "invoke")
  /\ DispatchFree
  /\ MayDispatch
  /\ Settles(serving[t].op, "running")
  /\ Proceeds(t, "act")
  /\ UNCHANGED <<bridge, job>> /\ Outside

Begins(o) == begun' = [begun EXCEPT ![o] = @ + 1]

\* CodexExecutor.start: the request is sent and answered later, or it may have been
\* sent and the channel fails.
LaunchCommand(t) ==
  LET o == serving[t].op
      submitted == [job EXCEPT ![o] = [NoJob EXCEPT !.state = "submitted"]]
  IN /\ channel
     /\ \/ /\ Begins(o) /\ command' = [command EXCEPT ![o] = "running"]
           /\ job' = submitted /\ UNCHANGED channel
        \/ /\ channel' = FALSE /\ job' = Unanswered(submitted)
           /\ \/ Begins(o) /\ command' = [command EXCEPT ![o] = "running"]
              \/ UNCHANGED <<begun, command>>
     /\ Proceeds(t, "done")

\* Workspace.replace is over when it returns; Job.write is answered or not.
Edit(t) ==
  LET o == serving[t].op
  IN /\ Kind(t) = "write" =>
          channel /\ job[JobOf(o)].state = "submitted" /\ job[JobOf(o)].stop = "no"
     /\ Begins(o)
     /\ Proceeds(t, "done") \/ Proceeds(t, "raised")
     /\ UNCHANGED <<job, channel, command>>

\* action(), under the dispatch lock; it may raise before it does anything.
Act(t) ==
  /\ Serves(t, "act")
  /\ \/ Kind(t) = "start" /\ LaunchCommand(t)
     \/ Kind(t) # "start" /\ Edit(t)
     \/ Proceeds(t, "raised") /\ UNCHANGED <<job, channel, command, begun>>
  /\ UNCHANGED <<bridge, delivery, control>>

\* The row of an operation whose action raised.
AfterRaise == "unknown"

\* The end of _effect.  The job of a command is entered in job_operations; the row of
\* anything else is settled, and a failure to do so is treated like an exception.
FinishEffect(t) ==
  LET o == serving[t].op
  IN /\ \/ /\ Serves(t, "done") /\ Kind(t) = "start"
           /\ job' = [job EXCEPT ![o].known = TRUE]
           /\ UNCHANGED <<bridge, delivery>>
        \/ /\ Serves(t, "done") /\ Kind(t) # "start"
           /\ Settles(o, "returned")
           /\ UNCHANGED <<bridge, job>>
        \/ /\ Serves(t, "raised") \/ (Serves(t, "done") /\ Kind(t) # "start")
           /\ bridge' = [bridge EXCEPT !.uncertain = TRUE]
           /\ Settles(o, AfterRaise) \/ UNCHANGED delivery
           /\ UNCHANGED job
     /\ Returns(t)
     /\ Outside

----------------------------------------------------------------------------
\* Bridge.close sets _closed, and stops the jobs once it has the dispatch lock.
CloseAdmission ==
  /\ ~bridge.closed
  /\ bridge' = [bridge EXCEPT !.closed = TRUE]
  /\ UNCHANGED <<delivery, serving, job>> /\ Outside

CloseJobs ==
  /\ bridge.closed /\ ~bridge.stopped
  /\ DispatchFree
  /\ bridge' = [bridge EXCEPT !.stopped = TRUE]
  /\ job' = [o \in Operations |-> Stopped(job[o])]
  /\ UNCHANGED <<delivery, serving>> /\ Outside

\* DeliveryCache.__init__ on what an earlier process left.
Incomplete(state) == IF state \in {"prepared", "running"} THEN "unknown" ELSE state

\* Mutated form: a new process starts without a doubt.
UncertainAtFirst(rows) == FALSE

\* uncertain of the cache, as register asks it.
Uncertain(rows) == \E o \in Operations : rows[o] = "unknown"

\* The process ends, by itself or not; another one opens the cache and registers the
\* task, with a channel of its own.
Restart ==
  LET rows == [o \in Operations |-> Incomplete(delivery[o])]
  IN /\ bridge.restarts < MaxRestarts
     /\ delivery' = rows
     /\ bridge' = [closed |-> FALSE, stopped |-> FALSE, uncertain |-> Uncertain(rows),
                   restarts |-> bridge.restarts + 1]
     /\ serving' = [t \in Threads |-> Unserved]
     /\ job' = [o \in Operations |-> NoJob]
     /\ channel' = TRUE
     /\ UNCHANGED <<control, command, begun>>

\* A command comes to its end, stopped or not.
CommandEnds(o) ==
  /\ command[o] = "running"
  /\ command' = [command EXCEPT ![o] = "ended"]
  /\ UNCHANGED <<bridge, delivery, serving, job, channel, control, begun>>

\* The owner closes or reopens the control.
OwnerControls ==
  /\ control' = ~control
  /\ UNCHANGED <<bridge, delivery, serving, job, channel, command, begun>>

----------------------------------------------------------------------------
Serve(t) ==
  \/ \E o \in Operations : AdmitCall(t, o) \/ AdmitWrite(t, o)
  \/ CheckCurrent(t) \/ Reserve(t) \/ Refuse(t) \/ Guarded(t) \/ Act(t) \/ FinishEffect(t)

BridgeNext ==
  \/ \E t \in Threads : Serve(t)
  \/ \E o \in Jobs :
       \/ Watch(o) \/ CommandRead(o) \/ CommandStop(o)
       \/ Complete(o) \/ StopFails(o) \/ Overdue(o) \/ CommandEnds(o)
  \/ ChannelFails \/ CloseAdmission \/ CloseJobs \/ Restart \/ OwnerControls

\* The watcher thread goes round its jobs again and again, and the time given to a
\* stop passes.
BridgeFairness == \A o \in Jobs : WF_bridgeVars(Watch(o)) /\ WF_bridgeVars(Overdue(o))

----------------------------------------------------------------------------
Running == {o \in Operations : command[o] = "running"}

\* "Single mutable workspace owner": a command is started, or a file replaced, only
\* when no command of the task can still be running, not even one that an earlier
\* process started, whose end was never reported, or whose end could not be recorded.
SoleWriter ==
  [][\A o \in Operations :
       begun'[o] # begun[o] /\ KindOf(o) # "write" => Running = {}]_bridgeVars

\* An operation takes effect at most once, whatever is repeated after a refusal, an
\* exception or a restart, and the cache does not lie about it: a rejected operation
\* had no effect, and one that returned had, and if it is a command, it has ended.
DeliveredOnce ==
  \A o \in Operations :
    /\ begun[o] <= 1
    /\ delivery[o] \in {"none", "prepared", "rejected"} => begun[o] = 0
    /\ delivery[o] = "returned" => begun[o] = 1 /\ command[o] # "running"

\* close "orders the job snapshot after every already-entered sink": when it has
\* returned, every command of this process that may still run was asked to stop, and
\* no effect is begun after that.
ClosedMeansStopped ==
  bridge.stopped =>
    /\ DispatchFree
    /\ \A o \in Operations : job[o].state = "submitted" => job[o].stop # "no"

\* The watcher lets no command run on unattended: when the owner's control is closed
\* or the runtime is in doubt, a point is reached at which every job is settled (or
\* at least given up as unknown), unless effects are allowed again or the bridge is
\* closed, which ends the watcher.
JobsSettle ==
  ~EffectsAllowed
    ~> \/ \A o \in Jobs : job[o].state # "submitted"
       \/ EffectsAllowed \/ bridge.closed
==============================================================================
