------------------------------ MODULE RunLedger ------------------------------
(***************************************************************************)
(* Governed headless runs (components/integrity-claude-code): the durable  *)
(* RunLedger (ledger.py) and ClaudeRun (launcher.py), which claims a run   *)
(* in it, launches the executor under a consumed permit (authority.py,     *)
(* winjob.py), and records a terminal state once the permit's report and   *)
(* journal are closed.                                                     *)
(*                                                                         *)
(* A request is the descriptor of one run: a session, and whether the run  *)
(* begins or resumes it.  A process has one ledger instance and makes one  *)
(* ClaudeRun; another thread of it may call cancel.  The ledger compares   *)
(* and sets in one transaction.  launch_lock is held by cancel from the    *)
(* flag to the record, and by the launcher around its two checks of the    *)
(* flag.                                                                   *)
(***************************************************************************)
EXTENDS Naturals, FiniteSets

CONSTANTS Requests, SessionOf(_), ModeOf(_), Runners

VARIABLES
  runRow,      \* runRow[r]: state and owner of the run of request r
  session,     \* session[s]: known, blocked, and the request that has its lease
  runner,      \* runner[p]: where ClaudeRun.execute of process p is
  cancelling,  \* cancelling[p]: no, flagged (holds launch_lock), done
  living,      \* requests whose executor process may be running
  launched     \* launched[r]: how often the executor of r was resumed

runVars == <<runRow, session, runner, cancelling, living, launched>>

Sessions == {SessionOf(r) : r \in Requests}
NoRequest == "none"

ASSUME RequestsAssumption == NoRequest \notin Requests

InFlight == {"claimed", "dispatching", "running", "cancel_requested"}
Holding == {"unknown", "stop_unverified"}

\* TRANSITIONS
RunTransitions ==
  [claimed |-> {"dispatching", "not_started", "unknown"},
   dispatching |-> {"running", "cancel_requested", "not_started"} \cup Holding,
   running |-> {"cancel_requested", "completed"} \cup Holding,
   cancel_requested |-> {"cancelled_stopped", "not_started"} \cup Holding]

RunInit ==
  /\ runRow = [r \in Requests |-> [state |-> "none", owner |-> NoRequest]]
  /\ session = [s \in Sessions |-> [known |-> FALSE, blocked |-> FALSE, lease |-> NoRequest]]
  /\ runner = [p \in Runners |-> [pc |-> "new"]]
  /\ cancelling = [p \in Runners |-> "no"]
  /\ living = {}
  /\ launched = [r \in Requests |-> 0]

RunnerAt(p, pc) == runner[p].pc = pc
Req(p) == runner[p].req
StateOf(p) == runRow[Req(p)].state
Cancelled(p) == cancelling[p] # "no"
LaunchLockFree(p) == cancelling[p] # "flagged"
Goes(p, pc) == runner' = [runner EXCEPT ![p].pc = pc]

----------------------------------------------------------------------------
(* RunLedger.                                                              *)

\* Mutated form: whoever resumes a session does not ask for its lease.
AdmitsUnleased(r) ==
  LET s == session[SessionOf(r)]
  IN IF ModeOf(r) = "new" THEN ~s.known ELSE s.known /\ ~s.blocked

\* The checks of claim on the session of a request that has no row yet.
AdmitsRun(r) ==
  LET s == session[SessionOf(r)]
  IN /\ IF ModeOf(r) = "new" THEN ~s.known ELSE s.known /\ ~s.blocked
     /\ s.lease = NoRequest

\* claim.  A request that has a row is answered from it or refused; that changes nothing.
ClaimRun(p, r) ==
  /\ RunnerAt(p, "new")
  /\ runRow[r].state = "none"
  /\ AdmitsRun(r)
  /\ runRow' = [runRow EXCEPT ![r] = [state |-> "claimed", owner |-> p]]
  /\ session' = [session EXCEPT ![SessionOf(r)].known = TRUE, ![SessionOf(r)].lease = r]
  /\ runner' = [runner EXCEPT ![p] = [pc |-> "claimed", req |-> r, target |-> "none",
                                      resumable |-> FALSE]]
  /\ UNCHANGED <<cancelling, living, launched>>

Releasing == {"completed", "not_started", "cancelled_stopped"}

\* Why a terminal state blocks its session.
Blocks(r, target, resumable) ==
  \/ target \in Holding
  \/ target = "not_started" /\ ModeOf(r) = "new"
  \/ target \in {"completed", "cancelled_stopped"} /\ ~resumable

\* advance, by the owner, to a terminal state; or it raises and leaves the row as it is.
Advance(p, source, target, resumable) ==
  LET r == Req(p)
      s == SessionOf(r)
  IN IF target \in RunTransitions[source] /\ runRow[r].owner = p
     THEN /\ runRow' = [runRow EXCEPT ![r].state = target]
          /\ session' = [session EXCEPT
               ![s].lease = IF target \in Releasing /\ @ = r THEN NoRequest ELSE @,
               ![s].blocked = @ \/ Blocks(r, target, resumable)]
     ELSE UNCHANGED <<runRow, session>>

----------------------------------------------------------------------------
(* ClaudeRun.                                                              *)

\* cancel: the flag, then the record, if a process may exist.
Flag(p) ==
  /\ cancelling[p] = "no"
  /\ ~RunnerAt(p, "dead")
  /\ cancelling' = [cancelling EXCEPT ![p] = "flagged"]
  /\ UNCHANGED <<runRow, session, runner, living, launched>>

RecordCancel(p) ==
  /\ cancelling[p] = "flagged"
  /\ ~RunnerAt(p, "dead")
  /\ cancelling' = [cancelling EXCEPT ![p] = "done"]
  /\ IF ~RunnerAt(p, "new") /\ StateOf(p) \in {"dispatching", "running"}
     THEN runRow' = [runRow EXCEPT ![Req(p)].state = "cancel_requested"]
     ELSE UNCHANGED runRow
  /\ UNCHANGED <<session, runner, living, launched>>

\* Cancelled before the launch, or the authority refuses: the run did not start.
Refused(p) ==
  /\ RunnerAt(p, "claimed")
  /\ Advance(p, StateOf(p), "not_started", FALSE)
  /\ Goes(p, "over")
  /\ UNCHANGED <<cancelling, living, launched>>

Pending(p, target, resumable) ==
  runner' = [runner EXCEPT ![p].pc = "report", ![p].target = target, ![p].resumable = resumable]

\* _launch, after the permit was consumed.
Launch(p) ==
  /\ RunnerAt(p, "claimed")
  /\ LaunchLockFree(p)
  /\ IF Cancelled(p)
     THEN Pending(p, "not_started", FALSE) /\ UNCHANGED <<runRow, session>>
     ELSE Advance(p, "claimed", "dispatching", FALSE) /\ Goes(p, "spawn")
  /\ UNCHANGED <<cancelling, living, launched>>

\* The suspended process is not resumed; its kill is verified or not.
NotResumed(p) ==
  /\ RunnerAt(p, "spawn")
  /\ LaunchLockFree(p)
  /\ \E target \in {"not_started"} \cup Holding : Pending(p, target, FALSE)
  /\ UNCHANGED <<runRow, session, cancelling, living, launched>>

ResumeThread(p) ==
  /\ RunnerAt(p, "spawn")
  /\ LaunchLockFree(p)
  /\ ~Cancelled(p)
  /\ living' = living \cup {Req(p)}
  /\ launched' = [launched EXCEPT ![Req(p)] = @ + 1]
  /\ Goes(p, "started")
  /\ UNCHANGED <<runRow, session, cancelling>>

\* on_started records the run as running, unless a cancel was recorded first.  When it
\* fails, the tree is terminated.
Started(p) ==
  /\ RunnerAt(p, "started")
  /\ Goes(p, "supervise")
  /\ runRow' \in {runRow, [runRow EXCEPT ![Req(p)].state = IF @ = "dispatching" THEN "running" ELSE @]}
  /\ UNCHANGED <<session, cancelling, living, launched>>

\* The end of JobProcess.run and of _spawn: the process tree is verified gone or it is
\* not, then the state is read and the outcome judged.
Judge(p) ==
  /\ RunnerAt(p, "supervise")
  /\ \/ /\ living' \in {living, living \ {Req(p)}}
        /\ Pending(p, "stop_unverified", FALSE)
     \/ /\ living' = living \ {Req(p)}
        /\ \/ Pending(p, "unknown", FALSE)
           \/ \E resumable \in BOOLEAN :
                Pending(p, CASE StateOf(p) = "dispatching" -> "unknown"
                             [] StateOf(p) = "cancel_requested" -> "cancelled_stopped"
                             [] StateOf(p) = "running" -> "completed", resumable)
           \/ /\ Cancelled(p) /\ StateOf(p) = "running"
              /\ \E resumable \in BOOLEAN : Pending(p, "cancelled_stopped", resumable)
  /\ UNCHANGED <<runRow, session, cancelling, launched>>

\* The executor report and the journal are closed, or one of them fails.
CloseLifecycle(p) ==
  /\ RunnerAt(p, "report")
  /\ \E pc \in {"finish", "settle"} : Goes(p, pc)
  /\ UNCHANGED <<runRow, session, cancelling, living, launched>>

\* _finish: a stop that nobody recorded as a cancel is recorded as one first.
Finish(p) ==
  LET target == runner[p].target
      source == IF target = "cancelled_stopped" /\ StateOf(p) = "running"
                THEN "cancel_requested" ELSE StateOf(p)
  IN /\ RunnerAt(p, "finish")
     /\ Advance(p, source, target, runner[p].resumable)
     /\ Goes(p, "over")
     /\ UNCHANGED <<cancelling, living, launched>>

\* _settle_unknown
SettleUnknown(p) ==
  LET target == IF runner[p].target \in Holding THEN runner[p].target ELSE "unknown"
  IN /\ RunnerAt(p, "settle")
     /\ Advance(p, StateOf(p), target, FALSE)
     /\ Goes(p, "over")
     /\ UNCHANGED <<cancelling, living, launched>>

\* The supervising process dies; its job object takes the executor with it, or fails to.
Dies(p) ==
  /\ ~RunnerAt(p, "dead")
  /\ runner' = [runner EXCEPT ![p] = [pc |-> "dead"]]
  /\ living' \in {living} \cup (IF RunnerAt(p, "new") THEN {} ELSE {living \ {Req(p)}})
  /\ UNCHANGED <<runRow, session, cancelling, launched>>

RunNext ==
  \E p \in Runners :
    \/ \E r \in Requests : ClaimRun(p, r)
    \/ Flag(p) \/ RecordCancel(p) \/ Refused(p) \/ Launch(p) \/ NotResumed(p)
    \/ ResumeThread(p) \/ Started(p) \/ Judge(p) \/ CloseLifecycle(p) \/ Finish(p)
    \/ SettleUnknown(p) \/ Dies(p)

----------------------------------------------------------------------------
\* "One live run per session" (ledger.py): the executors of a session never overlap, even
\* when a supervisor dies or cannot verify a stop, and the executor of a request is
\* resumed at most once, whatever its duplicates and its cancel do.
OneLiveRun ==
  /\ \A r, q \in living : SessionOf(r) = SessionOf(q) => r = q
  /\ \A r \in Requests : launched[r] <= 1

\* What the comment on the ledger promises of a finished run, and the launcher of one
\* whose report could not be closed: when execute is over, in a process that lives, the
\* run has left the states in which a duplicate is refused as in flight.
FinishedIsTerminal ==
  \A p \in Runners : RunnerAt(p, "over") => StateOf(p) \notin InFlight
=============================================================================
