-------------------------- MODULE OperationRecovery --------------------------
(***************************************************************************)
(* The delivery of one admitted operation (an event append or a turn       *)
(* close): RecoveryClient.execute (recovery_client.py) over the client's   *)
(* OperationLedger (operation_ledger.py), and the server's side of it,     *)
(* _operation_call and _operation_status (operation_status.py).            *)
(*                                                                         *)
(* Several client processes may hold the operation at once: a restart      *)
(* while the old process still waits.  Each ledger call is one transaction.*)
(* A request that was sent may be lost, denied, answered, or carried out   *)
(* long after its sender gave up.  The backend either refuses a second     *)
(* event of the same UID or does not (opDedup): AtomicAppendDedup.verified *)
(* tells which, and a turn close always is such a backend.                 *)
(***************************************************************************)
EXTENDS Naturals

CONSTANTS Clients, MaxAttempts   \* max_attempts of claim_send

ASSUME AttemptsAssumption == MaxAttempts \in Nat

VARIABLES
  opRow,       \* the client's ledger row
  opClient,    \* opClient[p]: where execute is, and its local variables
  opRequest,   \* opRequest[n]: the request of the n-th send, at the server
  opReply,     \* opReply[n]: the answer to it
  opSaved,     \* the state of the server's ledger row
  opEffects,   \* canonical effects of the operation
  opDedup      \* the backend refuses a second effect

opVars == <<opRow, opClient, opRequest, opReply, opSaved, opEffects, opDedup>>

Sends == 1..MaxAttempts
AtRest == [pc |-> "rest", seen |-> "none", restored |-> FALSE, send |-> 0, heard |-> "none"]

OpInit ==
  /\ opRow = [state |-> "none", attempts |-> 0]
  /\ opClient = [p \in Clients |-> AtRest]
  /\ opRequest = [n \in Sends |-> "unsent"]
  /\ opReply = [n \in Sends |-> "none"]
  /\ opSaved = "none"
  /\ opEffects = 0
  /\ opDedup \in BOOLEAN

ClientAt(p, pc) == opClient[p].pc = pc
Raises(p) == opClient' = [opClient EXCEPT ![p] = AtRest]

\* What execute does not read again is dropped.
Moves(p, pc) ==
  IF pc = "rest" THEN Raises(p)
  ELSE opClient' = [opClient EXCEPT ![p] = [AtRest EXCEPT !.pc = pc, !.restored = opClient[p].restored]]
ServerSame == UNCHANGED <<opRequest, opReply, opSaved, opEffects, opDedup>>

----------------------------------------------------------------------------
(* OperationLedger.                                                        *)

\* TRANSITIONS, without "blocked", which nobody marks.
Transitions ==
  [none |-> {}, archived |-> {}, committed |-> {},
   prepared |-> {"sending", "committed"},
   sending |-> {"known-unsent", "unknown", "committed"},
   known_unsent |-> {"sending", "committed"},
   unknown |-> {"reconciled-absent", "committed"},
   reconciled_absent |-> {"sending", "committed"}]

Key(state) == IF state = "known-unsent" THEN "known_unsent"
              ELSE IF state = "reconciled-absent" THEN "reconciled_absent" ELSE state

\* mark: the transition is made, or it raises.
CanMark(state) == state \in Transitions[Key(opRow.state)]
Marked(state) == opRow' = [opRow EXCEPT !.state = state]
MarkOrRaise(p, state, pc) ==
  IF CanMark(state) THEN Marked(state) /\ Moves(p, pc) ELSE Raises(p) /\ UNCHANGED opRow

\* claim_send
ClaimSend(p) ==
  /\ ClientAt(p, "claim")
  /\ IF CanMark("sending") /\ opRow.attempts < MaxAttempts
     THEN /\ opRow' = [state |-> "sending", attempts |-> opRow.attempts + 1]
          /\ opClient' = [opClient EXCEPT ![p] =
                            [AtRest EXCEPT !.pc = "send", !.restored = opClient[p].restored,
                                           !.send = opRow.attempts + 1]]
     ELSE Raises(p) /\ UNCHANGED opRow
  /\ ServerSame

\* The payload of a completed operation is dropped when another one is prepared.
ArchiveClient ==
  /\ opRow.state = "committed"
  /\ Marked("archived")
  /\ UNCHANGED opClient /\ ServerSame

ArchiveServer ==
  /\ opSaved = "committed"
  /\ opSaved' = "archived"
  /\ UNCHANGED <<opRow, opClient, opRequest, opReply, opEffects, opDedup>>

----------------------------------------------------------------------------
(* RecoveryClient.execute.                                                 *)

\* The start, up to the branch on the state that prepare returned.
ExecuteOp(p, requiresRestore) ==
  LET seen == IF opRow.state = "none" THEN "prepared" ELSE opRow.state
      asks == requiresRestore \/ seen \in {"unknown", "sending", "committed"}
  IN /\ ClientAt(p, "rest")
     /\ opRow.state # "archived"
     /\ opRow' = [opRow EXCEPT !.state = seen]
     /\ opClient' = [opClient EXCEPT ![p] =
                       [AtRest EXCEPT !.pc = IF asks THEN "status" ELSE "claim", !.seen = seen]]
     /\ ServerSame

\* Mutated form: what the server took in counts as committed.
ObservedTaken == IF opSaved # "none" THEN {"committed"} ELSE {"absent"}

\* What _operation_status can find: the effect, or its absence.
Observed == IF opEffects > 0 THEN {"committed"} ELSE {"absent"}

\* status(): the answer may be stale when it is used.  A server that cannot read its
\* stores answers "unknown".
AskStatus(p) ==
  /\ opClient[p].pc \in {"status", "recheck", "witness"}
  /\ \E heard \in Observed \cup {"unknown"} :
       opClient' = [opClient EXCEPT ![p].pc = CASE @ = "status" -> "settle"
                                               [] @ = "recheck" -> "resolve"
                                               [] @ = "witness" -> "confirm",
                                    ![p].heard = heard]
  /\ UNCHANGED opRow /\ ServerSame

\* committed(): a row that is committed already keeps its receipt.
HeardCommitted(p) ==
  /\ opClient[p].pc \in {"settle", "resolve", "confirm"}
  /\ opClient[p].heard = "committed"
  /\ Raises(p)
  /\ IF CanMark("committed") THEN Marked("committed") ELSE UNCHANGED opRow
  /\ ServerSame

\* replay_safe of _operation_status
ReplayProven == opDedup

FreshRow(p) == opClient[p].seen \in {"prepared", "known-unsent"}

\* A row found unresolved is given up on, or taken on to "absent" or to the restoration.
Settle(p) ==
  /\ ClientAt(p, "settle")
  /\ opClient[p].heard # "committed"
  /\ IF \/ opClient[p].heard # "absent"
        \/ ~FreshRow(p) /\ ~ReplayProven
        \/ opClient[p].seen = "committed"
     THEN Raises(p) /\ UNCHANGED opRow
     ELSE IF FreshRow(p) THEN Moves(p, "restore") /\ UNCHANGED opRow
     ELSE IF opClient[p].seen # "sending" THEN Moves(p, "absent") /\ UNCHANGED opRow
     ELSE MarkOrRaise(p, "unknown", "absent")
  /\ ServerSame

MarkAbsent(p) ==
  /\ ClientAt(p, "absent")
  /\ MarkOrRaise(p, "reconciled-absent", "restore")
  /\ ServerSame

Restore(p) ==
  /\ ClientAt(p, "restore")
  /\ opClient' = [opClient EXCEPT ![p] = [AtRest EXCEPT !.pc = "claim", !.restored = TRUE]]
  /\ UNCHANGED opRow /\ ServerSame

Send(p) ==
  /\ ClientAt(p, "send")
  /\ opClient' = [opClient EXCEPT ![p].pc = "wait"]
  /\ opRequest' = [opRequest EXCEPT ![opClient[p].send] = "flying"]
  /\ UNCHANGED <<opRow, opReply, opSaved, opEffects, opDedup>>

\* A DeliveryFault with request_sent false, and a denial before any write: once more, if
\* the session was not restored before.
Unsent(p) ==
  /\ ClientAt(p, "send") \/ (ClientAt(p, "wait") /\ opReply[opClient[p].send] = "denied"
                         /\ ~opClient[p].restored)
  /\ \/ MarkOrRaise(p, "known-unsent", IF opClient[p].restored THEN "rest" ELSE "restore")
     \/ MarkOrRaise(p, "known-unsent", "rest")
  /\ ServerSame

\* A DeliveryFault with request_sent true: the answer did not come, or too late.
Unanswered(p) ==
  /\ ClientAt(p, "wait")
  /\ \E pc \in {"recheck", "rest"} : MarkOrRaise(p, "unknown", pc)
  /\ ServerSame

Resolve(p) ==
  /\ ClientAt(p, "resolve")
  /\ opClient[p].heard # "committed"
  /\ IF opClient[p].heard = "absent" /\ ReplayProven
     THEN MarkOrRaise(p, "reconciled-absent", IF opClient[p].restored THEN "rest" ELSE "restore")
     ELSE Raises(p) /\ UNCHANGED opRow
  /\ ServerSame

\* An answer: a receipt that validates, or one that proves nothing.
Answered(p) ==
  LET reply == opReply[opClient[p].send]
  IN /\ ClientAt(p, "wait")
     /\ \/ reply = "receipt" /\ MarkOrRaise(p, "committed", "rest")
        \/ reply = "unproven" /\ MarkOrRaise(p, "unknown", "witness")
        \/ reply = "error" /\ MarkOrRaise(p, "unknown", "rest")
        \/ reply = "denied" /\ opClient[p].restored /\ MarkOrRaise(p, "unknown", "rest")
     /\ ServerSame

NotConfirmed(p) ==
  /\ ClientAt(p, "confirm")
  /\ opClient[p].heard # "committed"
  /\ Raises(p)
  /\ UNCHANGED opRow /\ ServerSame

\* The process ends, or a call of it raises.
ClientStops(p) ==
  /\ ~ClientAt(p, "rest")
  /\ Raises(p)
  /\ UNCHANGED opRow /\ ServerSame

----------------------------------------------------------------------------
(* The server.                                                             *)

Replies(n, reply) ==
  /\ opReply' = [opReply EXCEPT ![n] = reply]
  /\ opRequest' = [opRequest EXCEPT ![n] = "over"]

\* The request is lost, or the server dies with it.
Drop(n) ==
  /\ opRequest[n] \in {"flying", "taken", "acted"}
  /\ opRequest' = [opRequest EXCEPT ![n] = "over"]
  /\ UNCHANGED <<opRow, opClient, opReply, opSaved, opEffects, opDedup>>

\* _operation_call up to the call: the session guard denies, or the row is prepared; a
\* committed row is answered from its receipt, an archived one refused.
Arrive(n) ==
  /\ opRequest[n] = "flying"
  /\ \/ Replies(n, "denied") /\ UNCHANGED opSaved
     \/ opSaved = "committed" /\ Replies(n, "receipt") /\ UNCHANGED opSaved
     \/ opSaved = "archived" /\ Replies(n, "error") /\ UNCHANGED opSaved
     \/ /\ opSaved \in {"none", "prepared"}
        /\ opSaved' = "prepared"
        /\ opRequest' = [opRequest EXCEPT ![n] = "taken"]
        /\ UNCHANGED opReply
  /\ UNCHANGED <<opRow, opClient, opEffects, opDedup>>

\* The call: it fails without an effect, or the backend takes or recognizes the event.
Effect(n) ==
  /\ opRequest[n] = "taken"
  /\ \/ Replies(n, "error") /\ UNCHANGED opEffects
     \/ /\ opRequest' = [opRequest EXCEPT ![n] = "acted"]
        /\ opEffects' = IF opDedup /\ opEffects > 0 THEN opEffects ELSE opEffects + 1
        /\ UNCHANGED opReply
  /\ UNCHANGED <<opRow, opClient, opSaved, opDedup>>

\* The rest of _operation_call: the row is committed, or the mark raises LedgerError and
\* the answer is given all the same; a receipt of a duplicate may lack what the client
\* validates.
Acknowledge(n) ==
  /\ opRequest[n] = "acted"
  /\ \E reply \in {"receipt", "unproven"} : Replies(n, reply)
  /\ \/ opSaved = "prepared" /\ opSaved' = "committed"
     \/ UNCHANGED opSaved
  /\ UNCHANGED <<opRow, opClient, opEffects, opDedup>>

ClientStep(p) ==
  \/ \E needed \in BOOLEAN : ExecuteOp(p, needed)
  \/ AskStatus(p) \/ HeardCommitted(p) \/ Settle(p) \/ MarkAbsent(p) \/ Restore(p)
  \/ ClaimSend(p) \/ Send(p) \/ Unsent(p) \/ Unanswered(p) \/ Resolve(p) \/ Answered(p)
  \/ NotConfirmed(p) \/ ClientStops(p)

OpNext ==
  \/ \E p \in Clients : ClientStep(p)
  \/ \E n \in Sends : Drop(n) \/ Arrive(n) \/ Effect(n) \/ Acknowledge(n)
  \/ ArchiveClient \/ ArchiveServer

----------------------------------------------------------------------------
\* An operation has at most one canonical effect, even on a backend that is not proven to
\* refuse a second one, and however late its requests arrive; and an operation that the
\* client's or the server's ledger has as committed has had its effect
\* (RecoveryClient.execute, _operation_status).
OneEffect ==
  /\ opEffects <= 1
  /\ opRow.state \in {"committed", "archived"} \/ opSaved \in {"committed", "archived"}
       => opEffects = 1
=============================================================================
