--------------------------- MODULE CustodyProofs ----------------------------
(***************************************************************************)
(* Proofs that what is asked for once is done once: an operation whose     *)
(* outcome may stay unknown (OperationRecovery), for any number of clients *)
(* and attempts; and the custody of intents and the report a consumption   *)
(* is closed with (IntentCustody, Reconciler), for any number of           *)
(* processes, intents, planned changes and observations.                   *)
(***************************************************************************)
EXTENDS OperationRecovery, IntentCustody, TLAPS

(***************************************************************************)
(* 1. OperationRecovery                                                    *)
(***************************************************************************)
OpSpec == OpInit /\ [][OpNext]_opVars

----------------------------------------------------------------------------
RowStates == {"none", "prepared", "sending", "known-unsent", "unknown", "reconciled-absent",
              "committed", "archived"}
Pcs == {"rest", "status", "recheck", "witness", "settle", "resolve", "confirm", "absent",
        "restore", "claim", "send", "wait"}

OpType ==
  /\ opRow \in [state: RowStates, attempts: 0..MaxAttempts]
  /\ opClient \in [Clients -> [pc: Pcs, seen: RowStates, restored: BOOLEAN, send: 0..MaxAttempts,
                               heard: {"none", "committed", "absent", "unknown"}]]
  /\ opRequest \in [Sends -> {"unsent", "flying", "taken", "acted", "over"}]
  /\ opReply \in [Sends -> {"none", "denied", "receipt", "error", "unproven"}]
  /\ opSaved \in {"none", "prepared", "committed", "archived"}
  /\ opEffects \in Nat
  /\ opDedup \in BOOLEAN

\* A client that is about to send its n-th request, or waits for the answer to it.
SendsOut(p) == opClient[p].pc \in {"send", "wait"}

\* An attempt belongs to one client, and what is said of it at the server is true.
Numbered ==
  /\ \A p \in Clients : SendsOut(p) =>
       /\ opClient[p].send \in 1..opRow.attempts
       /\ \A q \in Clients : SendsOut(q) /\ opClient[q].send = opClient[p].send => q = p
  /\ \A p \in Clients : opClient[p].pc = "send" => opRequest[opClient[p].send] = "unsent"
  /\ \A n \in Sends : /\ n > opRow.attempts => opRequest[n] = "unsent"
                      /\ opReply[n] # "none" => opRequest[n] = "over"

\* Whoever says that the operation was carried out is right.
Evident ==
  (\/ opRow.state \in {"committed", "archived"}
   \/ opSaved \in {"committed", "archived"}
   \/ \E p \in Clients : opClient[p].heard = "committed"
   \/ \E n \in Sends : opRequest[n] = "acted" \/ opReply[n] \in {"receipt", "unproven"})
  => opEffects > 0

\* An attempt that nothing will come of any more.
Harmless(n) ==
  /\ opRequest[n] \in {"unsent", "over"}
  /\ \A p \in Clients : SendsOut(p) => opClient[p].send # n

Quiet == opRow.state \in {"none", "prepared", "known-unsent"}

\* On a backend that would take an event twice, only the latest attempt can have an
\* effect, and none is made after one that may have had it.
Cautious ==
  /\ opRow.state # "reconciled-absent"
  /\ \A p \in Clients : opClient[p].pc # "absent"
  /\ \A n \in Sends : n < opRow.attempts \/ Quiet => Harmless(n)
  /\ Quiet => opEffects = 0
  /\ opEffects > 0 => /\ opRow.attempts \in Sends
                      /\ opRequest[opRow.attempts] \in {"acted", "over"}
                      /\ opReply[opRow.attempts] # "denied"

OpInv ==
  /\ OpType /\ Numbered /\ Evident
  /\ opEffects <= 1
  /\ ~opDedup => Cautious

----------------------------------------------------------------------------
(* Lemmas.                                                                 *)

ClientRecord == [pc: Pcs, seen: RowStates, restored: BOOLEAN, send: 0..MaxAttempts,
                 heard: {"none", "committed", "absent", "unknown"}]

LEMMA AtRestType == AtRest \in ClientRecord /\ AtRest.pc = "rest" /\ AtRest.heard = "none"
BY AttemptsAssumption DEF AtRest, ClientRecord, Pcs, RowStates

\* A step of execute that neither claims an attempt nor sends.
LEMMA LocalStep ==
  ASSUME OpInv, NEW p \in Clients, NEW c \in ClientRecord,
         opClient' = [opClient EXCEPT ![p] = c],
         c.pc \notin {"send", "wait"},
         c.heard = "committed" => opEffects > 0,
         opRow' \in [state: RowStates, attempts: 0..MaxAttempts],
         opRow'.attempts = opRow.attempts,
         opRow'.state \in {"committed", "archived"} => opEffects > 0,
         ~opDedup => opRow'.state # "reconciled-absent" /\ c.pc # "absent",
         ~opDedup /\ Quiet' =>
           Quiet \/ (/\ opEffects = 0 /\ SendsOut(p)
                     /\ opRequest[opClient[p].send] \in {"unsent", "over"}),
         ServerSame
  PROVE  OpInv'
<1>0. /\ opRequest' = opRequest /\ opReply' = opReply /\ opSaved' = opSaved
      /\ opEffects' = opEffects /\ opDedup' = opDedup
  BY DEF ServerSame
<1>1. opClient \in [Clients -> ClientRecord]
  BY DEF OpInv, OpType, ClientRecord
<1>2. /\ opClient' \in [Clients -> ClientRecord] /\ opClient'[p] = c
      /\ \A q \in Clients : q # p => opClient'[q] = opClient[q]
  BY <1>1
<1>3. OpType'
  BY <1>0, <1>2 DEF OpInv, OpType, ClientRecord
<1>4. \A q \in Clients : SendsOut(q)' => q # p /\ SendsOut(q)
  BY <1>2 DEF SendsOut
<1>5. Numbered'
  BY <1>0, <1>2, <1>4 DEF OpInv, Numbered
<1>6. Evident'
  BY <1>0, <1>2, Zenon DEF OpInv, Evident
<1>7. ASSUME ~opDedup PROVE Cautious'
  <2>1. \A q \in Clients : opClient'[q].pc # "absent"
    BY <1>2, <1>7 DEF OpInv, Cautious
  <2>2. ASSUME NEW n \in Sends, Harmless(n) PROVE Harmless(n)'
    BY <1>0, <1>2, <1>4, <2>2 DEF Harmless
  <2>3. ASSUME Quiet', ~Quiet, NEW n \in Sends, ~(n < opRow.attempts) PROVE Harmless(n)'
    <3>1. /\ SendsOut(p) /\ opRequest[opClient[p].send] \in {"unsent", "over"}
          /\ opClient[p].send \in 1..opRow.attempts
      BY <1>7, <2>3 DEF OpInv, Numbered
    <3>2. opRow.attempts \in 0..MaxAttempts /\ opClient[p].send \in Sends
      BY <3>1, AttemptsAssumption DEF OpInv, OpType, Sends
    <3>3. opClient[p].send = opRow.attempts
      BY <1>7, <3>1, <3>2 DEF OpInv, Cautious, Harmless
    <3>4. n = opRow.attempts \/ n > opRow.attempts
      BY <2>3, <3>2, AttemptsAssumption DEF Sends
    <3>5. \A q \in Clients : SendsOut(q)' => opClient'[q].send \in 1..opRow.attempts /\ opClient'[q].send # opRow.attempts
      BY <1>2, <1>4, <3>1, <3>3 DEF OpInv, Numbered
    <3>6. opRequest[n] \in {"unsent", "over"}
      BY <3>1, <3>3, <3>4 DEF OpInv, Numbered
    <3>7. \A q \in Clients : SendsOut(q)' => opClient'[q].send # n
      BY <3>2, <3>4, <3>5
    <3> QED BY <1>0, <3>6, <3>7 DEF Harmless
  <2>4. \A n \in Sends : n < opRow.attempts \/ Quiet => Harmless(n)
    BY <1>7 DEF OpInv, Cautious
  <2>5. \A n \in Sends : n < opRow'.attempts \/ Quiet' => Harmless(n)'
    BY <2>2, <2>3, <2>4
  <2>6. Quiet' => opEffects' = 0
    BY <1>0, <1>7 DEF OpInv, Cautious
  <2> QED BY <1>0, <1>7, <2>1, <2>5, <2>6, Zenon DEF OpInv, Cautious
<1> QED BY <1>0, <1>3, <1>5, <1>6, <1>7 DEF OpInv

\* A client that does not change and a row that does.
LEMMA Raising ==
  ASSUME OpInv, NEW p \in Clients, Raises(p), UNCHANGED opRow, ServerSame
  PROVE  OpInv'
<1>1. opClient' = [opClient EXCEPT ![p] = AtRest]
  BY DEF Raises
<1>2. Quiet' <=> Quiet
  BY DEF Quiet
<1>3. opRow' \in [state: RowStates, attempts: 0..MaxAttempts]
      /\ (opRow'.state \in {"committed", "archived"} => opEffects > 0)
      /\ (~opDedup => opRow'.state # "reconciled-absent")
  BY DEF OpInv, OpType, Evident, Cautious
<1> QED BY <1>1, <1>2, <1>3, AtRestType, LocalStep, Zenon

\* What Moves leaves in a client.
LEMMA Moving ==
  ASSUME OpInv, NEW p \in Clients, NEW pc \in Pcs \ {"send", "wait"}, Moves(p, pc)
  PROVE  \E c \in ClientRecord : /\ opClient' = [opClient EXCEPT ![p] = c]
                                 /\ c.pc = pc /\ c.heard = "none"
<1> DEFINE c == [AtRest EXCEPT !.pc = pc, !.restored = opClient[p].restored]
<1>1. opClient[p].restored \in BOOLEAN
  BY DEF OpInv, OpType
<1>2. c \in ClientRecord /\ c.pc = pc /\ c.heard = "none"
  <2> pc \in Pcs
    OBVIOUS
  <2> QED BY <1>1, AtRestType, Zenon DEF AtRest, ClientRecord
<1>3. CASE pc = "rest"
  BY <1>3, AtRestType DEF Moves, Raises
<1>4. CASE pc # "rest"
  <2>1. opClient' = [opClient EXCEPT ![p] = c]
    BY <1>4 DEF Moves
  <2> QED BY <1>2, <2>1, Zenon
<1> QED BY <1>3, <1>4

LEMMA TransitionFacts ==
  ASSUME OpInv
  PROVE  /\ CanMark("committed") => opRow.state \notin {"none", "archived", "committed"}
         /\ CanMark("sending") <=> opRow.state \in {"prepared", "known-unsent", "reconciled-absent"}
         /\ CanMark("known-unsent") <=> opRow.state = "sending"
         /\ CanMark("unknown") <=> opRow.state = "sending"
         /\ CanMark("reconciled-absent") <=> opRow.state = "unknown"
<1>1. opRow.state \in RowStates
  BY DEF OpInv, OpType
<1> QED BY <1>1 DEF CanMark, Transitions, Key, RowStates

\* mark, or the exception.
LEMMA Marking ==
  ASSUME OpInv, NEW p \in Clients, NEW s \in RowStates \ {"archived"},
         NEW pc \in Pcs \ {"send", "wait"}, MarkOrRaise(p, s, pc),
         s = "committed" => opEffects > 0,
         ~opDedup => s # "reconciled-absent" /\ pc # "absent",
         ~opDedup /\ s \in {"none", "prepared", "known-unsent"} /\ CanMark(s) =>
           /\ opEffects = 0 /\ SendsOut(p)
           /\ opRequest[opClient[p].send] \in {"unsent", "over"},
         ServerSame
  PROVE  OpInv'
<1>1. CASE ~CanMark(s)
  BY <1>1, Raising DEF MarkOrRaise
<1>2. CASE CanMark(s)
  <2>1. opRow' = [opRow EXCEPT !.state = s] /\ Moves(p, pc)
    BY <1>2 DEF MarkOrRaise, Marked
  <2>2. PICK c \in ClientRecord : /\ opClient' = [opClient EXCEPT ![p] = c]
                                  /\ c.pc = pc /\ c.heard = "none"
    BY <2>1, Moving
  <2>3. /\ opRow' \in [state: RowStates, attempts: 0..MaxAttempts]
        /\ opRow'.attempts = opRow.attempts /\ opRow'.state = s
    BY <2>1 DEF OpInv, OpType
  <2>4. Quiet' => s \in {"none", "prepared", "known-unsent"}
    BY <2>3 DEF Quiet
  <2> QED BY <1>2, <2>2, <2>3, <2>4, LocalStep, Zenon
<1> QED BY <1>1, <1>2

\* prepare: a new row is prepared; no other row changes.
LEMMA ExecuteKeeps ==
  ASSUME OpInv, NEW p \in Clients, NEW needed \in BOOLEAN, ExecuteOp(p, needed)
  PROVE  OpInv'
<1> DEFINE seen == IF opRow.state = "none" THEN "prepared" ELSE opRow.state
           pc == IF needed \/ seen \in {"unknown", "sending", "committed"} THEN "status" ELSE "claim"
           c == [AtRest EXCEPT !.pc = pc, !.seen = seen]
<1>1. /\ opRow' = [opRow EXCEPT !.state = seen] /\ opClient' = [opClient EXCEPT ![p] = c]
      /\ ServerSame
  BY Zenon DEF ExecuteOp
<1>2. opRow \in [state: RowStates, attempts: 0..MaxAttempts]
  BY DEF OpInv, OpType
<1>3. seen \in RowStates /\ pc \in {"status", "claim"}
  BY <1>2 DEF RowStates
<1>4. /\ opRow' \in [state: RowStates, attempts: 0..MaxAttempts]
      /\ opRow'.attempts = opRow.attempts /\ opRow'.state = seen
  BY <1>1, <1>2, <1>3
<1>5. c \in ClientRecord /\ c.pc = pc /\ c.heard = "none"
  <2> HIDE DEF seen, pc
  <2>1. pc \in Pcs
    BY <1>3 DEF Pcs
  <2> QED BY <1>3, <2>1, AtRestType, Zenon DEF AtRest, ClientRecord
<1>6. /\ seen \in {"committed", "archived"} => opEffects > 0
      /\ ~opDedup => seen # "reconciled-absent"
      /\ seen \in {"none", "prepared", "known-unsent"} => Quiet
  BY DEF OpInv, Evident, Cautious, Quiet
<1>7. Quiet' => Quiet
  BY <1>4, <1>6 DEF Quiet
<1> HIDE DEF seen, pc, c
<1> QED BY <1>1, <1>3, <1>4, <1>5, <1>6, <1>7, LocalStep, Zenon

\* The answer of status: an effect that is reported has been there.
LEMMA AskKeeps ==
  ASSUME OpInv, NEW p \in Clients, AskStatus(p)
  PROVE  OpInv'
<1>1. PICK heard \in Observed \cup {"unknown"} :
        opClient' = [opClient EXCEPT ![p].pc = CASE @ = "status" -> "settle"
                                               [] @ = "recheck" -> "resolve"
                                               [] @ = "witness" -> "confirm",
                                     ![p].heard = heard]
  BY Zenon DEF AskStatus
<1>2. opClient \in [Clients -> ClientRecord] /\ opClient[p].pc \in {"status", "recheck", "witness"}
  BY DEF OpInv, OpType, ClientRecord, AskStatus
<1> DEFINE pc == CASE opClient[p].pc = "status" -> "settle"
                   [] opClient[p].pc = "recheck" -> "resolve"
                   [] opClient[p].pc = "witness" -> "confirm"
           c == [opClient[p] EXCEPT !.pc = pc, !.heard = heard]
<1>3. pc \in {"settle", "resolve", "confirm"}
  BY <1>2
<1>4. opClient' = [opClient EXCEPT ![p] = c]
  BY <1>1, <1>2, Zenon
<1>5. heard \in {"committed", "absent", "unknown"} /\ (heard = "committed" => opEffects > 0)
  BY DEF Observed
<1>6. c \in ClientRecord /\ c.pc = pc /\ c.heard = heard
  <2> HIDE DEF pc
  <2>1. pc \in Pcs
    BY <1>3 DEF Pcs
  <2> QED BY <1>2, <1>5, <2>1, Zenon DEF ClientRecord
<1>7. opRow' = opRow /\ ServerSame
  BY DEF AskStatus
<1>8. /\ opRow' \in [state: RowStates, attempts: 0..MaxAttempts]
      /\ opRow'.state \in {"committed", "archived"} => opEffects > 0
      /\ ~opDedup => opRow'.state # "reconciled-absent"
      /\ Quiet' => Quiet
  BY <1>7 DEF OpInv, OpType, Evident, Cautious, Quiet
<1> HIDE DEF pc, c
<1> QED BY <1>3, <1>4, <1>5, <1>6, <1>7, <1>8, LocalStep, Zenon

\* committed
LEMMA HeardKeeps ==
  ASSUME OpInv, NEW p \in Clients, HeardCommitted(p)
  PROVE  OpInv'
<1>1. opEffects > 0 /\ Raises(p) /\ ServerSame
  BY DEF OpInv, Evident, HeardCommitted
<1>2. CASE CanMark("committed")
  <2>1. MarkOrRaise(p, "committed", "rest")
    BY <1>1, <1>2 DEF HeardCommitted, MarkOrRaise, Moves
  <2>2. "committed" \in RowStates \ {"archived"} /\ "rest" \in Pcs \ {"send", "wait"}
    BY DEF RowStates, Pcs
  <2> QED BY <1>1, <2>1, <2>2, Marking
<1>3. CASE ~CanMark("committed")
  BY <1>1, <1>3, Raising DEF HeardCommitted
<1> QED BY <1>2, <1>3

\* A client that moves on and a row that stays.
LEMMA MovingKeeps ==
  ASSUME OpInv, NEW p \in Clients, NEW pc \in Pcs \ {"send", "wait"}, Moves(p, pc),
         ~opDedup => pc # "absent", UNCHANGED opRow, ServerSame
  PROVE  OpInv'
<1>1. PICK c \in ClientRecord : /\ opClient' = [opClient EXCEPT ![p] = c]
                                /\ c.pc = pc /\ c.heard = "none"
  BY Moving
<1>2. /\ opRow' \in [state: RowStates, attempts: 0..MaxAttempts]
      /\ opRow'.state \in {"committed", "archived"} => opEffects > 0
      /\ ~opDedup => opRow'.state # "reconciled-absent"
      /\ Quiet' => Quiet
  BY DEF OpInv, OpType, Evident, Cautious, Quiet
<1> QED BY <1>1, <1>2, LocalStep, Zenon

LEMMA SettleKeeps ==
  ASSUME OpInv, NEW p \in Clients, Settle(p)
  PROVE  OpInv'
<1>0. ServerSame
  BY DEF Settle
<1>1. CASE Raises(p) /\ UNCHANGED opRow
  BY <1>0, <1>1, Raising
<1>2. CASE Moves(p, "restore") /\ UNCHANGED opRow
  <2>1. "restore" \in Pcs \ {"send", "wait"}
    BY DEF Pcs
  <2> QED BY <1>0, <1>2, <2>1, MovingKeeps
<1>3. CASE opDedup /\ Moves(p, "absent") /\ UNCHANGED opRow
  <2>1. "absent" \in Pcs \ {"send", "wait"}
    BY DEF Pcs
  <2> QED BY <1>0, <1>3, <2>1, MovingKeeps
<1>4. CASE opDedup /\ MarkOrRaise(p, "unknown", "absent")
  <2>1. "absent" \in Pcs \ {"send", "wait"} /\ "unknown" \in RowStates \ {"archived"}
    BY DEF Pcs, RowStates
  <2> QED BY <1>0, <1>4, <2>1, Marking
<1> QED BY <1>1, <1>2, <1>3, <1>4, Zenon DEF Settle, ReplayProven

LEMMA MarkAbsentKeeps ==
  ASSUME OpInv, NEW p \in Clients, MarkAbsent(p)
  PROVE  OpInv'
<1>1. opDedup
  BY DEF OpInv, Cautious, MarkAbsent, ClientAt
<1>2. "restore" \in Pcs \ {"send", "wait"} /\ "reconciled-absent" \in RowStates \ {"archived"}
  BY DEF Pcs, RowStates
<1> QED BY <1>1, <1>2, Marking DEF MarkAbsent

LEMMA RestoreKeeps ==
  ASSUME OpInv, NEW p \in Clients, Restore(p)
  PROVE  OpInv'
<1> DEFINE c == [AtRest EXCEPT !.pc = "claim", !.restored = TRUE]
<1>1. c \in ClientRecord /\ c.pc = "claim" /\ c.heard = "none"
  BY AtRestType, Zenon DEF AtRest, ClientRecord, Pcs
<1>2. opClient' = [opClient EXCEPT ![p] = c] /\ opRow' = opRow /\ ServerSame
  BY DEF Restore
<1>3. /\ opRow' \in [state: RowStates, attempts: 0..MaxAttempts]
      /\ opRow'.state \in {"committed", "archived"} => opEffects > 0
      /\ ~opDedup => opRow'.state # "reconciled-absent"
      /\ Quiet' => Quiet
  BY <1>2 DEF OpInv, OpType, Evident, Cautious, Quiet
<1> HIDE DEF c
<1> QED BY <1>1, <1>2, <1>3, LocalStep, Zenon

\* A request that was not sent, or was denied before any write, left no effect.
LEMMA UnsentKeeps ==
  ASSUME OpInv, NEW p \in Clients, Unsent(p)
  PROVE  OpInv'
<1>1. PICK pc \in {"rest", "restore"} : MarkOrRaise(p, "known-unsent", pc)
  BY DEF Unsent
<1>2. SendsOut(p) /\ opClient[p].send \in 1..opRow.attempts
  BY DEF Unsent, ClientAt, SendsOut, OpInv, Numbered
<1>3. opClient[p].send \in Sends /\ opRow.attempts \in 0..MaxAttempts
  BY <1>2, AttemptsAssumption DEF OpInv, OpType, Sends
<1>4. opRequest[opClient[p].send] \in {"unsent", "over"}
  BY <1>3 DEF Unsent, ClientAt, OpInv, Numbered
<1>5. ASSUME ~opDedup, CanMark("known-unsent") PROVE opEffects = 0
  <2>1. opClient[p].send = opRow.attempts
    BY <1>2, <1>3, <1>5 DEF OpInv, Cautious, Harmless
  <2>2. opEffects \in Nat
    BY DEF OpInv, OpType
  <2>3. opEffects > 0 => /\ opRequest[opRow.attempts] \in {"acted", "over"}
                         /\ opReply[opRow.attempts] # "denied"
    BY <1>5 DEF OpInv, Cautious
  <2>4. opRequest[opRow.attempts] = "unsent" \/ opReply[opRow.attempts] = "denied"
    BY <2>1, <1>2 DEF Unsent, ClientAt, OpInv, Numbered
  <2> QED BY <2>2, <2>3, <2>4
<1>6. pc \in Pcs \ {"send", "wait"} /\ "known-unsent" \in RowStates \ {"archived"} /\ pc # "absent"
  BY DEF Pcs, RowStates
<1> QED BY <1>1, <1>2, <1>4, <1>5, <1>6, Marking DEF Unsent

LEMMA UnansweredKeeps ==
  ASSUME OpInv, NEW p \in Clients, Unanswered(p)
  PROVE  OpInv'
<1>1. PICK pc \in {"recheck", "rest"} : MarkOrRaise(p, "unknown", pc)
  BY DEF Unanswered
<1>2. pc \in Pcs \ {"send", "wait"} /\ "unknown" \in RowStates \ {"archived"} /\ pc # "absent"
  BY DEF Pcs, RowStates
<1> QED BY <1>1, <1>2, Marking DEF Unanswered

LEMMA ResolveKeeps ==
  ASSUME OpInv, NEW p \in Clients, Resolve(p)
  PROVE  OpInv'
<1>0. ServerSame
  BY DEF Resolve
<1>1. CASE opDedup /\ opClient[p].heard = "absent"
  <2>1. PICK pc \in {"rest", "restore"} : MarkOrRaise(p, "reconciled-absent", pc)
    BY <1>1 DEF Resolve, ReplayProven
  <2>2. pc \in Pcs \ {"send", "wait"} /\ "reconciled-absent" \in RowStates \ {"archived"}
    BY DEF Pcs, RowStates
  <2> QED BY <1>0, <1>1, <2>1, <2>2, Marking
<1>2. CASE ~(opDedup /\ opClient[p].heard = "absent")
  BY <1>0, <1>2, Raising DEF Resolve, ReplayProven
<1> QED BY <1>1, <1>2

LEMMA AnsweredKeeps ==
  ASSUME OpInv, NEW p \in Clients, Answered(p)
  PROVE  OpInv'
<1>1. ServerSame
  BY DEF Answered
<1>2. opClient[p].send \in Sends
  BY AttemptsAssumption DEF Answered, ClientAt, OpInv, OpType, Numbered, SendsOut, Sends
<1>3. opReply[opClient[p].send] = "receipt" => opEffects > 0
  BY <1>2 DEF OpInv, Evident
<1>4. \/ opEffects > 0 /\ MarkOrRaise(p, "committed", "rest")
      \/ \E pc \in {"witness", "rest"} : MarkOrRaise(p, "unknown", pc)
  BY <1>3 DEF Answered
<1>5. {"witness", "rest"} \subseteq Pcs \ {"send", "wait"} /\ {"unknown", "committed"} \subseteq RowStates \ {"archived"}
  BY DEF Pcs, RowStates
<1>6. CASE opEffects > 0 /\ MarkOrRaise(p, "committed", "rest")
  BY <1>1, <1>5, <1>6, Marking
<1>7. ASSUME NEW pc \in {"witness", "rest"}, MarkOrRaise(p, "unknown", pc) PROVE OpInv'
  <2>1. pc \in Pcs \ {"send", "wait"} /\ pc # "absent" /\ "unknown" \in RowStates \ {"archived"}
    BY <1>5
  <2> QED BY <1>1, <1>7, <2>1, Marking
<1> QED BY <1>4, <1>6, <1>7

\* claim_send: a new attempt begins only when none of the earlier ones can have an effect
\* any more, or the backend refuses a second effect.
LEMMA ClaimKeeps ==
  ASSUME OpInv, NEW p \in Clients, ClaimSend(p)
  PROVE  OpInv'
<1>1. CASE ~(CanMark("sending") /\ opRow.attempts < MaxAttempts)
  BY <1>1, Raising DEF ClaimSend
<1>2. CASE CanMark("sending") /\ opRow.attempts < MaxAttempts
  <2> DEFINE c == [AtRest EXCEPT !.pc = "send", !.restored = opClient[p].restored,
                                 !.send = opRow.attempts + 1]
  <2>1. /\ opRow' = [state |-> "sending", attempts |-> opRow.attempts + 1]
        /\ opClient' = [opClient EXCEPT ![p] = c]
    BY <1>2 DEF ClaimSend
  <2>2. /\ opRequest' = opRequest /\ opReply' = opReply /\ opSaved' = opSaved
        /\ opEffects' = opEffects /\ opDedup' = opDedup
    BY DEF ClaimSend, ServerSame
  <2>3. /\ opClient \in [Clients -> ClientRecord] /\ opRow.attempts \in Nat
        /\ opRow.attempts + 1 \in Sends /\ opRow.attempts + 1 \in 0..MaxAttempts
    BY <1>2, AttemptsAssumption DEF OpInv, OpType, ClientRecord, Sends
  <2>4. c \in ClientRecord /\ c.pc = "send" /\ c.heard = "none" /\ c.send = opRow.attempts + 1
    <3>1. opClient[p].restored \in BOOLEAN
      BY DEF OpInv, OpType
    <3> QED BY <2>3, <3>1, AtRestType, Zenon DEF AtRest, ClientRecord, Pcs
  <2> HIDE DEF c
  <2>5. /\ opClient' \in [Clients -> ClientRecord] /\ opClient'[p] = c
        /\ \A q \in Clients : q # p => opClient'[q] = opClient[q]
    BY <2>1, <2>3, <2>4
  <2>6. opRow' \in [state: RowStates, attempts: 0..MaxAttempts]
        /\ opRow'.state = "sending" /\ opRow'.attempts = opRow.attempts + 1
    BY <2>1, <2>3 DEF RowStates
  <2>7. OpType'
    BY <2>2, <2>5, <2>6 DEF OpInv, OpType, ClientRecord
  <2>8. \A q \in Clients : SendsOut(q)' =>
          \/ q = p /\ opClient'[q].send = opRow.attempts + 1
          \/ q # p /\ SendsOut(q) /\ opClient'[q] = opClient[q]
             /\ opClient[q].send \in 1..opRow.attempts
    BY <2>4, <2>5 DEF SendsOut, OpInv, Numbered
  <2>9. Numbered'
    <3>1. \A q \in Clients : SendsOut(q)' =>
            /\ opClient'[q].send \in 1..opRow'.attempts
            /\ \A r \in Clients : SendsOut(r)' /\ opClient'[r].send = opClient'[q].send => r = q
      <4>1. \A q \in Clients : SendsOut(q)' => opClient'[q].send \in 1..opRow'.attempts
        BY <2>3, <2>6, <2>8
      <4>2. ASSUME NEW q \in Clients, SendsOut(q)', NEW r \in Clients, SendsOut(r)',
                   opClient'[r].send = opClient'[q].send
            PROVE  r = q
        BY <2>3, <2>8, <4>2 DEF OpInv, Numbered
      <4> QED BY <4>1, <4>2
    <3>2. \A q \in Clients : opClient'[q].pc = "send" => opRequest[opClient'[q].send] = "unsent"
      <4>1. ASSUME NEW q \in Clients, opClient'[q].pc = "send", q # p
            PROVE  opRequest[opClient'[q].send] = "unsent"
        BY <2>5, <4>1 DEF OpInv, Numbered, SendsOut
      <4>2. opRequest[opRow.attempts + 1] = "unsent"
        BY <2>3 DEF OpInv, Numbered
      <4> QED BY <2>4, <2>5, <4>1, <4>2
    <3>3. \A n \in Sends : n > opRow'.attempts => opRequest[n] = "unsent"
      BY <2>3, <2>6 DEF OpInv, Numbered, Sends
    <3>4. \A n \in Sends : opReply[n] # "none" => opRequest[n] = "over"
      BY DEF OpInv, Numbered
    <3> QED BY <2>2, <3>1, <3>2, <3>3, <3>4 DEF Numbered
  <2>10. Evident'
    BY <2>2, <2>4, <2>5, <2>6 DEF OpInv, Evident
  <2>11. ASSUME ~opDedup PROVE Cautious'
    <3>1. opRow.state \in {"prepared", "known-unsent"}
      BY <1>2, <2>11, TransitionFacts DEF OpInv, Cautious
    <3>2. opEffects = 0 /\ \A n \in Sends : Harmless(n)
      BY <2>11, <3>1 DEF OpInv, Cautious, Quiet
    <3>3. ASSUME NEW n \in Sends, n < opRow.attempts + 1 PROVE Harmless(n)'
      <4>1. opRequest'[n] \in {"unsent", "over"}
        BY <2>2, <3>2 DEF Harmless
      <4>2. \A q \in Clients : SendsOut(q)' => opClient'[q].send # n
        BY <2>3, <2>8, <3>2, <3>3 DEF Harmless, Sends
      <4> QED BY <4>1, <4>2 DEF Harmless
    <3>4. ~Quiet'
      BY <2>6 DEF Quiet
    <3>5. \A q \in Clients : opClient'[q].pc # "absent"
      BY <2>4, <2>5, <2>11 DEF OpInv, Cautious
    <3> QED BY <2>2, <2>6, <3>2, <3>3, <3>4, <3>5 DEF Cautious
  <2> QED BY <2>2, <2>7, <2>9, <2>10, <2>11 DEF OpInv
<1> QED BY <1>1, <1>2

\* The request leaves.
LEMMA SendKeeps ==
  ASSUME OpInv, NEW p \in Clients, Send(p)
  PROVE  OpInv'
<1> DEFINE k == opClient[p].send
<1>1. /\ opRow' = opRow /\ opReply' = opReply /\ opSaved' = opSaved
      /\ opEffects' = opEffects /\ opDedup' = opDedup
      /\ opClient' = [opClient EXCEPT ![p].pc = "wait"]
      /\ opRequest' = [opRequest EXCEPT ![k] = "flying"]
      /\ opClient[p].pc = "send"
  BY DEF Send, ClientAt
<1>2. /\ opClient \in [Clients -> ClientRecord] /\ SendsOut(p) /\ k \in 1..opRow.attempts
      /\ opRow.attempts \in 0..MaxAttempts /\ k \in Sends /\ opRequest[k] = "unsent"
  BY <1>1, AttemptsAssumption DEF OpInv, OpType, ClientRecord, SendsOut, Numbered, Sends
<1>3. /\ opClient' \in [Clients -> ClientRecord] /\ opClient'[p].pc = "wait"
      /\ \A q \in Clients : /\ opClient'[q].send = opClient[q].send
                            /\ opClient'[q].heard = opClient[q].heard
                            /\ q # p => opClient'[q] = opClient[q]
  <2>1. [opClient[p] EXCEPT !.pc = "wait"] \in ClientRecord
    BY <1>2 DEF ClientRecord, Pcs
  <2> QED BY <1>1, <1>2, <2>1 DEF ClientRecord
<1>4. /\ opRequest' \in [Sends -> {"unsent", "flying", "taken", "acted", "over"}]
      /\ opRequest'[k] = "flying" /\ \A n \in Sends : n # k => opRequest'[n] = opRequest[n]
  BY <1>1, <1>2 DEF OpInv, OpType
<1>5. OpType'
  BY <1>1, <1>3, <1>4, Zenon DEF OpInv, OpType, ClientRecord
<1>6. \A q \in Clients : SendsOut(q)' <=> SendsOut(q)
  BY <1>1, <1>3 DEF SendsOut
<1> HIDE DEF k
<1>7. Numbered'
  <2>1. \A q \in Clients : SendsOut(q)' =>
          /\ opClient'[q].send \in 1..opRow.attempts
          /\ \A r \in Clients : SendsOut(r)' /\ opClient'[r].send = opClient'[q].send => r = q
    BY <1>3, <1>6 DEF OpInv, Numbered
  <2>2. ASSUME NEW q \in Clients, opClient'[q].pc = "send"
        PROVE  opRequest'[opClient'[q].send] = "unsent"
    <3>1. q # p /\ opClient[q].pc = "send" /\ SendsOut(q)
      BY <1>3, <2>2 DEF SendsOut
    <3>2. opClient[q].send \in Sends /\ opClient[q].send # k
      BY <1>2, <3>1, AttemptsAssumption DEF k, OpInv, Numbered, Sends
    <3> QED BY <1>3, <1>4, <3>1, <3>2 DEF OpInv, Numbered
  <2>3. \A n \in Sends : n > opRow.attempts => opRequest'[n] = "unsent"
    BY <1>2, <1>4 DEF OpInv, Numbered
  <2>4. \A n \in Sends : opReply[n] # "none" => opRequest'[n] = "over"
    BY <1>2, <1>4 DEF OpInv, Numbered
  <2> QED BY <1>1, <2>1, <2>2, <2>3, <2>4, Zenon DEF Numbered
<1>8. Evident'
  BY <1>1, <1>3, <1>4 DEF OpInv, Evident
<1>9. ASSUME ~opDedup PROVE Cautious'
  <2>1. ~Harmless(k)
    BY <1>2 DEF Harmless, k
  <2>2. k = opRow.attempts /\ ~Quiet
    BY <1>2, <1>9, <2>1 DEF OpInv, Cautious
  <2>3. ~(opEffects > 0)
    BY <1>2, <1>9, <2>2 DEF OpInv, Cautious
  <2>4. ASSUME NEW n \in Sends, n < opRow.attempts PROVE Harmless(n)'
    BY <1>2, <1>3, <1>4, <1>6, <1>9, <2>2, <2>4 DEF OpInv, Cautious, Harmless
  <2>5. ~Quiet'
    BY <1>1, <2>2 DEF Quiet
  <2>6. \A q \in Clients : opClient'[q].pc # "absent"
    BY <1>3, <1>9 DEF OpInv, Cautious
  <2> QED BY <1>1, <1>9, <2>3, <2>4, <2>5, <2>6 DEF OpInv, Cautious
<1> QED BY <1>1, <1>5, <1>7, <1>8, <1>9 DEF OpInv

\* A step of the server for a request that is under way.
Deals(n, r) ==
  /\ opRequest[n] \in {"flying", "taken", "acted"}
  /\ opRequest' = [opRequest EXCEPT ![n] = r]
  /\ opReply' \in [Sends -> {"none", "denied", "receipt", "error", "unproven"}]
  /\ \A k \in Sends : opReply'[k] # opReply[k] => k = n /\ r = "over"
  /\ opReply'[n] \in {"receipt", "unproven"} => opEffects' > 0
  /\ opSaved' \in {"none", "prepared", "committed", "archived"}
  /\ opSaved' \in {"committed", "archived"} => opEffects' > 0
  /\ opEffects' \in Nat /\ opEffects <= opEffects' /\ opEffects' <= 1
  /\ r = "acted" => opEffects' > 0
  /\ ~opDedup /\ opEffects' > 0 => r \in {"acted", "over"} /\ opReply'[n] # "denied"
  /\ UNCHANGED <<opRow, opClient, opDedup>>

LEMMA ServerStep ==
  ASSUME OpInv, NEW n \in Sends, NEW r \in {"taken", "acted", "over"}, Deals(n, r)
  PROVE  OpInv'
<1> USE DEF Deals
<1>1. opRow' = opRow /\ opClient' = opClient /\ opDedup' = opDedup
  OBVIOUS
<1>2. /\ opRequest' \in [Sends -> {"unsent", "flying", "taken", "acted", "over"}]
      /\ opRequest'[n] = r /\ \A k \in Sends : k # n => opRequest'[k] = opRequest[k]
  BY DEF OpInv, OpType
<1>3. opEffects \in Nat /\ opRow.attempts \in 0..MaxAttempts
  BY DEF OpInv, OpType
<1>4. OpType'
  BY <1>1, <1>2 DEF OpInv, OpType
<1>5. \A q \in Clients : SendsOut(q)' <=> SendsOut(q)
  BY <1>1 DEF SendsOut
<1>6. n <= opRow.attempts
  BY <1>3, AttemptsAssumption DEF OpInv, Numbered, Sends
<1>7. Numbered'
  <2>1. ASSUME NEW q \in Clients, opClient[q].pc = "send"
        PROVE  opRequest'[opClient[q].send] = "unsent"
    <3>1. opClient[q].send \in Sends
      BY <1>3, <2>1, AttemptsAssumption DEF OpInv, Numbered, SendsOut, Sends
    <3> QED BY <1>2, <2>1, <3>1 DEF OpInv, Numbered
  <2>2. \A k \in Sends : k > opRow.attempts => opRequest'[k] = "unsent"
    BY <1>2, <1>3, <1>6 DEF OpInv, Numbered, Sends
  <2>3. \A k \in Sends : opReply'[k] # "none" => opRequest'[k] = "over"
    BY <1>2 DEF OpInv, Numbered
  <2> QED BY <1>1, <1>5, <2>1, <2>2, <2>3 DEF OpInv, Numbered
<1>8. Evident'
  <2>1. opEffects > 0 => opEffects' > 0
    BY <1>3
  <2>2. \A k \in Sends : opRequest'[k] = "acted" \/ opReply'[k] \in {"receipt", "unproven"}
                           => opEffects' > 0
    BY <1>2, <2>1 DEF OpInv, Evident
  <2> QED BY <1>1, <2>1, <2>2 DEF OpInv, Evident
<1>9. ASSUME ~opDedup PROVE Cautious'
  <2>1. ~Harmless(n)
    BY DEF Harmless
  <2>2. n = opRow.attempts /\ ~Quiet
    BY <1>3, <1>6, <1>9, <2>1 DEF OpInv, Cautious, Sends
  <2>3. ASSUME NEW k \in Sends, k < opRow.attempts PROVE Harmless(k)'
    BY <1>1, <1>2, <1>3, <1>5, <1>9, <2>2, <2>3 DEF OpInv, Cautious, Harmless
  <2>4. ~Quiet'
    BY <1>1, <2>2 DEF Quiet
  <2> QED BY <1>1, <1>2, <1>9, <2>2, <2>3, <2>4 DEF OpInv, Cautious
<1> QED BY <1>1, <1>4, <1>7, <1>8, <1>9 DEF OpInv

\* On a backend not proven to refuse a second effect, a request not carried out yet is the
\* only one that can be.
LEMMA NoneYet ==
  ASSUME OpInv, NEW n \in Sends, opRequest[n] \in {"flying", "taken"}, ~opDedup
  PROVE  opEffects = 0
<1>1. opRow.attempts \in 0..MaxAttempts /\ opEffects \in Nat
  BY DEF OpInv, OpType
<1>2. ~Harmless(n)
  BY DEF Harmless
<1>3. n <= opRow.attempts
  BY <1>1, AttemptsAssumption DEF OpInv, Numbered, Sends
<1>4. n = opRow.attempts
  BY <1>1, <1>2, <1>3 DEF OpInv, Cautious, Sends
<1> QED BY <1>1, <1>4 DEF OpInv, Cautious

\* What holds of the server's state before its step.
LEMMA ServerFacts ==
  ASSUME OpInv
  PROVE  /\ opReply \in [Sends -> {"none", "denied", "receipt", "error", "unproven"}]
         /\ opSaved \in {"none", "prepared", "committed", "archived"}
         /\ opSaved \in {"committed", "archived"} => opEffects > 0
         /\ \A n \in Sends : /\ opRequest[n] # "over" => opReply[n] = "none"
                             /\ opRequest[n] = "acted" => opEffects > 0
         /\ opEffects \in Nat /\ opEffects <= 1
BY DEF OpInv, OpType, Evident, Numbered

LEMMA DropKeeps ==
  ASSUME OpInv, NEW n \in Sends, Drop(n)
  PROVE  OpInv'
<1>1. /\ opRequest' = [opRequest EXCEPT ![n] = "over"] /\ opReply' = opReply /\ opSaved' = opSaved
      /\ opEffects' = opEffects /\ opRequest[n] \in {"flying", "taken", "acted"}
      /\ UNCHANGED <<opRow, opClient, opDedup>>
  BY DEF Drop
<1>2. Deals(n, "over")
  BY <1>1, ServerFacts DEF Deals
<1> QED BY <1>2, ServerStep

LEMMA ArriveKeeps ==
  ASSUME OpInv, NEW n \in Sends, Arrive(n)
  PROVE  OpInv'
<1>1. UNCHANGED <<opRow, opClient, opDedup>> /\ opEffects' = opEffects /\ opRequest[n] = "flying"
  BY DEF Arrive
<1>2. ~opDedup => ~(opEffects > 0)
  BY <1>1, NoneYet
<1>3. ASSUME NEW reply \in {"denied", "receipt", "error"}, Replies(n, reply), opSaved' = opSaved,
             reply = "receipt" => opEffects > 0
      PROVE  OpInv'
  <2>1. /\ opReply' = [opReply EXCEPT ![n] = reply] /\ opRequest' = [opRequest EXCEPT ![n] = "over"]
    BY <1>3 DEF Replies
  <2>2. /\ opReply' \in [Sends -> {"none", "denied", "receipt", "error", "unproven"}]
        /\ opReply'[n] = reply /\ \A k \in Sends : k # n => opReply'[k] = opReply[k]
    BY <2>1, ServerFacts
  <2>3. Deals(n, "over")
    BY <1>1, <1>2, <1>3, <2>1, <2>2, ServerFacts DEF Deals
  <2> QED BY <2>3, ServerStep
<1>4. ASSUME opSaved' = "prepared", opRequest' = [opRequest EXCEPT ![n] = "taken"], opReply' = opReply
      PROVE  OpInv'
  <2>1. Deals(n, "taken")
    BY <1>1, <1>2, <1>4, ServerFacts DEF Deals
  <2> QED BY <2>1, ServerStep
<1> QED BY <1>3, <1>4, ServerFacts DEF Arrive

LEMMA EffectKeeps ==
  ASSUME OpInv, NEW n \in Sends, Effect(n)
  PROVE  OpInv'
<1>1. UNCHANGED <<opRow, opClient, opDedup>> /\ opSaved' = opSaved /\ opRequest[n] = "taken"
  BY DEF Effect
<1>2. ~opDedup => opEffects = 0
  BY <1>1, NoneYet
<1>3. ASSUME Replies(n, "error"), opEffects' = opEffects PROVE OpInv'
  <2>1. /\ opReply' = [opReply EXCEPT ![n] = "error"] /\ opRequest' = [opRequest EXCEPT ![n] = "over"]
    BY <1>3 DEF Replies
  <2>2. /\ opReply' \in [Sends -> {"none", "denied", "receipt", "error", "unproven"}]
        /\ opReply'[n] = "error" /\ \A k \in Sends : k # n => opReply'[k] = opReply[k]
    BY <2>1, ServerFacts
  <2>3. Deals(n, "over")
    BY <1>1, <1>2, <1>3, <2>1, <2>2, ServerFacts DEF Deals
  <2> QED BY <2>3, ServerStep
<1>4. ASSUME opRequest' = [opRequest EXCEPT ![n] = "acted"], opReply' = opReply,
             opEffects' = IF opDedup /\ opEffects > 0 THEN opEffects ELSE opEffects + 1
      PROVE  OpInv'
  <2>1. opEffects' \in Nat /\ opEffects <= opEffects' /\ opEffects' = 1
    BY <1>2, <1>4, ServerFacts
  <2>2. Deals(n, "acted")
    BY <1>1, <1>4, <2>1, ServerFacts DEF Deals
  <2> QED BY <2>2, ServerStep
<1> QED BY <1>3, <1>4 DEF Effect

LEMMA AcknowledgeKeeps ==
  ASSUME OpInv, NEW n \in Sends, Acknowledge(n)
  PROVE  OpInv'
<1>1. /\ UNCHANGED <<opRow, opClient, opDedup>> /\ opEffects' = opEffects /\ opRequest[n] = "acted"
      /\ (opSaved = "prepared" /\ opSaved' = "committed") \/ opSaved' = opSaved
  BY DEF Acknowledge
<1>2. PICK reply \in {"receipt", "unproven"} : Replies(n, reply)
  BY DEF Acknowledge
<1>3. /\ opReply' = [opReply EXCEPT ![n] = reply] /\ opRequest' = [opRequest EXCEPT ![n] = "over"]
  BY <1>2 DEF Replies
<1>4. /\ opReply' \in [Sends -> {"none", "denied", "receipt", "error", "unproven"}]
      /\ opReply'[n] = reply /\ \A k \in Sends : k # n => opReply'[k] = opReply[k]
  BY <1>3, ServerFacts
<1>5. Deals(n, "over")
  BY <1>1, <1>3, <1>4, ServerFacts DEF Deals
<1> QED BY <1>5, ServerStep

LEMMA ArchiveKeeps ==
  ASSUME OpInv, ArchiveClient \/ ArchiveServer
  PROVE  OpInv'
<1>1. CASE ArchiveClient
  <2>1. /\ opClient' = opClient /\ opRequest' = opRequest /\ opReply' = opReply /\ opSaved' = opSaved
        /\ opEffects' = opEffects /\ opDedup' = opDedup /\ opRow.state = "committed"
        /\ opRow' = [opRow EXCEPT !.state = "archived"]
    BY <1>1 DEF ArchiveClient, ServerSame, Marked
  <2>2. /\ opRow' \in [state: RowStates, attempts: 0..MaxAttempts]
        /\ opRow'.state = "archived" /\ opRow'.attempts = opRow.attempts
    BY <2>1 DEF OpInv, OpType, RowStates
  <2>3. OpType'
    BY <2>1, <2>2 DEF OpInv, OpType
  <2>4. Numbered' /\ Evident'
    BY <2>1, <2>2 DEF OpInv, Numbered, SendsOut, Evident
  <2>5. ~opDedup => Cautious'
    BY <2>1, <2>2 DEF OpInv, Cautious, Quiet, Harmless, SendsOut
  <2> QED BY <2>1, <2>3, <2>4, <2>5 DEF OpInv
<1>2. CASE ArchiveServer
  <2>1. /\ opClient' = opClient /\ opRequest' = opRequest /\ opReply' = opReply /\ opRow' = opRow
        /\ opEffects' = opEffects /\ opDedup' = opDedup /\ opSaved = "committed" /\ opSaved' = "archived"
    BY <1>2 DEF ArchiveServer
  <2> QED BY <2>1 DEF OpInv, OpType, Numbered, SendsOut, Evident, Cautious, Quiet, Harmless
<1> QED BY <1>1, <1>2

----------------------------------------------------------------------------
\* An operation has at most one canonical effect, whether or not its backend refuses a second
\* one, with any number of client processes and of attempts and however late a request is
\* carried out; and an operation that a ledger has as committed has had its effect
\* (RecoveryClient.execute, OperationLedger.claim_send and mark, _operation_call).
THEOREM OperationOneEffect == OpSpec => []OneEffect
<1>1. OpInit => OpInv
  <2> SUFFICES ASSUME OpInit PROVE OpInv
    OBVIOUS
  <2>1. /\ opRow = [state |-> "none", attempts |-> 0] /\ opClient = [p \in Clients |-> AtRest]
        /\ opRequest = [n \in Sends |-> "unsent"] /\ opReply = [n \in Sends |-> "none"]
        /\ opSaved = "none" /\ opEffects = 0 /\ opDedup \in BOOLEAN
    BY DEF OpInit
  <2>2. opRow \in [state: RowStates, attempts: 0..MaxAttempts]
    BY <2>1, AttemptsAssumption DEF RowStates
  <2>3. opClient \in [Clients -> ClientRecord] /\ \A p \in Clients : ~SendsOut(p)
    BY <2>1, AtRestType DEF SendsOut
  <2>4. OpType
    BY <2>1, <2>2, <2>3 DEF OpType, ClientRecord
  <2>5. Numbered /\ Evident
    BY <2>1, <2>3, AtRestType DEF Numbered, Evident, SendsOut
  <2>6. Cautious
    BY <2>1, <2>3, AtRestType DEF Cautious, Harmless, Quiet
  <2> QED BY <2>1, <2>4, <2>5, <2>6 DEF OpInv
<1>2. OpInv /\ [OpNext]_opVars => OpInv'
  <2> SUFFICES ASSUME OpInv, [OpNext]_opVars PROVE OpInv'
    OBVIOUS
  <2>1. ASSUME NEW p \in Clients, ClientStep(p) PROVE OpInv'
    <3>1. CASE \E needed \in BOOLEAN : ExecuteOp(p, needed)
      BY <3>1, ExecuteKeeps
    <3>2. CASE AskStatus(p) \/ HeardCommitted(p) \/ Settle(p) \/ MarkAbsent(p) \/ Restore(p)
      BY <3>2, AskKeeps, HeardKeeps, SettleKeeps, MarkAbsentKeeps, RestoreKeeps
    <3>3. CASE ClaimSend(p) \/ Send(p) \/ Unsent(p) \/ Unanswered(p) \/ Resolve(p) \/ Answered(p)
      BY <3>3, ClaimKeeps, SendKeeps, UnsentKeeps, UnansweredKeeps, ResolveKeeps, AnsweredKeeps
    <3>4. CASE NotConfirmed(p) \/ ClientStops(p)
      BY <3>4, Raising DEF NotConfirmed, ClientStops
    <3> QED BY <2>1, <3>1, <3>2, <3>3, <3>4 DEF ClientStep
  <2>2. ASSUME NEW n \in Sends, Drop(n) \/ Arrive(n) \/ Effect(n) \/ Acknowledge(n) PROVE OpInv'
    BY <2>2, DropKeeps, ArriveKeeps, EffectKeeps, AcknowledgeKeeps
  <2>3. CASE ArchiveClient \/ ArchiveServer
    BY <2>3, ArchiveKeeps
  <2>4. CASE UNCHANGED opVars
    BY <2>4 DEF opVars, OpInv, OpType, Numbered, SendsOut, Evident, Cautious, Quiet, Harmless
  <2> QED BY <2>1, <2>2, <2>3, <2>4 DEF OpNext
<1>3. OpInv => OneEffect
  BY DEF OpInv, OpType, Evident, OneEffect
<1> QED BY <1>1, <1>2, <1>3, PTL DEF OpSpec

(***************************************************************************)
(* 2. IntentCustody                                                        *)
(***************************************************************************)
\* Everything below rests on one invariant: the shape of the state, who was granted
\* what, and the count of executions.
Inv == CustodyInv /\ OneExecution

\* The fields of a row and of an entry of a report.
LEMMA RowFields ==
  \A r, status, receipt :
    LET row == Row(r, status, receipt)
    IN row.reservation = r /\ row.status = status /\ row.receipt = receipt
BY DEF Row

LEMMA EntryClass == \A class, delta, index : Entry(class, delta, index).class = class
BY DEF Entry

LEMMA IntentIds == \A r : r.intent \in Intents => IdOf(r) \in Ids
BY DEF Ids, IdOf

LEMMA InitInv == Init => Inv
BY DEF Init, Inv, CustodyInv, TypeOK, Granted, GrantIsRow, OneExecution, Idle, Nothing, Steps

\* Steps that change nothing but the memory of one process, and leave it with a
\* reservation of a known intent.
LEMMA MemoryStep ==
  ASSUME Inv, NEW p \in Processes, NEW m, Goto(p, m), UNCHANGED <<custody, runs>>,
         clock' \in Nat,
         m.step \in Steps,
         m.step # "idle" => m.reservation.intent \in Intents,
         m.step = "closing" => m.status \in {"consumed", "abandoned"},
         m.step = "reserving" => m.reservation.holder = p,
         m.step \notin {"granted", "executed"}
  PROVE  Inv'
<1>1. /\ DOMAIN mem' = Processes
      /\ mem'[p] = m
      /\ \A q \in Processes \ {p} : mem'[q] = mem[q]
  BY DEF Goto, Inv, CustodyInv, TypeOK
<1>2. TypeOK'
  BY <1>1 DEF Inv, CustodyInv, TypeOK
<1>3. Granted'
  BY <1>1 DEF Inv, CustodyInv, Granted, GrantIsRow
<1>4. OneExecution'
  BY DEF Inv, OneExecution
<1> QED
  BY <1>2, <1>3, <1>4 DEF Inv, CustodyInv

\* A process that fails, finishes or crashes forgets what it was doing.
LEMMA IdleStep ==
  ASSUME Inv, NEW p \in Processes, Goto(p, Idle), custody' = custody, runs' = runs, clock' = clock
  PROVE  Inv'
<1>1. Idle.step = "idle" /\ Idle.step \in Steps /\ clock' \in Nat
  BY DEF Idle, Steps, Inv, CustodyInv, TypeOK
<1> QED
  BY <1>1, MemoryStep

LEMMA NextInv == Inv /\ [Next]_vars => Inv'
<1> SUFFICES ASSUME Inv, [Next]_vars PROVE Inv'
  OBVIOUS
<1> USE IntentIds
<1>1. CASE Tick
  BY <1>1 DEF Tick, Inv, CustodyInv, TypeOK, Granted, GrantIsRow, OneExecution
<1>2. ASSUME NEW p \in Processes, NEW i \in Intents, BeginReserve(p, i) PROVE Inv'
  <2> DEFINE m == [step |-> "reserving",
                   reservation |-> [intent |-> i, holder |-> p, at |-> clock]]
  <2>1. /\ m.step = "reserving" /\ m.reservation.intent = i /\ m.reservation.holder = p
        /\ m.step \in Steps
    BY DEF Steps
  <2>2. Goto(p, m) /\ UNCHANGED <<custody, runs>> /\ clock' \in Nat
    BY <1>2, Zenon DEF BeginReserve, Inv, CustodyInv, TypeOK
  <2> HIDE DEF m
  <2> QED
    BY <2>1, <2>2, MemoryStep
<1>3. ASSUME NEW p \in Processes, NEW i \in Intents, BeginConsume(p, i) PROVE Inv'
  <2>1. PICK observed \in Reports :
          Goto(p, [step |-> "closing", reservation |-> mem[p].reservation, status |-> "consumed",
                   receipt |-> [closed |-> clock, results |-> Reconcile(i, observed)]])
    BY <1>3 DEF BeginConsume
  <2> DEFINE m == [step |-> "closing", reservation |-> mem[p].reservation, status |-> "consumed",
                   receipt |-> [closed |-> clock, results |-> Reconcile(i, observed)]]
  <2>2. m.step = "closing" /\ m.status = "consumed" /\ m.reservation = mem[p].reservation
        /\ m.step \in Steps
    BY DEF Steps
  <2>3. mem[p].reservation.intent \in Intents
    BY <1>3, Zenon DEF BeginConsume, HasReservation, Inv, CustodyInv, TypeOK
  <2>4. Goto(p, m) /\ UNCHANGED <<custody, runs>> /\ clock' \in Nat
    BY <1>3, <2>1, Zenon DEF BeginConsume, Inv, CustodyInv, TypeOK
  <2> HIDE DEF m
  <2> QED
    BY <2>2, <2>3, <2>4, MemoryStep
<1>4. ASSUME NEW p \in Processes, CommitReserve(p) PROVE Inv'
  <2> DEFINE r == mem[p].reservation
             id == IdOf(r)
  <2>1. r.intent \in Intents /\ id \in Ids /\ r.holder = p /\ mem[p].step = "reserving"
    BY <1>4, Zenon DEF CommitReserve, Inv, CustodyInv, TypeOK, Granted, GrantIsRow
  <2>2. CASE /\ Unreserved(id)
             /\ custody' = [custody EXCEPT ![id] = Row(r, "reserved", NoReceipt)]
             /\ Goto(p, [step |-> "granted", reservation |-> r])
    <3>1. custody[id] = Nothing /\ runs[id] = 0
      BY <2>1, <2>2, Zenon DEF Unreserved, Inv, CustodyInv, TypeOK, Granted, GrantIsRow
    <3>2. /\ DOMAIN custody' = Ids
          /\ custody'[id].status = "reserved" /\ custody'[id].reservation = r
          /\ \A k \in Ids \ {id} : custody'[k] = custody[k]
      BY <2>1, <2>2, Zenon DEF Row, Inv, CustodyInv, TypeOK
    <3>3. custody'[id] # Nothing
      BY <3>2 DEF Nothing
    <3>4. /\ DOMAIN mem' = Processes
          /\ mem'[p].step = "granted" /\ mem'[p].reservation = r
          /\ \A q \in Processes \ {p} : mem'[q] = mem[q]
      BY <2>2, Zenon DEF Goto, Inv, CustodyInv, TypeOK
    <3>5. runs' = runs /\ clock' = clock
      BY <1>4 DEF CommitReserve
    <3>6. TypeOK'
      BY <2>1, <3>2, <3>4, <3>5 DEF Inv, CustodyInv, TypeOK, Steps
    <3>7. ASSUME NEW q \in Processes \ {p}, mem[q].step \in {"granted", "executed"}
          PROVE  /\ IdOf(mem[q].reservation) \in Ids \ {id}
                 /\ custody'[IdOf(mem[q].reservation)] = custody[IdOf(mem[q].reservation)]
      BY <3>1, <3>2, <3>7, Zenon DEF Inv, CustodyInv, TypeOK, Granted, GrantIsRow
    <3>8. \A k \in Ids : custody'[k] = Nothing => runs'[k] = 0
      BY <3>2, <3>3, <3>5, Zenon DEF Inv, CustodyInv, Granted
    <3>9. GrantIsRow(p, id)'
      BY <2>1, <3>1, <3>2, <3>3, <3>4, <3>5, Zenon DEF GrantIsRow
    <3>10. ASSUME NEW q \in Processes \ {p} PROVE GrantIsRow(q, IdOf(mem[q].reservation))'
      BY <3>4, <3>5, <3>7 DEF Inv, CustodyInv, Granted, GrantIsRow
    <3>11. Granted'
      BY <3>4, <3>8, <3>9, <3>10 DEF Granted
    <3> QED
      BY <3>5, <3>6, <3>11 DEF Inv, CustodyInv, OneExecution
  <2>3. CASE Goto(p, Idle) /\ UNCHANGED custody
    BY <1>4, <2>3, IdleStep DEF CommitReserve
  <2> QED
    BY <1>4, <2>2, <2>3, Zenon DEF CommitReserve
<1>5. ASSUME NEW p \in Processes, Execute(p) PROVE Inv'
  <2> DEFINE r == mem[p].reservation
             id == IdOf(r)
  <2>1. /\ r.intent \in Intents /\ id \in Ids /\ mem[p].step = "granted" /\ runs[id] = 0
        /\ custody[id].reservation = r /\ r.holder = p /\ custody[id] # Nothing
    BY <1>5, Zenon DEF Execute, Inv, CustodyInv, TypeOK, Granted, GrantIsRow
  <2>2. /\ DOMAIN mem' = Processes
        /\ mem'[p].step = "executed" /\ mem'[p].reservation = r
        /\ \A q \in Processes \ {p} : mem'[q] = mem[q]
    <3>1. mem'[p] = [mem[p] EXCEPT !.step = "executed"]
      BY <1>5, Zenon DEF Execute, Goto, Inv, CustodyInv, TypeOK
    <3> QED
      BY <1>5, <2>1, <3>1 DEF Execute, Goto, Inv, CustodyInv, TypeOK
  <2>3. /\ custody' = custody /\ clock' = clock
        /\ runs' \in [Ids -> Nat] /\ runs'[id] = 1
        /\ \A k \in Ids \ {id} : runs'[k] = runs[k]
    BY <1>5, <2>1 DEF Execute, Inv, CustodyInv, TypeOK
  <2>4. ASSUME NEW q \in Processes \ {p}, mem[q].step = "granted" PROVE IdOf(mem[q].reservation) # id
    BY <2>1, <2>4 DEF Inv, CustodyInv, Granted, GrantIsRow
  <2>5. TypeOK'
    BY <2>1, <2>2, <2>3 DEF Inv, CustodyInv, TypeOK, Steps
  <2>6. Granted'
    <3>1. \A k \in Ids : custody'[k] = Nothing => runs'[k] = 0
      BY <2>1, <2>3, Zenon DEF Inv, CustodyInv, Granted
    <3>2. GrantIsRow(p, id)'
      BY <2>1, <2>2, <2>3, Zenon DEF GrantIsRow
    <3>3. ASSUME NEW q \in Processes \ {p} PROVE GrantIsRow(q, IdOf(mem[q].reservation))'
      <4> DEFINE k == IdOf(mem[q].reservation)
      <4>1. GrantIsRow(q, k)
        BY DEF Inv, CustodyInv, Granted
      <4>2. mem[q].step = "granted" => k \in Ids \ {id}
        BY <2>4, Zenon DEF Inv, CustodyInv, TypeOK
      <4>3. mem[q].step = "granted" => runs'[k] = 0
        BY <2>3, <4>1, <4>2, Zenon DEF GrantIsRow
      <4>4. mem'[q] = mem[q]
        BY <2>2
      <4> QED
        BY <2>3, <4>1, <4>3, <4>4, Zenon DEF GrantIsRow
    <3> QED
      BY <2>2, <3>1, <3>2, <3>3 DEF Granted
  <2>7. OneExecution'
    BY <2>3 DEF Inv, OneExecution
  <2> QED
    BY <2>5, <2>6, <2>7 DEF Inv, CustodyInv
<1>6. ASSUME NEW p \in Processes, BeginAbandon(p) PROVE Inv'
  <2> DEFINE m == [step |-> "closing", reservation |-> mem[p].reservation, status |-> "abandoned",
                   receipt |-> [closed |-> clock, results |-> <<>>]]
  <2>1. m.step = "closing" /\ m.status = "abandoned" /\ m.reservation = mem[p].reservation
        /\ m.step \in Steps
    BY DEF Steps
  <2>2. mem[p].reservation.intent \in Intents
    BY <1>6, Zenon DEF BeginAbandon, HasReservation, Inv, CustodyInv, TypeOK
  <2>3. Goto(p, m) /\ UNCHANGED <<custody, runs>> /\ clock' \in Nat
    BY <1>6, Zenon DEF BeginAbandon, Inv, CustodyInv, TypeOK
  <2> HIDE DEF m
  <2> QED
    BY <2>1, <2>2, <2>3, MemoryStep
<1>7. ASSUME NEW p \in Processes, CommitClose(p) PROVE Inv'
  <2> DEFINE r == mem[p].reservation
             id == IdOf(r)
  <2>1. /\ r.intent \in Intents /\ id \in Ids /\ mem[p].step = "closing"
        /\ mem[p].status \in {"consumed", "abandoned"}
    BY <1>7, Zenon DEF CommitClose, Inv, CustodyInv, TypeOK
  <2>2. /\ DOMAIN mem' = Processes /\ mem'[p].step = "idle"
        /\ \A q \in Processes \ {p} : mem'[q] = mem[q]
    BY <1>7, Zenon DEF CommitClose, Goto, Idle, Inv, CustodyInv, TypeOK
  <2>3. runs' = runs /\ clock' = clock
    BY <1>7 DEF CommitClose
  <2>4. CASE /\ CheckedReservation(r)
             /\ custody' = [custody EXCEPT ![id] = Row(r, mem[p].status, mem[p].receipt)]
    <3>1. /\ DOMAIN custody' = Ids
          /\ custody'[id].status = mem[p].status /\ custody'[id].reservation = r
          /\ \A k \in Ids \ {id} : custody'[k] = custody[k]
      BY <2>1, <2>4, Zenon DEF Row, Inv, CustodyInv, TypeOK
    <3>2. custody'[id] # Nothing /\ custody[id] # Nothing /\ custody[id].reservation = r
      <4>1. custody[id] # Nothing /\ custody[id].reservation = r
        BY <2>4, Zenon DEF CheckedReservation
      <4>2. custody'[id].status # "none"
        BY <2>1, <3>1, Zenon
      <4>3. custody'[id] # Nothing
        BY <4>2 DEF Nothing
      <4> QED
        BY <4>1, <4>3, Zenon
    <3>3. TypeOK'
      BY <2>1, <2>2, <2>3, <3>1 DEF Inv, CustodyInv, TypeOK, Steps
    <3>4. ASSUME NEW q \in Processes \ {p}, mem[q].step \in {"granted", "executed"},
                 NEW k, k = IdOf(mem[q].reservation)
          PROVE  custody'[k] # Nothing /\ custody'[k].reservation = mem[q].reservation
      <4>1. k \in Ids /\ custody[k] # Nothing /\ custody[k].reservation = mem[q].reservation
        BY <3>4, Zenon DEF Inv, CustodyInv, TypeOK, Granted, GrantIsRow
      <4> QED
        BY <3>1, <3>2, <4>1, Zenon
    <3>5. \A k \in Ids : custody'[k] = Nothing => runs'[k] = 0
      BY <2>3, <3>1, <3>2, Zenon DEF Inv, CustodyInv, Granted
    <3>6. ASSUME NEW q \in Processes PROVE GrantIsRow(q, IdOf(mem[q].reservation))'
      BY <2>2, <2>3, <3>4 DEF Inv, CustodyInv, Granted, GrantIsRow
    <3>7. Granted'
      BY <3>5, <3>6 DEF Granted
    <3> QED
      BY <2>3, <3>3, <3>7 DEF Inv, CustodyInv, OneExecution
  <2>5. CASE UNCHANGED custody
    BY <1>7, <2>5, IdleStep DEF CommitClose
  <2> QED
    BY <1>7, <2>4, <2>5 DEF CommitClose
<1>8. ASSUME NEW p \in Processes, Crash(p) PROVE Inv'
  BY <1>8, IdleStep DEF Crash
<1>9. ASSUME NEW p \in Processes, NEW id \in Ids, Adopt(p, id) PROVE Inv'
  <2> DEFINE m == [step |-> "adopted", reservation |-> custody[id].reservation]
  <2>1. m.step = "adopted" /\ m.reservation = custody[id].reservation /\ m.step \in Steps
    BY DEF Steps
  <2>2. custody[id].reservation.intent \in Intents
    BY <1>9, Zenon DEF Adopt, Inv, CustodyInv, TypeOK
  <2>3. Goto(p, m) /\ UNCHANGED <<custody, runs>> /\ clock' \in Nat
    BY <1>9, Zenon DEF Adopt, Inv, CustodyInv, TypeOK
  <2> HIDE DEF m
  <2> QED
    BY <2>1, <2>2, <2>3, MemoryStep
<1>10. CASE UNCHANGED vars
  BY <1>10 DEF vars, Inv, CustodyInv, TypeOK, Granted, GrantIsRow, OneExecution
<1> QED
  BY <1>1, <1>2, <1>3, <1>4, <1>5, <1>6, <1>7, <1>8, <1>9, <1>10 DEF Next

\* Rows, grants and executions hang together (Inv) whatever processes reserve, consume,
\* adopt, crash and restart.
THEOREM CustodyInvariant == Spec => []Inv
BY InitInv, NextInv, PTL DEF Spec

(***************************************************************************)
(* What follows.                                                           *)
(***************************************************************************)

\* The state keeps its shape, and a grant is the row's own reservation.
THEOREM CustodyGranted == Spec => []CustodyInv
<1>1. Inv => CustodyInv
  BY DEF Inv
<1> QED
  BY <1>1, CustodyInvariant, PTL

\* However processes race, crash and adopt, an intent_id is executed at most once.
THEOREM CustodyOneExecution == Spec => []OneExecution
<1>1. Inv => OneExecution
  BY DEF Inv
<1> QED
  BY <1>1, CustodyInvariant, PTL

(***************************************************************************)
(* The steps of custody, seen from the table: a step changes one row, from *)
(* nothing to reserved or from reserved to closed, or one count, or        *)
(* neither.                                                                *)
(***************************************************************************)
Reserves(id) ==
  /\ custody[id] = Nothing
  /\ \E r : custody' = [custody EXCEPT ![id] = Row(r, "reserved", NoReceipt)]
  /\ runs' = runs

Closes(id) ==
  /\ custody[id].status = "reserved"
  /\ \E status \in {"consumed", "abandoned"} : \E receipt :
       custody' = [custody EXCEPT ![id] = Row(custody[id].reservation, status, receipt)]
  /\ runs' = runs

Executes(id) ==
  /\ custody[id] # Nothing
  /\ runs[id] = 0
  /\ runs' = [runs EXCEPT ![id] = 1]
  /\ custody' = custody

LEMMA TableStep ==
  ASSUME Inv, [Next]_vars
  PROVE  \/ custody' = custody /\ runs' = runs
         \/ \E id \in Ids : Reserves(id) \/ Closes(id) \/ Executes(id)
<1> USE IntentIds
<1>1. ASSUME NEW p \in Processes, CommitReserve(p), custody' # custody
      PROVE  \E id \in Ids : Reserves(id)
  <2> DEFINE r == mem[p].reservation
             id == IdOf(r)
  <2>1. id \in Ids
    BY <1>1, Zenon DEF CommitReserve, Inv, CustodyInv, TypeOK
  <2>2. /\ Unreserved(id)
        /\ custody' = [custody EXCEPT ![id] = Row(r, "reserved", NoReceipt)]
        /\ runs' = runs
    BY <1>1, Zenon DEF CommitReserve
  <2>3. custody[id] = Nothing
    BY <2>1, <2>2, Zenon DEF Unreserved, Inv, CustodyInv, TypeOK
  <2> QED
    BY <2>1, <2>2, <2>3, Zenon DEF Reserves
<1>2. ASSUME NEW p \in Processes, CommitClose(p), custody' # custody
      PROVE  \E id \in Ids : Closes(id)
  <2> DEFINE r == mem[p].reservation
             id == IdOf(r)
  <2>1. id \in Ids /\ mem[p].status \in {"consumed", "abandoned"}
    BY <1>2, Zenon DEF CommitClose, Inv, CustodyInv, TypeOK
  <2>2. /\ custody[id].status = "reserved" /\ custody[id].reservation = r
        /\ custody' = [custody EXCEPT ![id] = Row(r, mem[p].status, mem[p].receipt)]
        /\ runs' = runs
    BY <1>2, Zenon DEF CommitClose, CheckedReservation
  <2> QED
    BY <2>1, <2>2, Zenon DEF Closes
<1>3. ASSUME NEW p \in Processes, Execute(p)
      PROVE  \E id \in Ids : Executes(id)
  <2> DEFINE id == IdOf(mem[p].reservation)
  <2>1. id \in Ids /\ runs[id] = 0 /\ custody[id] # Nothing
    BY <1>3, Zenon DEF Execute, Inv, CustodyInv, TypeOK, Granted, GrantIsRow
  <2>2. runs' = [runs EXCEPT ![id] = 1] /\ custody' = custody
    BY <1>3, <2>1 DEF Execute, Inv, CustodyInv, TypeOK
  <2> QED
    BY <2>1, <2>2, Zenon DEF Executes
<1>4. ASSUME NEW p \in Processes PROVE CommitReserve(p) \/ CommitClose(p) => runs' = runs
  BY Zenon DEF CommitReserve, CommitClose
<1>5. ASSUME NEW p \in Processes
      PROVE  BeginAbandon(p) \/ Crash(p) => custody' = custody /\ runs' = runs
  BY DEF BeginAbandon, Crash
<1>6. Tick \/ UNCHANGED vars => custody' = custody /\ runs' = runs
  BY DEF Tick, vars
<1>7. ASSUME NEW p \in Processes, NEW id \in Ids, Adopt(p, id) PROVE custody' = custody /\ runs' = runs
  BY <1>7 DEF Adopt
<1>8. ASSUME NEW p \in Processes, NEW i \in Intents, BeginReserve(p, i) \/ BeginConsume(p, i)
      PROVE  custody' = custody /\ runs' = runs
  BY <1>8, Zenon DEF BeginReserve, BeginConsume
<1> QED
  BY <1>1, <1>2, <1>3, <1>4, <1>5, <1>6, <1>7, <1>8 DEF Next

\* A closed row never changes again and a reserved row keeps its reservation.
THEOREM CustodyFinal == Spec => Final
<1>1. Inv /\ [Next]_vars => \A id \in Ids : FinalRow(custody[id], custody'[id])
  <2> SUFFICES ASSUME Inv, [Next]_vars, NEW id \in Ids
               PROVE  FinalRow(custody[id], custody'[id])
    OBVIOUS
  <2>1. CASE custody' = custody
    BY <2>1, Zenon DEF FinalRow, Inv, CustodyInv, TypeOK, Nothing
  <2>2. ASSUME NEW k \in Ids, Reserves(k) PROVE FinalRow(custody[id], custody'[id])
    BY <2>2 DEF Reserves, FinalRow, Inv, CustodyInv, TypeOK, Nothing
  <2>3. ASSUME NEW k \in Ids, Closes(k) PROVE FinalRow(custody[id], custody'[id])
    BY <2>3 DEF Closes, Row, FinalRow, Inv, CustodyInv, TypeOK, Nothing
  <2> QED
    BY <2>1, <2>2, <2>3, TableStep DEF Executes
<1> QED
  BY <1>1, CustodyInvariant, PTL DEF Spec, Final

\* The custody of an intent_id is a one-use authorization (OneUse): reserving it
\* spends it, an execution that starts from the reservation uses it, consume and
\* abandon close it, and everything else is invisible.
THEOREM CustodyImplementsOneUse == Spec => ImplementsOneUse
<1> DEFINE phases == [id \in Ids |-> Phase(custody[id])]
<1>1. Init => Promise!Init
  BY DEF Init, Promise!Init, Phase, Nothing
<1>2. Inv /\ [Next]_vars => [Promise!Next]_(Promise!oneUseVars)
  <2> SUFFICES ASSUME Inv, [Next]_vars
               PROVE  [Promise!Next]_(Promise!oneUseVars)
    OBVIOUS
  <2>1. CASE custody' = custody /\ runs' = runs
    BY <2>1 DEF Promise!oneUseVars
  <2>2. ASSUME NEW id \in Ids, Reserves(id) PROVE Promise!Spend(id)
    <3>1. phases[id] = "unused"
      BY <2>2 DEF Reserves, Phase, Nothing
    <3>2. /\ Phase(custody'[id]) = "spent"
          /\ \A k \in Ids \ {id} : custody'[k] = custody[k]
      BY <2>2 DEF Reserves, Row, Phase, Inv, CustodyInv, TypeOK
    <3>3. phases' = [phases EXCEPT ![id] = "spent"]
      BY <3>2, Zenon
    <3> QED
      BY <2>2, <3>1, <3>3 DEF Reserves, Promise!Spend
  <2>3. ASSUME NEW id \in Ids, Closes(id) PROVE Promise!Close(id)
    <3>1. phases[id] = "spent"
      BY <2>3 DEF Closes, Phase
    <3>2. /\ Phase(custody'[id]) = "closed"
          /\ \A k \in Ids \ {id} : custody'[k] = custody[k]
      BY <2>3 DEF Closes, Row, Phase, Inv, CustodyInv, TypeOK
    <3>3. phases' = [phases EXCEPT ![id] = "closed"]
      BY <3>2, Zenon
    <3> QED
      BY <2>3, <3>1, <3>3 DEF Closes, Promise!Close
  <2>4. ASSUME NEW id \in Ids, Executes(id) PROVE Promise!Use(id)
    <3>1. phases[id] # "unused"
      BY <2>4 DEF Executes, Phase, Inv, CustodyInv, TypeOK
    <3> QED
      BY <2>4, <3>1 DEF Executes, Promise!Use
  <2> QED
    BY <2>1, <2>2, <2>3, <2>4, TableStep DEF Promise!Next
<1> QED
  BY <1>1, <1>2, CustodyInvariant, PTL DEF Spec, ImplementsOneUse, Promise!Spec

----------------------------------------------------------------------------
(* From here on the cardinality of finite sets is needed.                  *)
INSTANCE FiniteSetTheorems

----------------------------------------------------------------------------
(* reconcile.                                                              *)

\* Of a finite set of numbers, each is the one of its rank, and every rank is taken.
LEMMA NthOf ==
  ASSUME NEW S \in SUBSET Nat, IsFiniteSet(S)
  PROVE  /\ Cardinality(S) \in Nat
         /\ \A j \in 1..Cardinality(S) : Nth(S, j) \in S
         /\ \A i \in S : \E j \in 1..Cardinality(S) : Nth(S, j) = i
         /\ \A j, k \in 1..Cardinality(S) : Nth(S, j) = Nth(S, k) => j = k
<1> DEFINE below(i) == {m \in S : m < i}
           N == Cardinality(S)
           rank == [i \in S |-> Cardinality(below(i)) + 1]
<1>1. N \in Nat /\ IsFiniteSet(1..N) /\ Cardinality(1..N) = N
  <2>1. N \in Nat
    BY FS_CardinalityType
  <2> HIDE DEF N
  <2>2. IsFiniteSet(1..N) /\ Cardinality(1..N) = N
    BY <2>1, FS_Interval
  <2> QED BY <2>1, <2>2
<1>2. ASSUME NEW i \in S PROVE Cardinality(below(i)) \in Nat /\ Cardinality(below(i)) < N
  <2>1. below(i) \in SUBSET S /\ i \notin below(i) /\ i \in S
    OBVIOUS
  <2>2. IsFiniteSet(below(i)) /\ Cardinality(below(i)) <= N /\ (N = Cardinality(below(i)) => S = below(i))
    BY <2>1, FS_Subset
  <2>3. Cardinality(below(i)) \in Nat
    BY <2>2, FS_CardinalityType
  <2> HIDE DEF below, N
  <2> QED BY <1>1, <2>1, <2>2, <2>3
<1>3. ASSUME NEW i \in S, NEW k \in S, i < k PROVE Cardinality(below(i)) < Cardinality(below(k))
  <2>1. below(i) \in SUBSET below(k) /\ i \notin below(i) /\ i \in below(k)
    <3>1. i \in Nat /\ k \in Nat /\ \A m \in S : m \in Nat
      OBVIOUS
    <3>2. \A m \in S : m < i => m < k
      BY <1>3, <3>1
    <3>3. below(i) \subseteq below(k)
      BY <3>2, Zenon
    <3>4. i \notin below(i) /\ i \in below(k)
      BY <1>3, <3>1
    <3> QED BY <3>3, <3>4
  <2>2. IsFiniteSet(below(k))
    BY FS_Subset
  <2>3. /\ Cardinality(below(i)) <= Cardinality(below(k))
        /\ Cardinality(below(k)) = Cardinality(below(i)) => below(k) = below(i)
    BY <2>1, <2>2, FS_Subset
  <2>4. Cardinality(below(i)) \in Nat /\ Cardinality(below(k)) \in Nat
    BY <1>2
  <2> HIDE DEF below
  <2> QED BY <2>1, <2>3, <2>4
<1>4. \A i, k \in S : Cardinality(below(i)) = Cardinality(below(k)) => i = k
  <2> SUFFICES ASSUME NEW i \in S, NEW k \in S, Cardinality(below(i)) = Cardinality(below(k)), i # k
               PROVE  FALSE
    OBVIOUS
  <2>1. i < k \/ k < i
    OBVIOUS
  <2>2. Cardinality(below(i)) \in Nat /\ Cardinality(below(k)) \in Nat
    BY <1>2
  <2>3. Cardinality(below(i)) < Cardinality(below(k)) \/ Cardinality(below(k)) < Cardinality(below(i))
    BY <1>3, <2>1
  <2> HIDE DEF below
  <2> QED BY <2>2, <2>3
<1>5. \A i \in S : rank[i] \in 1..N /\ Cardinality(below(i)) = rank[i] - 1
  <2> SUFFICES ASSUME NEW i \in S PROVE rank[i] \in 1..N /\ Cardinality(below(i)) = rank[i] - 1
    OBVIOUS
  <2>1. rank[i] = Cardinality(below(i)) + 1
    OBVIOUS
  <2> HIDE DEF below, rank, N
  <2> QED BY <1>1, <1>2, <2>1
<1>6. rank \in Injection(S, 1..N)
  <2>1. rank \in [S -> 1..N]
    BY <1>5
  <2>2. \A i, k \in S : rank[i] = rank[k] => i = k
    BY <1>4, <1>5
  <2> HIDE DEF rank, N
  <2> QED BY <2>1, <2>2 DEF Injection, IsInjective
<1>7. rank \in Surjection(S, 1..N)
  <2> HIDE DEF rank
  <2>1. N = Cardinality(1..N) <=> rank \in Surjection(S, 1..N)
    BY <1>1, <1>6, FS_Injection
  <2> QED BY <1>1, <2>1
<1>8. \A j \in 1..N : \E i \in S : rank[i] = j
  <2> HIDE DEF rank, N
  <2> QED BY <1>7 DEF Surjection
<1>9. ASSUME NEW i \in S PROVE Nth(S, rank[i]) = i
  <2>1. \A k \in S : Cardinality(below(k)) = rank[i] - 1 <=> k = i
    BY <1>4, <1>5
  <2>2. Nth(S, rank[i]) = CHOOSE k \in S : Cardinality(below(k)) = rank[i] - 1
    BY DEF Nth
  <2> HIDE DEF below, rank
  <2> QED BY <2>1, <2>2
<1> HIDE DEF rank, below, N
<1>10. \A j \in 1..N : Nth(S, j) \in S
  BY <1>8, <1>9
<1>11. \A i \in S : \E j \in 1..N : Nth(S, j) = i
  BY <1>5, <1>9
<1>12. \A j, k \in 1..N : Nth(S, j) = Nth(S, k) => j = k
  BY <1>8, <1>9
<1> QED BY <1>1, <1>10, <1>11, <1>12 DEF N
LEMMA IndexesOf ==
  ASSUME NEW intent, FitsSchema(intent), NEW delta
  PROVE  /\ Indexes(intent, delta) \in SUBSET (1..Len(intent.expected))
         /\ IsFiniteSet(Indexes(intent, delta)) /\ Cardinality(Indexes(intent, delta)) \in Nat
         /\ Cardinality(Indexes(intent, delta)) = 0 <=> Indexes(intent, delta) = {}
<1>1. Indexes(intent, delta) \in SUBSET (1..Len(intent.expected))
  BY DEF Indexes, FitsSchema
<1>2. IsFiniteSet(1..Len(intent.expected))
  <2>1. Len(intent.expected) \in Int
    BY DEF FitsSchema
  <2> QED BY <2>1, FS_Interval
<1>3. IsFiniteSet(Indexes(intent, delta))
  BY <1>1, <1>2, FS_Subset
<1> QED BY <1>1, <1>3, FS_CardinalityType, FS_EmptySet

\* A delta that the loop credits to a change matches one, and no other, by its slot.
LEMMA AuthorizedIndex ==
  ASSUME NEW intent, FitsSchema(intent), NEW delta, Classify(intent, delta) \in Authorized
  PROVE  /\ \E i \in DOMAIN intent.expected : Indexes(intent, delta) = {i}
         /\ Cardinality(Indexes(intent, delta)) = 1
<1> DEFINE idx == Indexes(intent, delta)
<1>1. ~(Cardinality(idx) > 1) /\ idx # {}
  BY DEF Classify, Authorized
<1>2. Cardinality(idx) = 1
  <2> HIDE DEF idx
  <2>1. Cardinality(idx) \in Nat /\ (Cardinality(idx) = 0 <=> idx = {})
    BY IndexesOf DEF idx
  <2> QED BY <1>1, <2>1
<1>3. \E i : idx = {i}
  BY <1>2, IndexesOf, FS_Singleton
<1> QED BY <1>2, <1>3, IndexesOf, Zenon DEF FitsSchema

\* authorized_success: the delta shows its change made, exactly and in time.
LEMMA SuccessShows ==
  ASSUME NEW intent, FitsSchema(intent), NEW delta, delta.at \in Nat, NEW i \in DOMAIN intent.expected
  PROVE  Classify(intent, delta) = "authorized_success" /\ i \in Indexes(intent, delta)
           <=> Shows(intent, delta, i) /\ Indexes(intent, delta) = {i}
<1> DEFINE idx == Indexes(intent, delta)
<1>1. intent.created > delta.at <=> ~(intent.created <= delta.at)
  BY DEF FitsSchema
<1>2. ASSUME Classify(intent, delta) = "authorized_success", i \in idx
      PROVE  Shows(intent, delta, i) /\ idx = {i}
  <2>1. idx = {i} /\ (CHOOSE k \in idx : TRUE) = i
    BY <1>2, AuthorizedIndex DEF Authorized
  <2>2. delta.slot = intent.expected[i].slot
    BY <1>2 DEF Indexes
  <2> HIDE DEF idx
  <2>3. /\ delta.here /\ delta.complete /\ ~intent.retrospective /\ ~(intent.created > delta.at)
        /\ InWindow(intent, delta) /\ Outcome(intent.expected[i], delta) = "authorized_success"
    BY <1>2, <2>1 DEF Classify, idx
  <2>4. intent.expected[i].diff = delta.diff /\ delta.post = "PASS"
    BY <2>3 DEF Outcome
  <2> QED BY <1>1, <2>1, <2>2, <2>3, <2>4 DEF Shows, InWindow
<1>3. ASSUME Shows(intent, delta, i), idx = {i}
      PROVE  Classify(intent, delta) = "authorized_success" /\ i \in idx
  <2>1. Cardinality(idx) = 1 /\ (CHOOSE k \in idx : TRUE) = i
    BY <1>3, FS_Singleton
  <2>2. Outcome(intent.expected[i], delta) = "authorized_success" /\ InWindow(intent, delta)
    BY <1>3 DEF Shows, Outcome, InWindow
  <2>3. delta.here /\ delta.complete /\ ~intent.retrospective /\ ~(intent.created > delta.at)
    BY <1>1, <1>3 DEF Shows
  <2>4. ~(Cardinality(idx) > 1) /\ idx # {} /\ i \in idx
    BY <1>3, <2>1
  <2> QED BY <2>1, <2>2, <2>3, <2>4, Zenon DEF Classify
<1> QED BY <1>2, <1>3

LEMMA Joined ==
  ASSUME NEW V, NEW a \in Seq(V), NEW b \in Seq(V)
  PROVE  /\ DOMAIN (a \o b) = 1..(Len(a) + Len(b)) /\ \A k \in 1..Len(a) : (a \o b)[k] = a[k]
         /\ \A j \in 1..Len(b) : (a \o b)[Len(a) + j] = b[j]
OBVIOUS

\* The entries of a report: one for each delta, then one for each change that is missing.
LEMMA ReportShape ==
  ASSUME NEW intent, FitsSchema(intent), NEW D, NEW observed \in Seq(D), observed # <<>>
  PROVE  LET report == Reconcile(intent, observed)
             missing == Missing(intent, observed)
             n == Len(observed)
         IN /\ missing \in SUBSET Nat /\ IsFiniteSet(missing) /\ Cardinality(missing) \in Nat
            /\ DOMAIN report = 1..(n + Cardinality(missing))
            /\ \A k \in 1..n : report[k] = Entry(Classify(intent, observed[k]), k, EntryIndex(intent, observed[k]))
            /\ \A j \in 1..Cardinality(missing) :
                 /\ report[n + j].class \in {"authorized_partial", "planned_not_observed"}
                 /\ report[n + j].delta = NoIndex
                 /\ report[n + j].index = Nth(missing, j)
<1> DEFINE missing == Missing(intent, observed)
           n == Len(observed)
           m == Cardinality(missing)
           absence == IF Matched(intent, observed) # {} THEN "authorized_partial" ELSE "planned_not_observed"
           s == [k \in DOMAIN observed |->
                   Entry(Classify(intent, observed[k]), k, EntryIndex(intent, observed[k]))]
           t == [j \in 1..m |-> Entry(absence, NoIndex, Nth(missing, j))]
<1>1. missing \in SUBSET (1..Len(intent.expected)) /\ Len(intent.expected) \in Nat
  BY DEF Missing, FitsSchema
<1>2. missing \in SUBSET Nat /\ IsFiniteSet(missing) /\ m \in Nat
  <2> HIDE DEF missing
  <2>1. IsFiniteSet(1..Len(intent.expected))
    BY <1>1, FS_Interval
  <2>2. IsFiniteSet(missing)
    BY <1>1, <2>1, FS_Subset, Zenon
  <2> QED BY <1>1, <2>2, FS_CardinalityType
<1>3. Reconcile(intent, observed) = s \o t
  BY Zenon DEF Reconcile
<1>4. n \in Nat /\ DOMAIN observed = 1..n
  OBVIOUS
<1> HIDE DEF missing, m, n
<1>5. \A k \in 1..n : s[k] = Entry(Classify(intent, observed[k]), k, EntryIndex(intent, observed[k]))
  BY <1>4
<1>6. \A j \in 1..m : t[j].class = absence /\ t[j].delta = NoIndex /\ t[j].index = Nth(missing, j)
  BY DEF Entry
<1> DEFINE V == {s[k] : k \in 1..n} \cup {t[k] : k \in 1..m}
<1>7. s \in Seq(V) /\ Len(s) = n
  <2>1. DOMAIN s = 1..n /\ s = [k \in DOMAIN s |-> s[k]]
    BY <1>4
  <2> HIDE DEF s
  <2>2. s \in [1..n -> V]
    BY <2>1
  <2> QED BY <1>4, <2>2
<1>8. t \in Seq(V) /\ Len(t) = m
  <2>1. DOMAIN t = 1..m /\ t = [k \in DOMAIN t |-> t[k]]
    OBVIOUS
  <2> HIDE DEF s, t
  <2>2. t \in [1..m -> V]
    BY <2>1
  <2> QED BY <1>2, <2>2
<1>9. absence \in {"authorized_partial", "planned_not_observed"}
  OBVIOUS
<1> HIDE DEF s, t, V, absence
<1>10. /\ DOMAIN (s \o t) = 1..(n + m) /\ \A k \in 1..n : (s \o t)[k] = s[k]
       /\ \A j \in 1..m : (s \o t)[n + j] = t[j]
  <2>1. PICK a \in Seq(V) : a = s
    BY <1>7
  <2>2. PICK b \in Seq(V) : b = t
    BY <1>8
  <2>3. /\ DOMAIN (a \o b) = 1..(Len(a) + Len(b)) /\ \A k \in 1..Len(a) : (a \o b)[k] = a[k]
        /\ \A j \in 1..Len(b) : (a \o b)[Len(a) + j] = b[j]
    BY Joined
  <2> QED BY <1>7, <1>8, <2>1, <2>2, <2>3
<1> QED BY <1>2, <1>3, <1>5, <1>6, <1>9, <1>10, Zenon DEF missing, m, n
\* A report without a blemish: every delta is a success, and nothing is missing.
LEMMA CleanMeans ==
  ASSUME NEW intent, FitsSchema(intent), NEW D, NEW observed \in Seq(D), observed # <<>>
  PROVE  Clean(Reconcile(intent, observed)) <=>
           /\ \A k \in DOMAIN observed : Classify(intent, observed[k]) = "authorized_success"
           /\ Missing(intent, observed) = {}
<1> DEFINE missing == Missing(intent, observed)
           m == Cardinality(missing)
           n == Len(observed)
           report == Reconcile(intent, observed)
<1>0. n \in Nat /\ DOMAIN observed = 1..n
  OBVIOUS
<1>1. /\ IsFiniteSet(missing) /\ m \in Nat
      /\ DOMAIN report = 1..(n + m)
      /\ \A k \in 1..n : report[k] = Entry(Classify(intent, observed[k]), k, EntryIndex(intent, observed[k]))
      /\ \A j \in 1..m : report[n + j].class \in {"authorized_partial", "planned_not_observed"}
  BY ReportShape, Zenon
<1>2. m = 0 <=> missing = {}
  BY <1>1, FS_EmptySet, Zenon
<1> HIDE DEF missing, m, n, report
<1>3. ASSUME NEW k \in 1..n PROVE report[k].class = Classify(intent, observed[k])
  <2>1. report[k] = Entry(Classify(intent, observed[k]), k, EntryIndex(intent, observed[k]))
    BY <1>1
  <2> QED BY <2>1, EntryClass
<1>4. ASSUME Clean(report)
      PROVE  (\A k \in 1..n : Classify(intent, observed[k]) = "authorized_success") /\ m = 0
  <2>1. \A k \in 1..(n + m) : report[k].class = "authorized_success"
    BY <1>0, <1>1, <1>4 DEF Clean
  <2>2. \A k \in 1..n : k \in 1..(n + m)
    BY <1>0, <1>1
  <2>3. m = 0
    <3> SUFFICES ASSUME m # 0 PROVE FALSE
      OBVIOUS
    <3>1. 1 \in 1..m /\ n + 1 \in 1..(n + m)
      BY <1>0, <1>1
    <3> QED BY <1>1, <2>1, <3>1
  <2> QED BY <1>3, <2>1, <2>2, <2>3
<1>5. ASSUME \A k \in 1..n : Classify(intent, observed[k]) = "authorized_success", m = 0
      PROVE  Clean(report)
  <2>1. DOMAIN report = 1..n
    BY <1>0, <1>1, <1>5
  <2> QED BY <1>3, <1>5, <2>1 DEF Clean
<1> QED BY <1>0, <1>2, <1>4, <1>5, Zenon DEF missing, report

\* The changes that some delta was credited to (matched_expected).
LEMMA MatchedBy ==
  ASSUME NEW intent, NEW observed, NEW i \in DOMAIN intent.expected
  PROVE  i \in Missing(intent, observed) <=>
           ~\E k \in DOMAIN observed : Classify(intent, observed[k]) \in Authorized /\ i \in Indexes(intent, observed[k])
BY DEF Missing, Matched

\* Nothing observed is never clean.
LEMMA EmptyReport ==
  ASSUME NEW intent PROVE ~Clean(Reconcile(intent, <<>>))
BY DEF Reconcile, Clean, Entry

\* A clean report means that the plan was carried out.
LEMMA CleanIsCarriedOut ==
  ASSUME NEW intent, FitsSchema(intent), NEW D, \A e \in D : e.at \in Nat, NEW observed \in Seq(D),
         Clean(Reconcile(intent, observed))
  PROVE  CarriedOut(intent, observed) /\ \A i \in DOMAIN intent.expected :
                                           \E k \in DOMAIN observed : Shows(intent, observed[k], i)
<1>1. observed # <<>>
  BY EmptyReport
<1>2. /\ \A k \in DOMAIN observed : Classify(intent, observed[k]) = "authorized_success"
      /\ Missing(intent, observed) = {}
  BY <1>1, CleanMeans
<1>3. \A k \in DOMAIN observed : observed[k].at \in Nat
  OBVIOUS
<1> DEFINE shown == [k \in DOMAIN observed |-> CHOOSE i \in DOMAIN intent.expected : Indexes(intent, observed[k]) = {i}]
<1>4. ASSUME NEW k \in DOMAIN observed
      PROVE  /\ shown[k] \in DOMAIN intent.expected /\ Indexes(intent, observed[k]) = {shown[k]}
             /\ Shows(intent, observed[k], shown[k])
  <2>1. \E i \in DOMAIN intent.expected : Indexes(intent, observed[k]) = {i}
    BY <1>2, AuthorizedIndex DEF Authorized
  <2>2. shown[k] \in DOMAIN intent.expected /\ Indexes(intent, observed[k]) = {shown[k]}
    BY <2>1, Zenon
  <2> HIDE DEF shown
  <2>3. shown[k] \in Indexes(intent, observed[k])
    BY <2>2
  <2> QED BY <1>2, <1>3, <2>2, <2>3, SuccessShows
<1>5. shown \in [DOMAIN observed -> DOMAIN intent.expected]
  BY <1>4, Zenon
<1> HIDE DEF shown
<1>6. ASSUME NEW i \in DOMAIN intent.expected
      PROVE  \E k \in DOMAIN observed : shown[k] = i /\ i \in Indexes(intent, observed[k])
  <2>1. PICK k \in DOMAIN observed : i \in Indexes(intent, observed[k])
    BY <1>2, MatchedBy, Zenon
  <2> QED BY <1>4, <2>1
<1>7. ASSUME NEW i \in DOMAIN intent.expected, NEW j \in DOMAIN intent.expected,
             intent.expected[i].slot = intent.expected[j].slot
      PROVE  i = j
  <2>1. PICK k \in DOMAIN observed : shown[k] = i /\ i \in Indexes(intent, observed[k])
    BY <1>6
  <2>2. j \in Indexes(intent, observed[k])
    BY <1>7, <2>1 DEF Indexes
  <2> QED BY <1>4, <2>1, <2>2
<1>8. CarriedOut(intent, observed)
  BY <1>4, <1>5, <1>6, <1>7 DEF CarriedOut
<1> QED BY <1>4, <1>6, <1>8

\* And the other way round.
LEMMA CarriedOutIsClean ==
  ASSUME NEW intent, FitsSchema(intent), NEW D, \A e \in D : e.at \in Nat, NEW observed \in Seq(D),
         CarriedOut(intent, observed)
  PROVE  Clean(Reconcile(intent, observed))
<1>1. PICK shown \in [DOMAIN observed -> DOMAIN intent.expected] :
        /\ \A i \in DOMAIN intent.expected : \E k \in DOMAIN observed : shown[k] = i
        /\ \A k \in DOMAIN observed : Shows(intent, observed[k], shown[k])
        /\ \A i, j \in DOMAIN intent.expected :
             intent.expected[i].slot = intent.expected[j].slot => i = j
  BY DEF CarriedOut
<1>2. 1 \in DOMAIN intent.expected
  BY DEF FitsSchema
<1>3. observed # <<>>
  BY <1>1, <1>2
<1>4. ASSUME NEW k \in DOMAIN observed
      PROVE  /\ Indexes(intent, observed[k]) = {shown[k]} /\ Classify(intent, observed[k]) = "authorized_success"
  <2>1. shown[k] \in DOMAIN intent.expected /\ Shows(intent, observed[k], shown[k]) /\ observed[k].at \in Nat
    BY <1>1
  <2>2. Indexes(intent, observed[k]) = {shown[k]}
    BY <1>1, <2>1 DEF Indexes, Shows
  <2> QED BY <2>1, <2>2, SuccessShows
<1>5. ASSUME NEW i \in Missing(intent, observed) PROVE FALSE
  <2>1. i \in DOMAIN intent.expected
    BY <1>5 DEF Missing
  <2>2. PICK k \in DOMAIN observed : shown[k] = i
    BY <1>1, <2>1
  <2> QED BY <1>4, <1>5, <2>1, <2>2, MatchedBy DEF Authorized
<1> QED BY <1>3, <1>4, <1>5, CleanMeans
\* Every delta has one entry, and every change is credited or noted as missing, once.
LEMMA EntriesAccount ==
  ASSUME NEW intent, FitsSchema(intent), NEW D, NEW observed \in Seq(D), observed # <<>>
  PROVE  Accounts(intent, observed, Reconcile(intent, observed))
<1> DEFINE missing == Missing(intent, observed)
           m == Cardinality(missing)
           n == Len(observed)
           r == Reconcile(intent, observed)
<1>1. n \in Nat /\ DOMAIN observed = 1..n
  OBVIOUS
<1>2. /\ missing \in SUBSET Nat /\ IsFiniteSet(missing) /\ m \in Nat /\ DOMAIN r = 1..(n + m)
      /\ \A k \in 1..n : r[k] = Entry(Classify(intent, observed[k]), k, EntryIndex(intent, observed[k]))
      /\ \A j \in 1..m : r[n + j].delta = NoIndex /\ r[n + j].index = Nth(missing, j)
  BY ReportShape, ZenonT(30)
<1>3. /\ \A j \in 1..m : Nth(missing, j) \in missing
      /\ \A i \in missing : \E j \in 1..m : Nth(missing, j) = i
      /\ \A j, k \in 1..m : Nth(missing, j) = Nth(missing, k) => j = k
  BY <1>2, NthOf, Zenon
<1>4. \A i \in DOMAIN intent.expected :
        i \in missing <=> ~\E k \in 1..n : Classify(intent, observed[k]) \in Authorized /\ i \in Indexes(intent, observed[k])
  BY <1>1, MatchedBy
<1>5. ASSUME NEW k \in 1..n
      PROVE  /\ r[k].delta = k /\ r[k].class = Classify(intent, observed[k])
             /\ r[k].index = EntryIndex(intent, observed[k])
  <2>1. r[k] = Entry(Classify(intent, observed[k]), k, EntryIndex(intent, observed[k]))
    BY <1>2
  <2> QED BY <2>1 DEF Entry
<1> HIDE DEF missing, m, n, r
<1>6. \A x \in 1..(n + m) : x \in 1..n \/ \E j \in 1..m : x = n + j
  <2> SUFFICES ASSUME NEW x \in 1..(n + m), x \notin 1..n PROVE x - n \in 1..m /\ x = n + (x - n)
    OBVIOUS
  <2> QED BY <1>1, <1>2
<1>7. ASSUME NEW k \in 1..n PROVE Cardinality({x \in DOMAIN r : r[x].delta = k}) = 1
  <2>1. k # NoIndex /\ k \in 1..(n + m)
    BY <1>1, <1>2 DEF NoIndex
  <2>2. {x \in DOMAIN r : r[x].delta = k} = {k}
    BY <1>2, <1>5, <1>6, <2>1
  <2> QED BY <2>2, FS_Singleton, Zenon
<1>8. ASSUME NEW i \in DOMAIN intent.expected
      PROVE  LET credited == {x \in DOMAIN r : r[x].index = i /\ r[x].delta # NoIndex /\ r[x].class \in Authorized}
                 noted == {x \in DOMAIN r : r[x].index = i /\ r[x].delta = NoIndex}
             IN IF credited = {} THEN Cardinality(noted) = 1 ELSE noted = {}
  <2> DEFINE credited == {x \in DOMAIN r : r[x].index = i /\ r[x].delta # NoIndex /\ r[x].class \in Authorized}
             noted == {x \in DOMAIN r : r[x].index = i /\ r[x].delta = NoIndex}
  <2>1. \A k \in 1..n : k # NoIndex /\ k \in DOMAIN r
    BY <1>1, <1>2 DEF NoIndex
  <2>2. ASSUME NEW k \in 1..n, Classify(intent, observed[k]) \in Authorized
        PROVE  r[k].index = i <=> i \in Indexes(intent, observed[k])
    <3>1. PICK h \in DOMAIN intent.expected : Indexes(intent, observed[k]) = {h}
      BY <2>2, AuthorizedIndex
    <3>2. Cardinality(Indexes(intent, observed[k])) = 1
      BY <2>2, AuthorizedIndex
    <3>3. EntryIndex(intent, observed[k]) = CHOOSE z \in {h} : TRUE
      BY <2>2, <3>1, <3>2 DEF EntryIndex
    <3>4. EntryIndex(intent, observed[k]) = h
      BY <3>3
    <3> QED BY <1>5, <3>1, <3>4
  <2>3. credited = {} <=> i \in missing
    <3>1. ASSUME NEW x \in credited PROVE i \notin missing
      <4>1. x \in 1..n /\ r[x].index = i /\ r[x].class \in Authorized
        BY <1>2, <1>6, <3>1
      <4>2. Classify(intent, observed[x]) \in Authorized /\ i \in Indexes(intent, observed[x])
        BY <1>5, <2>2, <4>1
      <4> QED BY <1>4, <4>1, <4>2
    <3>2. ASSUME i \notin missing PROVE credited # {}
      <4>1. PICK k \in 1..n : Classify(intent, observed[k]) \in Authorized /\ i \in Indexes(intent, observed[k])
        BY <1>4, <3>2
      <4>2. k \in credited
        BY <1>5, <2>1, <2>2, <4>1
      <4> QED BY <4>2
    <3> HIDE DEF credited
    <3> QED BY <3>1, <3>2
  <2>4. ASSUME i \in missing PROVE Cardinality(noted) = 1
    <3>1. PICK j \in 1..m : Nth(missing, j) = i
      BY <1>3, <2>4
    <3>2. n + j \in 1..(n + m)
      BY <1>1, <1>2
    <3>3. n + j \in noted
      BY <1>2, <3>1, <3>2
    <3>4. ASSUME NEW x \in noted PROVE x = n + j
      <4>1. x \notin 1..n /\ x \in 1..(n + m) /\ r[x].index = i
        BY <1>2, <1>5, <2>1, <3>4
      <4>2. PICK h \in 1..m : x = n + h
        BY <1>6, <4>1
      <4>3. Nth(missing, h) = i
        BY <1>2, <4>1, <4>2
      <4> QED BY <1>3, <3>1, <4>2, <4>3
    <3> HIDE DEF noted
    <3>5. noted = {n + j}
      BY <3>3, <3>4
    <3> QED BY <3>5, FS_Singleton, Zenon
  <2>5. ASSUME i \notin missing, NEW x \in noted PROVE FALSE
    <3>1. x \notin 1..n /\ x \in 1..(n + m) /\ r[x].index = i
      BY <1>2, <1>5, <2>1, <2>5
    <3>2. PICK h \in 1..m : x = n + h
      BY <1>6, <3>1
    <3> QED BY <1>2, <1>3, <2>5, <3>1, <3>2
  <2> HIDE DEF credited, noted
  <2>6. IF credited = {} THEN Cardinality(noted) = 1 ELSE noted = {}
    BY <2>3, <2>4, <2>5
  <2> QED BY <2>6 DEF credited, noted
<1>9. \A k \in DOMAIN observed : Cardinality({x \in DOMAIN r : r[x].delta = k}) = 1
  BY <1>1, <1>7
<1> QED BY <1>8, <1>9, Zenon DEF Accounts, r

\* reconcile says what happened, for every plan and every list of observations: no
\* blemish is hidden by another delta and none is invented, and every delta and every
\* expected change has its place in the report, once.
THEOREM ReconcileTruthful ==
  ASSUME NEW intent, FitsSchema(intent), NEW D, \A e \in D : e.at \in Nat, NEW observed \in Seq(D)
  PROVE  Truthful(intent, observed)
<1>1. Clean(Reconcile(intent, observed)) <=> CarriedOut(intent, observed)
  BY CleanIsCarriedOut, CarriedOutIsClean
<1>2. Accounts(intent, observed, Reconcile(intent, observed))
  <2>1. CASE observed = <<>>
    BY <2>1, EmptyReport DEF Accounts
  <2> QED BY <2>1, EntriesAccount
<1> QED BY <1>1, <1>2 DEF Truthful

----------------------------------------------------------------------------
(* What a receipt attests.                                                 *)

Attested(results, intent) == Clean(results) => \E e \in world : Shows(intent, e, 1)

AttestInv ==
  /\ Inv
  /\ \A e \in world : e.at \in Nat
  /\ \A p \in Processes :
       mem[p].step = "closing" /\ mem[p].status = "consumed"
         => Attested(mem[p].receipt.results, mem[p].reservation.intent)
  /\ CleanReceiptAttests

LEMMA EffectIsNow ==
  ASSUME NEW intent, NEW now, NEW e \in Effects(intent, now)
  PROVE  e.at = now
BY DEF Effects

LEMMA NextAttest == AttestInv /\ [Next]_vars => AttestInv'
<1> SUFFICES ASSUME AttestInv, [Next]_vars PROVE AttestInv'
  OBVIOUS
<1>1. Inv'
  BY NextInv DEF AttestInv
<1>2. TypeOK
  BY DEF AttestInv, Inv, CustodyInv
<1>3. ASSUME UNCHANGED <<custody, world>>, NEW p \in Processes, NEW m, Goto(p, m),
             m.step = "closing" /\ m.status = "consumed" => Attested(m.receipt.results, m.reservation.intent)
      PROVE  AttestInv'
  <2>1. mem'[p] = m /\ \A q \in Processes \ {p} : mem'[q] = mem[q]
    BY <1>2, <1>3 DEF Goto, TypeOK
  <2>2. \A q \in Processes :
          mem'[q].step = "closing" /\ mem'[q].status = "consumed"
            => Attested(mem[q].receipt.results, mem[q].reservation.intent)'
    BY <1>3, <2>1 DEF AttestInv, Attested
  <2>3. CleanReceiptAttests' /\ \A e \in world' : e.at \in Nat
    BY <1>3 DEF AttestInv, CleanReceiptAttests
  <2> QED BY <1>1, <2>2, <2>3 DEF AttestInv
<1>4. ASSUME UNCHANGED <<custody, world, mem>> PROVE AttestInv'
  BY <1>1, <1>4, Zenon DEF AttestInv, CleanReceiptAttests, Attested
<1>5. ASSUME NEW p \in Processes, Execute(p) PROVE AttestInv'
  <2>1. /\ custody' = custody /\ mem[p].step = "granted" /\ mem' = [mem EXCEPT ![p] = [mem[p] EXCEPT !.step = "executed"]]
        /\ \E e \in Effects(mem[p].reservation.intent, clock) : world' = world \cup {e}
    BY <1>5 DEF Execute, Goto
  <2>2. PICK e \in Effects(mem[p].reservation.intent, clock) : world' = world \cup {e}
    BY <2>1, Zenon
  <2>3. e.at \in Nat
    <3>1. e.at = clock
      BY EffectIsNow, Zenon
    <3> QED BY <1>2, <3>1 DEF TypeOK
  <2>4. world \subseteq world' /\ \A x \in world' : x.at \in Nat
    BY <2>2, <2>3 DEF AttestInv
  <2>5. mem'[p].step # "closing" /\ \A q \in Processes \ {p} : mem'[q] = mem[q]
    <3>1. "step" \in DOMAIN mem[p] \/ "step" \notin DOMAIN mem[p]
      OBVIOUS
    <3> QED BY <1>1, <1>2, <2>1 DEF TypeOK, Inv, CustodyInv
  <2>6. ASSUME NEW q \in Processes, mem'[q].step = "closing", mem'[q].status = "consumed"
        PROVE  Attested(mem[q].receipt.results, mem[q].reservation.intent)'
    <3>1. mem'[q] = mem[q] /\ Attested(mem[q].receipt.results, mem[q].reservation.intent)
      BY <2>5, <2>6 DEF AttestInv
    <3> QED BY <2>4, <3>1 DEF Attested
  <2>7. CleanReceiptAttests'
    BY <2>1, <2>4, Zenon DEF AttestInv, CleanReceiptAttests
  <2> QED BY <1>1, <2>4, <2>6, <2>7 DEF AttestInv
<1>6. ASSUME NEW p \in Processes, NEW i \in Intents, BeginConsume(p, i) PROVE AttestInv'
  <2>1. PICK observed \in Reports :
          /\ Goto(p, [step |-> "closing", reservation |-> mem[p].reservation, status |-> "consumed",
                      receipt |-> [closed |-> clock, results |-> Reconcile(i, observed)]])
          /\ i = mem[p].reservation.intent /\ UNCHANGED <<custody, world>>
    BY <1>6, Zenon DEF BeginConsume, Matches
  <2>2. FitsSchema(i)
    BY IntentsAssumption DEF Verified
  <2>3. observed \in Seq(world) /\ \A k \in DOMAIN observed : observed[k] \in world
    BY <2>1 DEF Reports
  <2>4. \A e \in world : e.at \in Nat
    BY DEF AttestInv
  <2>5. Attested(Reconcile(i, observed), i)
    <3> SUFFICES ASSUME Clean(Reconcile(i, observed)) PROVE \E e \in world : Shows(i, e, 1)
      BY DEF Attested
    <3>1. \A k \in DOMAIN i.expected : \E j \in DOMAIN observed : Shows(i, observed[j], k)
      BY <2>2, <2>3, <2>4, CleanIsCarriedOut
    <3>2. 1 \in DOMAIN i.expected
      BY <2>2 DEF FitsSchema
    <3> QED BY <2>3, <3>1, <3>2
  <2> DEFINE m == [step |-> "closing", reservation |-> mem[p].reservation, status |-> "consumed",
                   receipt |-> [closed |-> clock, results |-> Reconcile(i, observed)]]
  <2>6. Goto(p, m) /\ Attested(m.receipt.results, m.reservation.intent)
    BY <2>1, <2>5, ZenonT(30)
  <2> HIDE DEF m
  <2> QED BY <1>3, <2>1, <2>6
<1>7. ASSUME NEW p \in Processes, CommitClose(p) PROVE AttestInv'
  <2>1. mem[p].step = "closing" /\ Goto(p, Idle) /\ world' = world
    BY <1>7 DEF CommitClose
  <2>2. Idle.step # "closing"
    BY DEF Idle
  <2>3. CASE custody' = custody
    BY <1>3, <2>1, <2>2, <2>3
  <2>4. CASE custody' = [custody EXCEPT ![IdOf(mem[p].reservation)] =
                           Row(mem[p].reservation, mem[p].status, mem[p].receipt)]
    <3>1. PICK id \in Ids : id = IdOf(mem[p].reservation)
      BY <1>2, <2>1, IntentIds DEF TypeOK
    <3>2. /\ custody'[id] = Row(mem[p].reservation, mem[p].status, mem[p].receipt)
          /\ \A x \in Ids \ {id} : custody'[x] = custody[x]
      BY <1>2, <2>4, <3>1 DEF TypeOK
    <3>3. /\ custody'[id].status = mem[p].status /\ custody'[id].receipt = mem[p].receipt
          /\ custody'[id].reservation = mem[p].reservation
      BY <3>2, RowFields
    <3>4. CleanReceiptAttests'
      BY <2>1, <3>2, <3>3 DEF AttestInv, CleanReceiptAttests, Attested
    <3>5. mem'[p] = Idle /\ \A q \in Processes \ {p} : mem'[q] = mem[q]
      BY <1>2, <2>1 DEF Goto, TypeOK
    <3>6. \A q \in Processes :
            mem'[q].step = "closing" /\ mem'[q].status = "consumed"
              => Attested(mem[q].receipt.results, mem[q].reservation.intent)'
      BY <2>1, <2>2, <3>5 DEF AttestInv, Attested
    <3>7. \A e \in world' : e.at \in Nat
      BY <2>1, Zenon DEF AttestInv
    <3> QED BY <1>1, <3>4, <3>6, <3>7 DEF AttestInv
  <2> QED BY <1>7, <2>3, <2>4 DEF CommitClose
<1>8. ASSUME NEW p \in Processes, CommitReserve(p) PROVE AttestInv'
  <2>1. world' = world /\ mem[p].step = "reserving"
    BY <1>8 DEF CommitReserve
  <2>2. CASE Goto(p, Idle) /\ custody' = custody
    <3>1. Idle.step # "closing"
      BY DEF Idle
    <3> QED BY <1>3, <2>1, <2>2, <3>1
  <2>3. CASE /\ custody' = [custody EXCEPT ![IdOf(mem[p].reservation)] = Row(mem[p].reservation, "reserved", NoReceipt)]
             /\ Goto(p, [step |-> "granted", reservation |-> mem[p].reservation])
    <3>1. PICK id \in Ids : id = IdOf(mem[p].reservation)
      BY <1>2, <2>1, IntentIds DEF TypeOK
    <3>2. custody'[id].status = "reserved" /\ \A x \in Ids \ {id} : custody'[x] = custody[x]
      BY <1>2, <2>3, <3>1, Zenon DEF TypeOK, Row
    <3>3. CleanReceiptAttests'
      BY <2>1, <3>2 DEF AttestInv, CleanReceiptAttests
    <3>4. mem'[p].step = "granted" /\ \A q \in Processes \ {p} : mem'[q] = mem[q]
      BY <1>2, <2>3 DEF Goto, TypeOK
    <3>5. \A q \in Processes :
            mem'[q].step = "closing" /\ mem'[q].status = "consumed"
              => Attested(mem[q].receipt.results, mem[q].reservation.intent)'
      BY <2>1, <3>4 DEF AttestInv, Attested
    <3>6. \A e \in world' : e.at \in Nat
      BY <2>1 DEF AttestInv
    <3> QED BY <1>1, <3>3, <3>5, <3>6 DEF AttestInv
  <2> QED BY <1>8, <2>2, <2>3, Zenon DEF CommitReserve
<1>9. ASSUME NEW p \in Processes, NEW i \in Intents, BeginReserve(p, i) PROVE AttestInv'
  <2>1. PICK m : m = [step |-> "reserving", reservation |-> [intent |-> i, holder |-> p, at |-> clock]]
    BY Zenon
  <2>2. Goto(p, m) /\ m.step # "closing" /\ UNCHANGED <<custody, world>>
    BY <1>9, <2>1 DEF BeginReserve
  <2> QED BY <1>3, <2>2
<1>10. ASSUME NEW p \in Processes, BeginAbandon(p) PROVE AttestInv'
  <2>1. PICK m : m = [step |-> "closing", reservation |-> mem[p].reservation, status |-> "abandoned",
                      receipt |-> [closed |-> clock, results |-> <<>>]]
    BY Zenon
  <2>2. Goto(p, m) /\ m.status # "consumed" /\ UNCHANGED <<custody, world>>
    BY <1>10, <2>1 DEF BeginAbandon
  <2> QED BY <1>3, <2>2
<1>11. ASSUME NEW p \in Processes, Crash(p) PROVE AttestInv'
  <2>1. Goto(p, Idle) /\ Idle.step # "closing" /\ UNCHANGED <<custody, world>>
    BY <1>11 DEF Crash, Idle
  <2> QED BY <1>3, <2>1
<1>12. ASSUME NEW p \in Processes, NEW id \in Ids, Adopt(p, id) PROVE AttestInv'
  <2>1. PICK m : m = [step |-> "adopted", reservation |-> custody[id].reservation]
    BY Zenon
  <2>2. Goto(p, m) /\ m.step # "closing" /\ UNCHANGED <<custody, world>>
    BY <1>12, <2>1 DEF Adopt
  <2> QED BY <1>3, <2>2
<1>13. CASE Tick \/ UNCHANGED vars
  BY <1>4, <1>13 DEF Tick, vars
<1> QED BY <1>5, <1>6, <1>7, <1>8, <1>9, <1>10, <1>11, <1>12, <1>13 DEF Next

\* A consumption receipt without a blemish attests that a change was made as the reserved
\* document planned it, within its window, whoever executed, crashed, adopted and consumed
\* in between (consume, reconcile).
THEOREM CustodyReceiptAttests == Spec => []CleanReceiptAttests
<1>1. Init => AttestInv
  <2> SUFFICES ASSUME Init PROVE AttestInv
    OBVIOUS
  <2>1. Inv
    BY InitInv
  <2> QED BY <2>1 DEF Init, AttestInv, CleanReceiptAttests, Nothing, Idle
<1>2. AttestInv => CleanReceiptAttests
  BY DEF AttestInv
<1> QED BY <1>1, <1>2, NextAttest, PTL DEF Spec

=============================================================================
