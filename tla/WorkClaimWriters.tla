-------------------------- MODULE WorkClaimWriters --------------------------
(***************************************************************************)
(* Writers under a WorkClaimRegistry.  "Writers call assert_fence before   *)
(* every write": the call reads the claim's row, and the write follows     *)
(* later, outside any transaction of the registry.  The write itself is    *)
(* the caller's (external code); the registry may serve other agents       *)
(* between the two.  An agent is sequential: between its check and its     *)
(* write it calls nothing else.                                            *)
(***************************************************************************)
EXTENDS WorkClaims

VARIABLES
  cleared,   \* cleared[a]: the claim agent a's next write was cleared for, or None
  late       \* late[c]: writes made under claim c after it had ended

None == 0

writerVars == <<db, cleared, late>>

WriterInit ==
  /\ Init
  /\ cleared = [a \in Agents |-> None]
  /\ late = [c \in Claims |-> 0]

\* Mutated form: a lapsed lease nobody expired yet still clears.
FenceHoldsNoLease(d, c, a, f, lag) == Held(d, c, a, f)

\* assert_fence: no transaction, no expiry of other claims.
FenceHolds(d, c, a, f, lag) == Held(d, c, a, f) /\ d.rows[c].left > -lag

AssertFence(a, c, f, lag) ==
  /\ cleared[a] = None
  /\ FenceHolds(db, c, a, f, lag)
  /\ cleared' = [cleared EXCEPT ![a] = c]
  /\ UNCHANGED <<db, late>>

\* The claim was released, handed off or expired, or its lease is over for every
\* clock reading still in use.
Ended(c) == db.rows[c].status # "acquired" \/ db.rows[c].left <= -MaxLag

Write(a) ==
  /\ cleared[a] # None
  /\ cleared' = [cleared EXCEPT ![a] = None]
  /\ late' = [late EXCEPT ![cleared[a]] = IF Ended(cleared[a]) THEN @ + 1 ELSE @]
  /\ UNCHANGED db

WriterNext ==
  \/ Tick /\ UNCHANGED <<cleared, late>>
  \/ \E a \in Agents, lag \in Lags :
       cleared[a] = None /\ Operate(a, lag) /\ UNCHANGED <<cleared, late>>
  \/ \E a \in Agents, c \in Claims, f \in Fences, lag \in Lags : AssertFence(a, c, f, lag)
  \/ \E a \in Agents : Write(a)

WriterSpec == WriterInit /\ [][WriterNext]_writerVars

----------------------------------------------------------------------------
\* "An agent whose lease expired or was handed off cannot keep writing": what
\* assert_fence guarantees is that an agent whose claim lapsed, was released, handed
\* off or expired gets at most one more write done under it, the one it had cleared
\* before.  A call may wait between reading the clock and the row, so a lease counts
\* as lapsed once it is over for the oldest reading.
OneLateWrite == \A c \in Claims : late[c] <= 1
=============================================================================
