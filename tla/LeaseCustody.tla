---------------------------- MODULE LeaseCustody ----------------------------
(***************************************************************************)
(* AgentLeaseCustody (agent_handoff_custody.py): who leads a module.  One  *)
(* SQLite row holds the current lease head and a fence token; a handoff    *)
(* swaps the head by compare-and-swap and leaves a signed receipt, and a   *)
(* handoff whose outcome the caller does not know is settled by            *)
(* reconcile_commit_unknown.                                               *)
(*                                                                         *)
(* A handoff is a set of signed documents (checkpoint, acknowledgement,    *)
(* successor lease and head) that may be handed in late, again, and by     *)
(* anybody.  Its transaction id is a digest of all of them and of the      *)
(* expected fence, so the request stands for its id.  A head names its     *)
(* predecessor by digest: it is represented by the chain of leases that    *)
(* leads to it.                                                            *)
(*                                                                         *)
(* Each operation is one transaction, with a time its caller read up to    *)
(* MaxLag ticks ago.  Documents are well formed and properly signed; what  *)
(* may be wrong with them is that they are out of date.                    *)
(***************************************************************************)
EXTENDS Integers, Sequences, FiniteSets

CONSTANTS
  Agents,        \* agents that may lead the module
  LeaseLife,     \* ticks a lease is valid
  AckLife,       \* ticks checkpoint and acknowledgement are valid
  MaxFence,      \* MAX_FENCE_TOKEN
  MaxLag,        \* bound: how old a caller's time may be
  MaxTime,       \* bound: the clock
  MaxRequests    \* bound: handoffs drawn up

ASSUME CustodyAssumption ==
  /\ {LeaseLife, AckLife, MaxFence, MaxLag, MaxTime, MaxRequests} \subseteq Nat
  /\ LeaseLife > 0

VARIABLES
  head,     \* the current head: the leases up to the current one
  fence,    \* fence_token
  rows,     \* handoff_transactions
  sent,     \* handoffs that were drawn up
  issued,   \* reconciliation receipts that were given out
  clock

vars == <<head, fence, rows, sent, issued, clock>>

Lease(a, t) == [agent |-> a, from |-> t, until |-> t + LeaseLife]
Lasts(lease, t) == lease.from <= t /\ t < lease.until
Current(h) == h[Len(h)]
Times == {t \in (clock - MaxLag)..clock : t >= 0}

\* create
Init ==
  /\ \E a \in Agents : head = <<Lease(a, 0)>>
  /\ fence = 0
  /\ rows = {}
  /\ sent = {}
  /\ issued = {}
  /\ clock = 0

RowsOf(r) == {x \in rows : x.req = r}

----------------------------------------------------------------------------
\* The parties read the current head and draw up their documents for a successor.
Draft(a, t) ==
  /\ Cardinality(sent) < MaxRequests
  /\ Lasts(Current(head), t)
  /\ sent' = sent \cup {[fence |-> fence, pred |-> head, succ |-> Lease(a, t), expires |-> t + AckLife]}
  /\ UNCHANGED <<head, fence, rows, issued, clock>>

\* Mutated form: a fence that is not ahead of the current one will do.
SwapsNotAhead(r) == r.fence <= fence

\* The compare of compare-and-swap.
Swaps(r) == fence = r.fence /\ head = r.pred

\* _validate_handoff, as far as a well-formed request can fail it: checkpoint,
\* acknowledgement, lease and head date from the time the lease starts at.
Valid(r, t) ==
  /\ r.succ.from <= t /\ t < r.expires
  /\ Lasts(r.succ, t)
  /\ Current(r.pred).from <= r.succ.from

\* commit_handoff.  A transaction that is known already, a stale predecessor, a lapsed
\* lease or document and an exhausted fence change nothing; neither does a COMMIT that
\* fails.  Whether the caller learns of the outcome is not part of the state.
CommitHandoff(r, t) ==
  /\ RowsOf(r) = {}
  /\ Lasts(Current(head), t)
  /\ Swaps(r)
  /\ Valid(r, t)
  /\ fence < MaxFence
  /\ head' = Append(r.pred, r.succ)
  /\ fence' = fence + 1
  /\ rows' = rows \cup {[req |-> r, outcome |-> "COMMITTED", at |-> t, receipt |-> {}]}
  /\ UNCHANGED <<sent, issued, clock>>

----------------------------------------------------------------------------
(* reconcile_commit_unknown.                                               *)

Receipt(status) == [status |-> status, head |-> head, fence |-> fence]

\* Mutated form: absence is reported without leaving a tombstone.
ReportAbsent(r) ==
  /\ RowsOf(r) = {}
  /\ issued' = issued \cup {[req |-> r, receipt |-> Receipt("NOT_COMMITTED")]}
  /\ UNCHANGED rows

\* No row: the transaction is retired.
Retire(r) ==
  LET receipt == Receipt("NOT_COMMITTED")
  IN /\ RowsOf(r) = {}
     /\ rows' = rows \cup {[req |-> r, outcome |-> "NOT_COMMITTED", at |-> 0, receipt |-> {receipt}]}
     /\ issued' = issued \cup {[req |-> r, receipt |-> receipt]}

\* A committed row without a receipt gets one.
Confirm(r, t) ==
  \E row \in RowsOf(r) :
    /\ row.outcome = "COMMITTED"
    /\ row.receipt = {}
    /\ row.at <= t
    /\ rows' = (rows \ {row}) \cup {[row EXCEPT !.receipt = {Receipt("COMMITTED")}]}
    /\ issued' = issued \cup {[req |-> r, receipt |-> Receipt("COMMITTED")]}

\* A row with a receipt: the same receipt is given out again.
Repeat(r) ==
  \E row \in RowsOf(r) : \E receipt \in row.receipt :
    /\ issued' = issued \cup {[req |-> r, receipt |-> receipt]}
    /\ UNCHANGED rows

Reconcile(r, t) ==
  /\ Retire(r) \/ Confirm(r, t) \/ Repeat(r)
  /\ UNCHANGED <<head, fence, sent, clock>>

Tick ==
  /\ clock < MaxTime
  /\ clock' = clock + 1
  /\ UNCHANGED <<head, fence, rows, sent, issued>>

Next ==
  \/ \E t \in Times :
       \/ \E a \in Agents : Draft(a, t)
       \/ \E r \in sent : CommitHandoff(r, t) \/ Reconcile(r, t)
  \/ Tick

Spec == Init /\ [][Next]_vars

----------------------------------------------------------------------------
(* What custody promises.                                                  *)

Committed == {x.req : x \in {y \in rows : y.outcome = "COMMITTED"}}

\* The chain of heads is the chain of committed handoffs, one for each fence token:
\* of all the handoffs drawn up at one head, whoever hands them in and however often,
\* one succeeds, and the fence tells which.
OneSuccessor ==
  /\ Len(head) = fence + 1
  /\ \A r \in Committed : r.fence \in 0..(fence - 1) /\ head[r.fence + 2] = r.succ
  /\ \A q, r \in Committed : q.fence = r.fence => q = r
  /\ \A k \in 0..(fence - 1) : \E r \in Committed : r.fence = k

\* "Tombstoning absence so replay stays impossible": a receipt that says COMMITTED or
\* NOT_COMMITTED stays true, also when the handoff it is about is handed in later.
ReceiptsStayTrue ==
  \A x \in issued : (x.receipt.status = "COMMITTED") <=> (x.req \in Committed)

\* "Resolve unknown once": all who reconcile a handoff are given the same receipt.
OneReceipt == \A x, y \in issued : x.req = y.req => x = y
=============================================================================
