------------------------------- MODULE Ledger -------------------------------
(***************************************************************************)
(* LedgerStore (ledger.py): an append-only ledger of signed events in one  *)
(* SQLite database that several processes write.                           *)
(*                                                                         *)
(* A caller builds its events from a source tip it has read earlier        *)
(* (Draft) and appends them in one transaction: append and append_many     *)
(* (Begin, AppendOne for each event, Commit), or append_at_checkpoint,     *)
(* which verifies inside the transaction that a checkpoint the caller      *)
(* retained is current.  Readers see the committed rows.  An event that    *)
(* does not fit raises and rolls the whole transaction back.               *)
(*                                                                         *)
(* bind_native_trust and migrate_native_trust check their preconditions    *)
(* with plain reads.  Then CREATE TABLE runs and commits on its own        *)
(* (Python's sqlite3 opens no transaction for it), and the INSERT that     *)
(* follows commits in another.                                             *)
(*                                                                         *)
(* Signatures hold, and digests are injective: the digest of an event is   *)
(* the tuple of its fields.                                                *)
(***************************************************************************)
EXTENDS Merkle, Integers, FiniteSets

CONSTANTS
  Writers,       \* the processes that have the ledger open
  Sources,       \* event sources, each with its own chain
  Enrollments,   \* native trust enrollments
  MaxRows        \* bound: events of the ledger

ASSUME EnrollmentsAssumption == {"absent", "empty"} \cap Enrollments = {}

VARIABLES
  log,      \* ledger_events, committed, in the order of ledger_sequence
  tx,       \* the write transaction, or NoTx
  native,   \* ledger_native_trust: absent, empty, or the enrollment in it
  mem,      \* mem[w]: what writer w is doing, lost in a crash
  issued,   \* the checkpoints signed so far, retained outside
  heirs     \* who was appended at a checkpoint: <<its size, position of the event>>

ledgerVars == <<log, tx, native, mem, issued, heirs>>

NoDigest == <<>>
Digest(e) == <<e.source, e.seq, e.prev, e.payload>>
Digests(rows, n) == [k \in 1..n |-> Digest(rows[k])]

NoTx == [by |-> {}, rows |-> <<>>, batch |-> <<>>, at |-> 0]
Idle == [step |-> "idle"]
NoCheckpoint == [size |-> 0, root |-> <<>>]

LedgerInit ==
  /\ log = <<>>
  /\ tx = NoTx
  /\ native = "absent"
  /\ mem = [w \in Writers |-> Idle]
  /\ issued = {}
  /\ heirs = {}

Goto(w, m) == mem' = [mem EXCEPT ![w] = m]
Locked == tx.by # {}
Has(w) == tx.by = {w}

----------------------------------------------------------------------------
(* What append and verify ask of an event.                                 *)

Of(rows, s) == {k \in DOMAIN rows : rows[k].source = s}

\* _source_tip: the row of the source with the highest source_sequence.
Tip(rows, s) == CHOOSE k \in Of(rows, s) : \A j \in Of(rows, s) : rows[j].seq <= rows[k].seq

NextSeq(rows, s) == IF Of(rows, s) = {} THEN 0 ELSE rows[Tip(rows, s)].seq + 1
NextPrev(rows, s) == IF Of(rows, s) = {} THEN NoDigest ELSE Digest(rows[Tip(rows, s)])

\* Mutated form: the predecessor's digest is not compared.
FitsBySequence(rows, e) == e.seq = NextSeq(rows, e.source)

\* _append_one
Fits(rows, e) == e.seq = NextSeq(rows, e.source) /\ e.prev = NextPrev(rows, e.source)

\* verify, the round for row n: source_tips holds the last earlier row of the source.
Continues(rows, n) ==
  LET earlier == {k \in 1..(n - 1) : rows[k].source = rows[n].source}
  IN \/ earlier = {} /\ rows[n].seq = 0 /\ rows[n].prev = NoDigest
     \/ \E tip \in earlier : /\ \A k \in earlier : k <= tip
                             /\ rows[n].seq = rows[tip].seq + 1
                             /\ rows[n].prev = Digest(rows[tip])

\* verify, without a checkpoint.
Verified(rows) == \A n \in DOMAIN rows : Continues(rows, n)

\* checkpoint
CheckpointOf(rows) == [size |-> Len(rows), root |-> MerkleRoot(Digests(rows, Len(rows)))]

\* Mutated form: the checkpoint may be one the ledger has grown past.
CurrentOrOlder(rows, c) ==
  /\ rows # <<>>
  /\ c.size \in 1..Len(rows)
  /\ c.root = MerkleRoot(Digests(rows, c.size))

\* verify, against a checkpoint: tree size, root and with them the tip.
Current(rows, c) ==
  /\ rows # <<>>
  /\ c.size = Len(rows)
  /\ c.root = MerkleRoot(Digests(rows, Len(rows)))

----------------------------------------------------------------------------
(* Appending.                                                              *)

\* build_ledger_event, from what the caller knows of the source's tip.
Event(rows, s, w) ==
  [source |-> s, seq |-> NextSeq(rows, s), prev |-> NextPrev(rows, s), payload |-> w]

\* The event after the one for s, chained to it or only counted on from it.
Second(s, w) == Event(Append(log, Event(log, s, w)), s, w)
Unchained(s, w) == [Second(s, w) EXCEPT !.prev = NextPrev(log, s)]

\* One event, two that do not know of each other, or two of one source, whether the
\* caller chained them or not.
Batches(w) ==
  {<<Event(log, s, w)>> : s \in Sources}
    \cup {<<Event(log, s, w), Event(log, t, w)>> : s, t \in Sources}
    \cup {<<Event(log, s, w), Second(s, w)>> : s \in Sources}
    \cup {<<Event(log, s, w), Unchained(s, w)>> : s \in Sources}

\* The checkpoint is kept for append_at_checkpoint, which appends a single event.
Draft(w) ==
  /\ mem[w] = Idle
  /\ \/ \E b \in Batches(w) : Goto(w, [step |-> "drafted", batch |-> b, at |-> NoCheckpoint])
     \/ \E s \in Sources, c \in issued :
          Goto(w, [step |-> "drafted", batch |-> <<Event(log, s, w)>>, at |-> c])
  /\ UNCHANGED <<log, tx, native, issued, heirs>>

\* BEGIN IMMEDIATE; append_at_checkpoint verifies under the lock.
Begin(w) ==
  LET c == mem[w].at
  IN /\ mem[w].step = "drafted"
     /\ ~Locked
     /\ \/ /\ c = NoCheckpoint \/ (Verified(log) /\ Current(log, c))
           /\ tx' = [by |-> {w}, rows |-> log, batch |-> mem[w].batch, at |-> c.size]
           /\ Goto(w, [step |-> "writing"])
        \/ /\ c # NoCheckpoint /\ ~(Verified(log) /\ Current(log, c))
           /\ Goto(w, Idle)
           /\ UNCHANGED tx
     /\ UNCHANGED <<log, native, issued, heirs>>

Rollback(w) == tx' = NoTx /\ Goto(w, Idle)

\* Mutated form: INSERT OR REPLACE, by source and sequence number.
AppendReplacing(w) ==
  LET e == Head(tx.batch)
  IN /\ Has(w)
     /\ tx.batch # <<>>
     /\ Len(tx.rows) < MaxRows
     /\ tx' = [tx EXCEPT !.rows = Append(SelectSeq(@, LAMBDA r : <<r.source, r.seq>> # <<e.source, e.seq>>), e),
                         !.batch = Tail(@)]
     /\ UNCHANGED <<log, native, mem, issued, heirs>>

AppendOne(w) ==
  /\ Has(w)
  /\ tx.batch # <<>>
  /\ Len(tx.rows) < MaxRows
  /\ \/ /\ Fits(tx.rows, Head(tx.batch))
        /\ tx' = [tx EXCEPT !.rows = Append(@, Head(tx.batch)), !.batch = Tail(@)]
        /\ UNCHANGED mem
     \/ /\ ~Fits(tx.rows, Head(tx.batch))
        /\ Rollback(w)
  /\ UNCHANGED <<log, native, issued, heirs>>

Commit(w) ==
  /\ Has(w)
  /\ tx.batch = <<>>
  /\ log' = tx.rows
  /\ heirs' = IF tx.at = 0 THEN heirs ELSE heirs \cup {<<tx.at, Len(tx.rows)>>}
  /\ Rollback(w)
  /\ UNCHANGED <<native, issued>>

\* checkpoint: somebody signs the ledger as it stands.
Checkpoint ==
  /\ log # <<>>
  /\ issued' = issued \cup {CheckpointOf(log)}
  /\ UNCHANGED <<log, tx, native, mem, heirs>>

----------------------------------------------------------------------------
(* Native trust.                                                           *)

\* bind_native_trust, up to _store_native_trust.
BeginBind(w, e) ==
  /\ mem[w] = Idle
  /\ native = "absent"
  /\ log = <<>>
  /\ Goto(w, [step |-> "storing", how |-> "bind", enrollment |-> e])
  /\ UNCHANGED <<log, tx, native, issued, heirs>>

\* migrate_native_trust, up to _store_native_trust.
BeginMigrate(w, e, c) ==
  /\ mem[w] = Idle
  /\ native = "absent"
  /\ Verified(log) /\ Current(log, c)
  /\ Goto(w, [step |-> "storing", how |-> "migrate", enrollment |-> e])
  /\ UNCHANGED <<log, tx, native, issued, heirs>>

TableMissing(n) == n = "absent"

\* _store_native_trust: CREATE TABLE fails when somebody else was faster.
CreateTrust(w) ==
  /\ mem[w].step = "storing"
  /\ ~Locked
  /\ \/ /\ TableMissing(native)
        /\ native' = "empty"
        /\ Goto(w, [mem[w] EXCEPT !.step = "inserting"])
     \/ /\ ~TableMissing(native)
        /\ Goto(w, Idle)
        /\ UNCHANGED native
  /\ UNCHANGED <<log, tx, issued, heirs>>

InsertTrust(w) ==
  /\ mem[w].step = "inserting"
  /\ ~Locked
  /\ native' = mem[w].enrollment
  /\ Goto(w, Idle)
  /\ UNCHANGED <<log, tx, issued, heirs>>

----------------------------------------------------------------------------
\* A writer dies; SQLite drops its open transaction.
Crash(w) ==
  /\ mem[w] # Idle
  /\ Goto(w, Idle)
  /\ tx' = IF Has(w) THEN NoTx ELSE tx
  /\ UNCHANGED <<log, native, issued, heirs>>

LedgerNext ==
  \/ Checkpoint
  \/ \E w \in Writers :
       \/ Draft(w) \/ Begin(w) \/ AppendOne(w) \/ Commit(w)
       \/ \E e \in Enrollments : BeginBind(w, e) \/ \E c \in issued : BeginMigrate(w, e, c)
       \/ CreateTrust(w) \/ InsertTrust(w)
       \/ Crash(w)

LedgerSpec == LedgerInit /\ [][LedgerNext]_ledgerVars

----------------------------------------------------------------------------
(* What the ledger promises.                                               *)

\* Whatever interleaving of writers, batches, failures and crashes produced it, the
\* committed ledger verifies: every source's chain is whole and in order, although
\* append looks for a source's highest sequence number and verify for its last row.
AlwaysVerifies == Verified(log)

Extends(rows, longer) ==
  /\ Len(rows) <= Len(longer)
  /\ \A k \in DOMAIN rows : longer[k] = rows[k]

\* Append-only: no committed event is ever changed, moved or dropped.
AppendOnly == [][Extends(log, log')]_ledgerVars

\* A checkpoint stays true: the ledger's first events have the root it was signed
\* for, however far the ledger has grown, so that it convicts any other history.
CheckpointsHold ==
  \A c \in issued : /\ c.size \in 1..Len(log)
                    /\ c.root = MerkleRoot(Digests(log, c.size))

\* "Append only while an exact externally retained checkpoint is current": what is
\* appended at a checkpoint comes directly after it, so of all the callers that hold
\* one checkpoint at most one succeeds.
DirectlyAfter == \A h \in heirs : h[2] = h[1] + 1

\* The native trust binding is never replaced or taken back, also when two binders
\* with different enrollments race or one of them dies half-way.
BindingStable == [][(native \in Enrollments) => (native' = native)]_ledgerVars

----------------------------------------------------------------------------
(* What the documentation says and the code does not do.                   *)

\* "Bind one verified native key enrollment before the first event.  Existing ledgers
\* are never silently adopted": bind_native_trust binds an empty ledger only.
BoundBeforeFirst ==
  [][\A w \in Writers :
       mem[w].step = "inserting" /\ mem[w].how = "bind" /\ native' = mem[w].enrollment
         => log = <<>>]_ledgerVars

\* native_trust_enrollment raises "native database trust binding is incomplete" for a
\* table without its row: apart from a binder that is at it, there is no such table.
NeverHalfBound ==
  native = "empty" => \E w \in Writers : mem[w].step = "inserting"
=============================================================================
