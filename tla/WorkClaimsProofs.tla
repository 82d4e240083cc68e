-------------------------- MODULE WorkClaimsProofs --------------------------
(***************************************************************************)
(* Proofs about WorkClaims, and about the writers that hold its claims     *)
(* (WorkClaimWriters), for any agents, radii, lease lengths, number of     *)
(* claims and clock lag.                                                   *)
(*                                                                         *)
(* An operation of the registry is a composition of few steps on the       *)
(* database: close, publish, acquire, insert.  The invariant is split in   *)
(* SafeDb, which every one of those steps preserves, and Settled and       *)
(* LogFaithful, which only hold again at the end of the operation.         *)
(***************************************************************************)
EXTENDS WorkClaimWriters, FiniteSetTheorems, TLAPS

\* No row has a fence the counter did not hand out yet.
FencesIssued(d) == \A c \in Claims : d.rows[c].fence <= d.fence

\* seq numbers are handed out in order.
Allotted(d) == \A c \in Claims : d.rows[c].status = "absent" <=> c > d.last

SafeDb(d) ==
  /\ d \in DbType
  /\ Allotted(d)
  /\ FencesIssued(d)
  /\ Exclusive(d)
  /\ SuccessorFenced(d)
  /\ OwnOverlap(d)

DbInv(d) == SafeDb(d) /\ Settled(d) /\ LogFaithful(d)

Inv == DbInv(db)

----------------------------------------------------------------------------
(* What each step does to the database, field by field.                    *)

Acquires(d, S, e) ==
  /\ e \in DbType
  /\ e.last = d.last /\ e.seen = d.seen /\ d.fence <= e.fence
  /\ \A c \in Claims \ S : e.rows[c] = d.rows[c]
  /\ \A c \in S : /\ e.rows[c].status = "acquired"
                  /\ e.rows[c].agent = d.rows[c].agent
                  /\ e.rows[c].radius = d.rows[c].radius
                  /\ d.fence < e.rows[c].fence
                  /\ e.rows[c].fence <= e.fence

Closes(d, S, end, e) ==
  /\ e \in DbType
  /\ e.last = d.last /\ e.seen = d.seen /\ d.fence = e.fence
  /\ \A c \in Claims \ S : e.rows[c] = d.rows[c]
  /\ \A c \in S : /\ e.rows[c].status = end
                  /\ e.rows[c].agent = d.rows[c].agent
                  /\ e.rows[c].radius = d.rows[c].radius
                  /\ e.rows[c].fence = d.rows[c].fence

Publishes(d, S, e) ==
  /\ e \in DbType
  /\ e.last = d.last /\ e.rows = d.rows /\ d.fence = e.fence
  /\ \A c \in Claims \ S : e.seen[c] = d.seen[c]
  /\ \A c \in S : e.seen[c] = [status |-> d.rows[c].status, fence |-> d.rows[c].fence]

Inserts(d, row, e) ==
  /\ e \in DbType
  /\ d.last + 1 \in Claims
  /\ e.last = d.last + 1 /\ e.seen = d.seen /\ e.fence = d.fence
  /\ e.rows[d.last + 1] = row
  /\ \A c \in Claims : c # d.last + 1 => e.rows[c] = d.rows[c]

----------------------------------------------------------------------------
(* The steps an operation is made of.                                      *)

\* Overlap of resource sets (_sets_overlap) does not depend on their order.
LEMMA OverlapSymmetric == \A L, R : SetsOverlap(L, R) <=> SetsOverlap(R, L)
BY DEF SetsOverlap, ResourcesOverlap

\* An absent row and a row without resources overlap nothing (_sets_overlap).
LEMMA EmptyOverlap == \A L : ~SetsOverlap(L, {}) /\ ~SetsOverlap({}, L)
BY DEF SetsOverlap

\* The place of a claim among those promoted in one pass of _promote_waiters.
LEMMA PlaceInPass ==
  ASSUME NEW S \in SUBSET Claims
  PROVE  /\ Cardinality(S) \in Nat
         /\ \A c \in S : Cardinality({b \in S : b <= c}) \in 1..Cardinality(S)
<1>1. IsFiniteSet(S) /\ Cardinality(S) \in Nat
  <2>1. IsFiniteSet(1..MaxClaims)
    BY FS_Interval, MaxClaimsAssumption
  <2>2. IsFiniteSet(S)
    BY <2>1, FS_Subset, Zenon DEF Claims
  <2> QED
    BY <2>2, FS_CardinalityType
<1>2. ASSUME NEW c \in S PROVE Cardinality({b \in S : b <= c}) \in 1..Cardinality(S)
  <2> DEFINE P == {b \in S : b <= c}
  <2>1. P \subseteq S /\ c \in P
    BY DEF Claims
  <2>2. IsFiniteSet(P) /\ Cardinality(P) \in Nat /\ Cardinality(P) <= Cardinality(S)
    BY <1>1, <2>1, FS_Subset, FS_CardinalityType
  <2>3. Cardinality(P) # 0
    BY <2>1, <2>2, FS_EmptySet
  <2> QED
    BY <1>1, <2>2, <2>3
<1> QED
  BY <1>1, <1>2

\* What promotion does to the rows: status, fence and lease of S, nothing else.
LEMMA AcquireView ==
  ASSUME NEW d \in DbType, NEW S \in SUBSET Claims, NEW lag \in Lags
  PROVE  Acquires(d, S, Acquire(d, S, lag))
<1> SUFFICES ASSUME NEW e, e = Acquire(d, S, lag) PROVE Acquires(d, S, e)
  BY Zenon
<1> DEFINE place(c) == Cardinality({b \in S : b <= c})
           new(c) == IF c \in S THEN [d.rows[c] EXCEPT !.status = "acquired",
                                                       !.fence  = d.fence + place(c),
                                                       !.left   = d.rows[c].ttl - lag]
                                ELSE d.rows[c]
<1>1. Cardinality(S) \in Nat /\ \A c \in S : place(c) \in Nat /\ 1 <= place(c) /\ place(c) <= Cardinality(S)
  BY PlaceInPass
<1>2. /\ e.rows = [c \in Claims |-> new(c)]
      /\ e.fence = d.fence + Cardinality(S)
      /\ e.last = d.last
      /\ e.seen = d.seen
      /\ e = [rows |-> e.rows, last |-> e.last, fence |-> e.fence, seen |-> e.seen]
  BY Zenon DEF Acquire, DbType
<1>3. d.fence \in Nat /\ \A c \in Claims : d.rows[c] \in Row
  BY DEF DbType
<1> HIDE DEF place
<1>4. ASSUME NEW c \in S
      PROVE  /\ new(c) \in Row
             /\ new(c).status = "acquired"
             /\ new(c).agent = d.rows[c].agent
             /\ new(c).radius = d.rows[c].radius
             /\ new(c).fence = d.fence + place(c)
  <2>1. d.rows[c].ttl - lag \in Int /\ d.fence + place(c) \in Nat
    BY <1>1, <1>3, MaxLagAssumption DEF Row, Lags
  <2> QED
    BY <1>3, <2>1, Zenon DEF Row, Status, OpenStatus
<1>5. \A c \in Claims : e.rows[c] = new(c)
  BY <1>2, Zenon
<1>6. \A c \in Claims \ S : new(c) = d.rows[c]
  OBVIOUS
<1> HIDE DEF new
<1>7. e \in DbType
  <2>1. \A c \in Claims : new(c) \in Row
    BY <1>3, <1>4, <1>6
  <2>2. e.rows \in [Claims -> Row]
    BY <1>2, <2>1
  <2>3. e.fence \in Nat
    BY <1>1, <1>2, <1>3
  <2> QED
    BY <1>2, <2>2, <2>3 DEF DbType
<1>8. d.fence <= e.fence /\ \A c \in S : d.fence < d.fence + place(c) /\ d.fence + place(c) <= e.fence
  BY <1>1, <1>2, <1>3
<1> QED
  BY <1>2, <1>4, <1>5, <1>6, <1>7, <1>8 DEF Acquires

\* What _close does to the rows of S.
LEMMA CloseView ==
  ASSUME NEW d \in DbType, NEW S \in SUBSET Claims, NEW end \in ClosedStatus
  PROVE  Closes(d, S, end, Close(d, S, end))
<1> SUFFICES ASSUME NEW e, e = Close(d, S, end) PROVE Closes(d, S, end, e)
  BY Zenon
<1> DEFINE new(c) == IF c \in S THEN [d.rows[c] EXCEPT !.status = end, !.left = NoLease]
                                ELSE d.rows[c]
<1>1. /\ e.rows = [c \in Claims |-> new(c)]
      /\ e.fence = d.fence
      /\ e.last = d.last
      /\ e.seen = d.seen
      /\ e = [rows |-> e.rows, last |-> e.last, fence |-> e.fence, seen |-> e.seen]
  BY Zenon DEF Close, DbType
<1>2. \A c \in Claims : d.rows[c] \in Row
  BY DEF DbType
<1>3. ASSUME NEW c \in S
      PROVE  /\ new(c) \in Row
             /\ new(c).status = end
             /\ new(c).agent = d.rows[c].agent
             /\ new(c).radius = d.rows[c].radius
             /\ new(c).fence = d.rows[c].fence
  <2>1. d.rows[c] \in Row /\ end \in Status
    BY <1>2 DEF Status
  <2>2. NoLease \in Int
    BY DEF NoLease
  <2> QED
    BY <2>1, <2>2, Zenon DEF Row
<1>4. \A c \in Claims \ S : new(c) = d.rows[c]
  OBVIOUS
<1> HIDE DEF new
<1>5. (\A c \in Claims : e.rows[c] = new(c)) /\ (\A c \in Claims : new(c) \in Row)
  BY <1>1, <1>2, <1>3, <1>4, Zenon
<1>6. e.rows \in [Claims -> Row]
  BY <1>1, <1>5
<1>7. e \in DbType
  BY <1>1, <1>6 DEF DbType
<1> QED
  BY <1>1, <1>3, <1>4, <1>5, <1>7 DEF Closes

\* _append_event changes what the log shows of the claims of S, and no row.
LEMMA PublishView ==
  ASSUME NEW d \in DbType, NEW S \in SUBSET Claims
  PROVE  Publishes(d, S, Publish(d, S))
<1> SUFFICES ASSUME NEW e, e = Publish(d, S) PROVE Publishes(d, S, e)
  OBVIOUS
<1> DEFINE new(c) == IF c \in S THEN [status |-> d.rows[c].status, fence |-> d.rows[c].fence]
                                ELSE d.seen[c]
<1>1. /\ e.seen = [c \in Claims |-> new(c)]
      /\ e.fence = d.fence
      /\ e.last = d.last
      /\ e.rows = d.rows
      /\ e = [rows |-> e.rows, last |-> e.last, fence |-> e.fence, seen |-> e.seen]
  BY Zenon DEF Publish, DbType
<1>2. \A c \in Claims : d.rows[c] \in Row /\ d.seen[c] \in Notice
  BY DEF DbType
<1>3. \A c \in Claims : new(c) \in Notice
  BY <1>2, Zenon DEF Row, Notice
<1>4. e \in DbType
  BY <1>1, <1>3 DEF DbType
<1> QED
  BY <1>1, <1>4, Zenon DEF Publishes

\* INSERT INTO work_claims fills the next row.
LEMMA InsertView ==
  ASSUME NEW d \in DbType, NEW row \in Row, d.last < MaxClaims
  PROVE  Inserts(d, row, Insert(d, row))
<1> SUFFICES ASSUME NEW e, e = Insert(d, row) PROVE Inserts(d, row, e)
  OBVIOUS
<1>1. /\ e.rows = [d.rows EXCEPT ![d.last + 1] = row]
      /\ e.fence = d.fence
      /\ e.last = d.last + 1
      /\ e.seen = d.seen
      /\ e = [rows |-> e.rows, last |-> e.last, fence |-> e.fence, seen |-> e.seen]
  BY Zenon DEF Insert, DbType
<1>2. d.last + 1 \in Claims /\ d.last + 1 \in 0..MaxClaims
  BY MaxClaimsAssumption DEF DbType, Claims
<1>3. e \in DbType
  BY <1>1, <1>2 DEF DbType
<1> QED
  BY <1>1, <1>2, <1>3, Zenon DEF DbType, Inserts

----------------------------------------------------------------------------
(* Each step keeps the database safe.                                      *)

\* _close only takes claims out of contention.
LEMMA CloseSafe ==
  ASSUME NEW d, SafeDb(d), NEW S \in SUBSET Claims, \A c \in S : IsOpen(d.rows[c]),
         NEW end \in ClosedStatus, NEW e, e = Close(d, S, end)
  PROVE  SafeDb(e)
<1>1. d \in DbType
  BY DEF SafeDb
<1>2. Closes(d, S, end, e)
  BY <1>1, CloseView
<1>3. \A c \in Claims : /\ e.rows[c].radius = d.rows[c].radius
                        /\ e.rows[c].agent = d.rows[c].agent
                        /\ e.rows[c].fence = d.rows[c].fence
                        /\ e.rows[c].status \in OpenStatus => e.rows[c].status = d.rows[c].status
                        /\ e.rows[c].status = "absent" <=> d.rows[c].status = "absent"
  BY <1>2 DEF Closes, OpenStatus, ClosedStatus, IsOpen
<1>4. Allotted(e) /\ FencesIssued(e)
  BY <1>2, <1>3, Zenon DEF Closes, SafeDb, Allotted, FencesIssued
<1>5. Exclusive(e) /\ SuccessorFenced(e)
  <2>1. \A b, c \in Claims : Overlap(e, b, c) <=> Overlap(d, b, c)
    BY <1>3, Zenon DEF Overlap
  <2> QED
    BY <1>3, <2>1 DEF SafeDb, Exclusive, SuccessorFenced, OpenStatus
<1>6. OwnOverlap(e)
  BY <1>3 DEF SafeDb, OwnOverlap, Overlap, OpenStatus, IsOpen
<1> QED
  BY <1>2, <1>4, <1>5, <1>6, Zenon DEF Closes, SafeDb

\* _append_event leaves the claims alone.
LEMMA PublishSafe ==
  ASSUME NEW d, SafeDb(d), NEW S \in SUBSET Claims, NEW e, e = Publish(d, S)
  PROVE  SafeDb(e)
<1>1. e \in DbType /\ e.last = d.last /\ e.rows = d.rows /\ d.fence = e.fence
  BY PublishView, Zenon DEF SafeDb, Publishes
<1>2. Allotted(e) /\ FencesIssued(e) /\ Exclusive(e)
  BY <1>1 DEF SafeDb, Allotted, FencesIssued, Exclusive, Overlap
<1>3. SuccessorFenced(e) /\ OwnOverlap(e)
  BY <1>1 DEF SafeDb, SuccessorFenced, OwnOverlap, Overlap
<1> QED
  BY <1>1, <1>2, <1>3 DEF SafeDb

\* Acquiring claims that nothing blocks (_try_promote, one or several at a time)
\* keeps holders apart and fences them above every predecessor.
LEMMA AcquireSafe ==
  ASSUME NEW d, SafeDb(d), NEW S \in SUBSET Promotable(d), NEW lag \in Lags,
         NEW e, e = Acquire(d, S, lag)
  PROVE  SafeDb(e)
<1>1. d \in DbType /\ S \in SUBSET Claims
  BY DEF SafeDb, Promotable
<1>2. Acquires(d, S, e)
  BY <1>1, AcquireView
<1>3. \A b, c \in Claims : Overlap(e, b, c) <=> Overlap(d, b, c)
  BY <1>2, Zenon DEF Overlap, Acquires
<1>4. \A b, c \in Claims : Overlap(d, b, c) <=> Overlap(d, c, b)
  BY OverlapSymmetric DEF Overlap
<1>5. \A c \in S : c \in Claims /\ d.rows[c].status = "waiting" /\ Blockers(d, c) = {}
  BY DEF Promotable
<1>6. \A c \in S, b \in Claims : b # c /\ Overlap(d, b, c) => b \notin S /\ d.rows[b].status # "acquired"
  <2> SUFFICES ASSUME NEW c \in S, NEW b \in Claims, b # c, Overlap(d, b, c)
               PROVE  b \notin S /\ d.rows[b].status # "acquired"
    OBVIOUS
  <2>1. d.rows[b].status # "acquired"
    BY <1>5 DEF Blockers, IsOpen, OpenStatus
  <2>2. ASSUME b \in S PROVE FALSE
    <3>1. b < c \/ c < b
      BY <1>5 DEF Claims
    <3>2. b \notin Blockers(d, c) /\ c \notin Blockers(d, b) /\ Overlap(d, c, b)
      BY <1>4, <1>5, <2>2
    <3> QED
      BY <1>5, <2>2, <3>1, <3>2, Zenon DEF Blockers, IsOpen, OpenStatus
  <2> QED
    BY <2>1, <2>2
<1>7. Allotted(e)
  BY <1>2, <1>5 DEF SafeDb, Allotted, Acquires
<1>8. d.fence \in Nat /\ e.fence \in Nat /\ \A c \in Claims : d.rows[c].fence \in Nat /\ e.rows[c].fence \in Nat
  BY <1>1, <1>2, Zenon DEF DbType, Row, Acquires
<1>9. FencesIssued(e)
  BY <1>2, <1>8 DEF SafeDb, FencesIssued, Acquires
<1>10. Exclusive(e)
  BY <1>2, <1>3, <1>4, <1>6 DEF SafeDb, Exclusive, Acquires
<1>11. SuccessorFenced(e)
  <2> SUFFICES ASSUME NEW b \in Claims, NEW c \in Claims, b # c,
                      e.rows[c].status = "acquired", e.rows[b].fence # NoFence, Overlap(e, b, c)
               PROVE  e.rows[b].fence < e.rows[c].fence
    BY Zenon DEF SuccessorFenced
  <2>1. CASE c \in S
    <3>1. b \notin S /\ d.rows[b].fence <= d.fence
      BY <1>3, <1>6, <2>1, Zenon DEF SafeDb, FencesIssued
    <3> QED
      BY <1>2, <1>8, <2>1, <3>1 DEF Acquires
  <2>2. CASE c \notin S
    <3>1. b \notin S
      BY <1>2, <1>3, <1>4, <1>6, <2>2 DEF Acquires
    <3> QED
      BY <1>2, <1>3, <2>2, <3>1 DEF SafeDb, SuccessorFenced, Acquires
  <2> QED
    BY <2>1, <2>2, Zenon
<1>12. OwnOverlap(e)
  <2> SUFFICES ASSUME NEW b \in Claims, NEW c \in Claims, b < c,
                      IsOpen(e.rows[b]), IsOpen(e.rows[c]),
                      e.rows[b].agent = e.rows[c].agent, Overlap(e, b, c)
               PROVE  e.rows[b].status = "waiting" /\ e.rows[c].status = "acquired"
    BY Zenon DEF OwnOverlap
  <2>1. IsOpen(d.rows[b]) /\ IsOpen(d.rows[c]) /\ d.rows[b].agent = d.rows[c].agent /\ Overlap(d, b, c)
    BY <1>2, <1>3, <1>5 DEF IsOpen, OpenStatus, Acquires
  <2>2. d.rows[b].status = "waiting" /\ d.rows[c].status = "acquired"
    BY <2>1, Zenon DEF SafeDb, OwnOverlap
  <2>3. b # c
    BY DEF Claims
  <2>4. b \notin S /\ c \notin S
    BY <1>4, <1>5, <1>6, <2>1, <2>2, <2>3, Zenon
  <2> QED
    BY <1>2, <2>2, <2>4, Zenon DEF Acquires
<1> QED
  BY <1>2, <1>7, <1>9, <1>10, <1>11, <1>12, Zenon DEF SafeDb, Acquires

----------------------------------------------------------------------------
(* The compositions of steps the operations share.                         *)

\* After a pass of _promote_waiters every waiting claim has a blocker, and the log
\* shows every promotion.
LEMMA PromotionPass ==
  ASSUME NEW d, SafeDb(d), LogFaithful(d), NEW lag \in Lags
  PROVE  DbInv(PromoteWaiters(d, lag)) /\ PromoteWaiters(d, lag).last = d.last
<1> DEFINE S == Promotable(d)
           a == Acquire(d, S, lag)
           e == Publish(a, S)
<1>1. d \in DbType /\ S \in SUBSET Claims /\ S \in SUBSET Promotable(d)
  BY DEF SafeDb, Promotable
<1>2. S = {c \in Claims : d.rows[c].status = "waiting" /\ Blockers(d, c) = {}}
  BY DEF Promotable
<1> HIDE DEF S
<1>3. Acquires(d, S, a) /\ SafeDb(a)
  BY <1>1, AcquireView, AcquireSafe
<1>4. e = PromoteWaiters(d, lag)
  BY DEF PromoteWaiters, S
<1> HIDE DEF a
<1>5. a \in DbType
  BY <1>3 DEF Acquires
<1>6. Publishes(a, S, e) /\ SafeDb(e)
  BY <1>1, <1>3, <1>5, PublishView, PublishSafe
<1> HIDE DEF e
<1>7. /\ e.rows = a.rows
      /\ \A c \in Claims : e.rows[c].radius = d.rows[c].radius
      /\ \A c \in Claims \ S : e.rows[c] = d.rows[c]
      /\ \A c \in S : e.rows[c].status = "acquired"
  BY <1>3, <1>6 DEF Acquires, Publishes
<1>8. Settled(e)
  <2> SUFFICES ASSUME NEW c \in Claims, e.rows[c].status = "waiting"
               PROVE  Blockers(e, c) # {}
    BY DEF Settled
  <2>1. c \notin S /\ d.rows[c].status = "waiting"
    BY <1>7
  <2>2. PICK b \in Blockers(d, c) : TRUE
    BY <1>2, <2>1
  <2>3. b \in Claims \ {c} /\ IsOpen(d.rows[b]) /\ Overlap(d, b, c)
        /\ (d.rows[b].status = "acquired" \/ b < c)
    BY <2>2 DEF Blockers
  <2>4. IsOpen(e.rows[b]) /\ Overlap(e, b, c) /\ (e.rows[b].status = "acquired" \/ b < c)
    BY <1>7, <2>3, Zenon DEF IsOpen, OpenStatus, Overlap
  <2> QED
    BY <2>3, <2>4, Zenon DEF Blockers
<1>9. LogFaithful(e)
  BY <1>1, <1>3, <1>6, <1>7 DEF LogFaithful, Acquires, Publishes
<1>10. e.last = d.last
  BY <1>3, <1>6, Zenon DEF Acquires, Publishes
<1> QED
  BY <1>4, <1>6, <1>8, <1>9, <1>10 DEF DbInv

\* Ending claims (expiry, release, cancellation) with the events and the pass of
\* promotions that follow.
LEMMA EndingPass ==
  ASSUME NEW d, SafeDb(d), LogFaithful(d), NEW S \in SUBSET Claims,
         \A c \in S : IsOpen(d.rows[c]), NEW end \in ClosedStatus, NEW lag \in Lags
  PROVE  LET e == PromoteWaiters(Publish(Close(d, S, end), S), lag)
         IN DbInv(e) /\ e.last = d.last
<1> DEFINE k == Close(d, S, end)
           p == Publish(k, S)
<1>1. Closes(d, S, end, k) /\ SafeDb(k)
  BY CloseView, CloseSafe, Zenon DEF SafeDb
<1> HIDE DEF k
<1>2. Publishes(k, S, p) /\ SafeDb(p)
  BY <1>1, PublishView, PublishSafe, Zenon DEF Closes
<1> HIDE DEF p
<1>3. LogFaithful(p) /\ p.last = d.last
  BY <1>1, <1>2 DEF LogFaithful, Closes, Publishes
<1>4. DbInv(PromoteWaiters(p, lag)) /\ PromoteWaiters(p, lag).last = d.last
  BY <1>2, <1>3, PromotionPass
<1> QED
  BY <1>4 DEF p, k

\* _expire keeps the whole invariant.
LEMMA ExpirePass ==
  ASSUME NEW d, DbInv(d), NEW lag \in Lags
  PROVE  DbInv(Expire(d, lag)) /\ Expire(d, lag).last = d.last
<1>1. CASE Lapsed(d, lag) = {}
  BY <1>1 DEF Expire
<1>2. CASE Lapsed(d, lag) # {}
  <2>1. Lapsed(d, lag) \in SUBSET Claims /\ \A c \in Lapsed(d, lag) : IsOpen(d.rows[c])
    BY DEF Lapsed
  <2>2. "expired" \in ClosedStatus /\ SafeDb(d) /\ LogFaithful(d)
    BY DEF ClosedStatus, DbInv
  <2>3. LET e == PromoteWaiters(Publish(Close(d, Lapsed(d, lag), "expired"), Lapsed(d, lag)), lag)
        IN DbInv(e) /\ e.last = d.last
    BY <2>1, <2>2, EndingPass
  <2> QED
    BY <1>2, <2>3 DEF Expire
<1> QED
  BY <1>1, <1>2

\* A step that only moves leases: poll, renew, and the passing of time.
SameClaims(d, e) ==
  /\ e \in DbType
  /\ e.last = d.last /\ e.fence = d.fence /\ e.seen = d.seen
  /\ \A c \in Claims : /\ e.rows[c].status = d.rows[c].status
                       /\ e.rows[c].agent = d.rows[c].agent
                       /\ e.rows[c].radius = d.rows[c].radius
                       /\ e.rows[c].fence = d.rows[c].fence

\* The invariant does not speak of leases.
LEMMA LeasesAlone ==
  ASSUME NEW d, DbInv(d), NEW e, SameClaims(d, e)
  PROVE  DbInv(e)
<1>1. \A b, c \in Claims : Overlap(e, b, c) <=> Overlap(d, b, c)
  BY DEF SameClaims, Overlap
<1>2. \A c \in Claims : IsOpen(e.rows[c]) <=> IsOpen(d.rows[c])
  BY DEF SameClaims, IsOpen
<1>3. e \in DbType /\ Allotted(e) /\ FencesIssued(e)
  BY DEF SameClaims, DbInv, SafeDb, Allotted, FencesIssued
<1>4. Exclusive(e) /\ SuccessorFenced(e)
  BY <1>1 DEF SameClaims, DbInv, SafeDb, Exclusive, SuccessorFenced
<1>5. OwnOverlap(e)
  BY <1>1, <1>2 DEF SameClaims, DbInv, SafeDb, OwnOverlap
<1>6. \A c \in Claims : Blockers(e, c) = Blockers(d, c)
  BY <1>1, <1>2, Zenon DEF SameClaims, Blockers
<1>7. Settled(e)
  BY <1>6, Zenon DEF SameClaims, DbInv, Settled
<1>8. LogFaithful(e)
  BY Zenon DEF SameClaims, DbInv, LogFaithful
<1> QED
  BY <1>3, <1>4, <1>5, <1>7, <1>8 DEF DbInv, SafeDb

----------------------------------------------------------------------------
(* One lemma per operation.                                                *)

\* claim, when it is not rejected: the new claim queues behind whatever overlaps it
\* and is acquired at once when nothing does.
LEMMA ClaimAdmittedInv ==
  ASSUME DbInv(db), NEW a \in Agents, NEW R \in Radii, NEW ttl \in Ttls, NEW lag \in Lags,
         ClaimAdmitted(a, R, ttl, lag)
  PROVE  DbInv(db')
<1> DEFINE d == Expire(db, lag)
           c == d.last + 1
           row == [agent |-> a, radius |-> R, status |-> "waiting", fence |-> NoFence,
                   ttl |-> ttl, left |-> ttl - lag]
           i == Insert(d, row)
           t == TryPromote(i, c, lag)
           p == Publish(t, {c})
<1>1. DbInv(d)
  BY ExpirePass
<1>2. Own(d, a, R) = {} /\ d.last < MaxClaims /\ db' = p
  BY DEF ClaimAdmitted
<1> HIDE DEF d
<1>3. row \in Row /\ row.status = "waiting" /\ row.fence = NoFence /\ row.agent = a /\ row.radius = R
  <2>1. ttl \in Nat /\ ttl - lag \in Int
    BY TtlsAssumption, MaxLagAssumption DEF Lags
  <2> QED
    BY <2>1 DEF Row, Status, OpenStatus, NoFence
<1>4. Own(d, a, R) = {b \in Claims : IsOpen(d.rows[b]) /\ d.rows[b].agent = a /\ SetsOverlap(R, d.rows[b].radius)}
  BY DEF Own
<1> HIDE DEF row
<1>5. Inserts(d, row, i)
  BY <1>1, <1>2, <1>3, InsertView DEF DbInv, SafeDb
<1> HIDE DEF i
<1>6. c \in Claims /\ i.rows[c] = row /\ d.last \in Nat
  BY <1>1, <1>5 DEF Inserts, DbInv, SafeDb, DbType
<1>7. \A b \in Claims : b # c => i.rows[b] = d.rows[b]
  BY <1>5 DEF Inserts
<1>8. \A b \in Claims : b > c => d.rows[b].status = "absent"
  BY <1>1, <1>6 DEF DbInv, SafeDb, Allotted, Claims
<1>9. SafeDb(i)
  <2>1. i \in DbType
    BY <1>5 DEF Inserts
  <2>2. Allotted(i)
    BY <1>1, <1>3, <1>5, <1>6, <1>7 DEF Inserts, DbInv, SafeDb, Allotted, Claims
  <2>3. FencesIssued(i)
    BY <1>1, <1>3, <1>5, <1>6, <1>7 DEF Inserts, DbInv, SafeDb, FencesIssued, NoFence, DbType
  <2>4. Exclusive(i) /\ SuccessorFenced(i)
    BY <1>1, <1>3, <1>6, <1>7 DEF DbInv, SafeDb, Exclusive, SuccessorFenced, Overlap
  <2>5. OwnOverlap(i)
    <3> SUFFICES ASSUME NEW b \in Claims, NEW e \in Claims, b < e,
                        IsOpen(i.rows[b]), IsOpen(i.rows[e]),
                        i.rows[b].agent = i.rows[e].agent, Overlap(i, b, e)
                 PROVE  i.rows[b].status = "waiting" /\ i.rows[e].status = "acquired"
      BY Zenon DEF OwnOverlap
    <3>1. b # e
      BY DEF Claims
    <3>2. b # c
      BY <1>7, <1>8, <3>1 DEF IsOpen, OpenStatus
    <3>3. e # c
      <4> SUFFICES ASSUME e = c PROVE FALSE
        OBVIOUS
      <4>1. d.rows[b].agent = a /\ IsOpen(d.rows[b]) /\ SetsOverlap(R, d.rows[b].radius)
        BY <1>3, <1>6, <1>7, <3>2, OverlapSymmetric DEF Overlap
      <4> QED
        BY <1>2, <1>4, <4>1, Zenon
    <3>4. i.rows[b] = d.rows[b] /\ i.rows[e] = d.rows[e]
      BY <1>7, <3>2, <3>3
    <3> QED
      BY <1>1, <3>4 DEF DbInv, SafeDb, OwnOverlap, Overlap
  <2> QED
    BY <2>1, <2>2, <2>3, <2>4, <2>5 DEF SafeDb
<1>10. \A b \in Claims : b # c /\ i.rows[b].status = "waiting" => Blockers(i, b) # {}
  <2> SUFFICES ASSUME NEW b \in Claims, b # c, i.rows[b].status = "waiting"
               PROVE  Blockers(i, b) # {}
    OBVIOUS
  <2>1. PICK h \in Blockers(d, b) : TRUE
    BY <1>1, <1>7 DEF DbInv, Settled
  <2>2. h \in Claims /\ h # c
    BY <1>1, <1>6, <2>1 DEF Blockers, IsOpen, OpenStatus, DbInv, SafeDb, Allotted
  <2>3. h \in Blockers(i, b)
    BY <1>7, <2>1, <2>2, Zenon DEF Blockers, Overlap
  <2> QED
    BY <2>3
<1>11. CASE Blockers(i, c) = {}
  <2>1. {c} \in SUBSET Promotable(i) /\ {c} \in SUBSET Claims
    BY <1>3, <1>6, <1>11 DEF Promotable
  <2>2. t = Acquire(i, {c}, lag)
    BY <1>11 DEF TryPromote
  <2>3. i \in DbType
    BY <1>9 DEF SafeDb
  <2> HIDE DEF t, c
  <2>4. Acquires(i, {c}, t) /\ SafeDb(t)
    BY <1>9, <2>1, <2>2, <2>3, AcquireView, AcquireSafe
  <2>5. Publishes(t, {c}, p) /\ SafeDb(p)
    BY <2>1, <2>4, PublishView, PublishSafe, Zenon DEF Acquires
  <2> HIDE DEF p
  <2>6. /\ \A b \in Claims : b # c => p.rows[b] = i.rows[b]
        /\ p.rows[c].status = "acquired" /\ p.rows[c].radius = i.rows[c].radius
    BY <2>1, <2>4, <2>5, Zenon DEF Acquires, Publishes
  <2>7. Settled(p)
    <3> SUFFICES ASSUME NEW b \in Claims, p.rows[b].status = "waiting"
                 PROVE  Blockers(p, b) # {}
      BY DEF Settled
    <3>1. b # c /\ i.rows[b].status = "waiting"
      BY <2>6
    <3>2. PICK h \in Blockers(i, b) : TRUE
      BY <1>10, <3>1
    <3>3. h \in Blockers(p, b)
      BY <2>6, <3>1, <3>2, ZenonT(30) DEF Blockers, Overlap, IsOpen, OpenStatus
    <3> QED
      BY <3>3
  <2>8. LogFaithful(p)
    BY <1>1, <1>5, <1>7, <2>1, <2>4, <2>5, <2>6 DEF c, DbInv, LogFaithful, Inserts, Acquires, Publishes
  <2> QED
    BY <1>2, <2>5, <2>7, <2>8 DEF DbInv
<1>12. CASE Blockers(i, c) # {}
  <2>1. t = i
    BY <1>12 DEF TryPromote
  <2>2. {c} \in SUBSET Claims /\ i \in DbType
    BY <1>6, <1>9 DEF SafeDb
  <2>3. Publishes(i, {c}, p) /\ SafeDb(p)
    BY <1>9, <2>1, <2>2, PublishView, PublishSafe
  <2> HIDE DEF p
  <2>4. p.rows = i.rows
    BY <2>3, Zenon DEF Publishes
  <2>5. Settled(p)
    BY <1>10, <1>12, <2>4, Zenon DEF Settled, Blockers, Overlap
  <2>6. LogFaithful(p)
    BY <1>1, <1>5, <1>7, <2>2, <2>3, <2>4 DEF DbInv, LogFaithful, Inserts, Publishes
  <2> QED
    BY <1>2, <2>3, <2>5, <2>6 DEF DbInv
<1> QED
  BY <1>11, <1>12

\* poll never promotes: the claim it asks about still has a blocker once the
\* transaction's expiries are done, so its silent promotion never happens.
LEMMA PollInv ==
  ASSUME DbInv(db), NEW c \in Claims, NEW lag \in Lags, Poll(c, lag)
  PROVE  DbInv(db')
<1> DEFINE d == Expire(db, lag)
           l == [d EXCEPT !.rows[c].left = d.rows[c].ttl - lag]
<1>1. DbInv(d)
  BY ExpirePass
<1>2. db' = IF d.rows[c].status = "waiting" THEN TryPromote(l, c, lag) ELSE d
  BY DEF Poll
<1> HIDE DEF d
<1>3. d \in DbType /\ d.rows[c] \in Row /\ d.rows[c].ttl - lag \in Int
  BY <1>1, MaxLagAssumption DEF DbInv, SafeDb, DbType, Row, Lags
<1>4. SameClaims(d, l)
  <2> DEFINE n == d.rows[c].ttl - lag
             r == [d.rows[c] EXCEPT !.left = n]
  <2>1. n \in Int
    BY <1>3
  <2> HIDE DEF n
  <2>2. r \in Row /\ r.status = d.rows[c].status /\ r.agent = d.rows[c].agent
        /\ r.radius = d.rows[c].radius /\ r.fence = d.rows[c].fence
    BY <1>3, <2>1, Zenon DEF Row
  <2>3. l = [d EXCEPT !.rows = [d.rows EXCEPT ![c] = r]]
    BY DEF n
  <2> HIDE DEF r, l
  <2> QED
    BY <1>3, <2>2, <2>3, Zenon DEF SameClaims, DbType
<1> HIDE DEF l
<1>5. DbInv(l)
  BY <1>1, <1>4, LeasesAlone
<1>6. d.rows[c].status = "waiting" => Blockers(l, c) # {}
  BY <1>4, <1>5, Zenon DEF DbInv, Settled, SameClaims
<1> QED
  BY <1>1, <1>2, <1>5, <1>6 DEF TryPromote

\* renew moves one lease.
LEMMA RenewInv ==
  ASSUME DbInv(db), NEW c \in Claims, NEW a \in Agents, NEW f, NEW ttl \in Ttls, NEW lag \in Lags,
         Renew(c, a, f, ttl, lag)
  PROVE  DbInv(db')
<1> DEFINE d == Expire(db, lag)
           n == ttl - lag
           r == [d.rows[c] EXCEPT !.ttl = ttl, !.left = n]
           l == [d EXCEPT !.rows = [d.rows EXCEPT ![c] = r]]
           p == Publish(l, {c})
<1>1. DbInv(d)
  BY ExpirePass
<1>2. db' = Publish([d EXCEPT !.rows[c].ttl = ttl, !.rows[c].left = n], {c})
  BY DEF Renew
<1> HIDE DEF d
<1>3. d \in DbType /\ d.rows[c] \in Row /\ n \in Int /\ ttl \in Nat
  BY <1>1, MaxLagAssumption, TtlsAssumption DEF DbInv, SafeDb, DbType, Lags
<1> HIDE DEF n
<1>4. l = [d EXCEPT !.rows[c].ttl = ttl, !.rows[c].left = n]
  BY <1>3, Zenon DEF DbType, Row
<1>5. r \in Row /\ r.status = d.rows[c].status /\ r.agent = d.rows[c].agent
      /\ r.radius = d.rows[c].radius /\ r.fence = d.rows[c].fence
  BY <1>3, Zenon DEF Row
<1> HIDE DEF r
<1>6. SameClaims(d, l)
  BY <1>3, <1>5, Zenon DEF SameClaims, DbType
<1>7. db' = p
  BY <1>2, <1>4
<1> HIDE DEF l
<1>8. DbInv(l)
  BY <1>1, <1>6, LeasesAlone
<1>9. Publishes(l, {c}, p)
  BY <1>8, PublishView DEF DbInv, SafeDb
<1>10. p = l
  <2>1. \A b \in Claims : p.seen[b] = l.seen[b]
    BY <1>8, <1>9, Zenon DEF Publishes, DbInv, LogFaithful
  <2>2. l \in DbType /\ p \in DbType /\ p.rows = l.rows /\ p.last = l.last /\ p.fence = l.fence
    BY <1>8, <1>9, Zenon DEF Publishes, DbInv, SafeDb
  <2>3. p.seen = l.seen
    BY <2>1, <2>2 DEF DbType
  <2> HIDE DEF p
  <2> QED
    BY <2>2, <2>3 DEF DbType
<1> QED
  BY <1>7, <1>8, <1>10

\* release: the holder's claim ends and the queue moves up.
LEMMA ReleaseInv ==
  ASSUME DbInv(db), NEW c \in Claims, NEW a \in Agents, NEW f, NEW lag \in Lags,
         Release(c, a, f, lag)
  PROVE  DbInv(db')
<1> DEFINE d == Expire(db, lag)
<1>1. DbInv(d)
  BY ExpirePass
<1>2. /\ d.rows[c].status = "acquired"
      /\ db' = PromoteWaiters(Publish(Close(d, {c}, "released"), {c}), lag)
  BY DEF Release, Held
<1> HIDE DEF d
<1>3. /\ SafeDb(d) /\ LogFaithful(d) /\ {c} \in SUBSET Claims
      /\ \A b \in {c} : IsOpen(d.rows[b])
      /\ "released" \in ClosedStatus
  BY <1>1, <1>2 DEF DbInv, IsOpen, OpenStatus, ClosedStatus
<1>4. DbInv(PromoteWaiters(Publish(Close(d, {c}, "released"), {c}), lag))
  BY <1>3, EndingPass
<1> QED
  BY <1>2, <1>4

\* cancel: the same without an expiry before it.
LEMMA CancelInv ==
  ASSUME DbInv(db), NEW c \in Claims, NEW a \in Agents, NEW lag \in Lags, Cancel(c, a, lag)
  PROVE  DbInv(db')
<1>1. /\ SafeDb(db) /\ LogFaithful(db) /\ {c} \in SUBSET Claims
      /\ \A b \in {c} : IsOpen(db.rows[b])
      /\ "cancelled" \in ClosedStatus
  BY DEF DbInv, IsOpen, OpenStatus, ClosedStatus, Cancel
<1>2. DbInv(PromoteWaiters(Publish(Close(db, {c}, "cancelled"), {c}), lag))
  BY <1>1, EndingPass
<1> QED
  BY <1>2 DEF Cancel

\* handoff: the successor's claim takes the place of the holder's, so whatever was
\* blocked stays blocked and whoever was apart stays apart.
LEMMA HandoffInv ==
  ASSUME DbInv(db), NEW c \in Claims, NEW a \in Agents, NEW f, NEW s \in Agents, NEW lag \in Lags,
         Handoff(c, a, f, s, lag)
  PROVE  DbInv(db')
<1> DEFINE d == Expire(db, lag)
           n == d.last + 1
           row == [agent |-> s, radius |-> d.rows[c].radius, status |-> "acquired",
                   fence |-> d.fence + 1, ttl |-> d.rows[c].ttl, left |-> d.rows[c].ttl - lag]
           k == Close(d, {c}, "handed_off")
           i == Insert(k, row)
           g == [i EXCEPT !.fence = d.fence + 1]
           p == Publish(g, {c, n})
<1>1. DbInv(d)
  BY ExpirePass
<1>2. d.rows[c].status = "acquired" /\ d.rows[c].agent = a /\ s # a /\ d.last < MaxClaims /\ db' = p
  BY Zenon DEF Handoff, Held
<1> HIDE DEF d
<1>3. d \in DbType /\ d.rows[c] \in Row /\ d.fence \in Nat /\ d.last \in Nat
  BY <1>1 DEF DbInv, SafeDb, DbType
<1>4. row \in Row /\ row.status = "acquired" /\ row.fence = d.fence + 1 /\ row.agent = s
      /\ row.radius = d.rows[c].radius
  <2>1. d.rows[c].ttl - lag \in Int /\ d.fence + 1 \in Nat
    BY <1>3, MaxLagAssumption DEF Lags, Row
  <2> QED
    BY <1>3, <2>1, Zenon DEF Row, Status, OpenStatus
<1> HIDE DEF row
<1>5. Closes(d, {c}, "handed_off", k)
  BY <1>3, CloseView DEF ClosedStatus
<1> HIDE DEF k
<1>6. Inserts(k, row, i) /\ k.last = d.last
  BY <1>2, <1>4, <1>5, InsertView DEF Closes
<1> HIDE DEF i
<1>7. /\ g \in DbType /\ g.rows = i.rows /\ g.last = i.last /\ g.seen = i.seen
      /\ g.fence = d.fence + 1
  BY <1>3, <1>6 DEF Inserts, DbType
<1>8. n \in Claims /\ n = d.last + 1
  BY <1>6 DEF Inserts
<1> HIDE DEF g
<1>9. Publishes(g, {c, n}, p)
  BY <1>7, <1>8, PublishView
<1> HIDE DEF p
<1>10. d.rows[n].status = "absent" /\ n # c /\ \A b \in Claims : b > n => d.rows[b].status = "absent"
  BY <1>1, <1>2, <1>3, <1>8 DEF DbInv, SafeDb, Allotted, Claims
<1>11. /\ p \in DbType
       /\ p.last = n /\ p.fence = d.fence + 1
       /\ p.rows[n] = row
       /\ p.rows[c].status = "handed_off" /\ p.rows[c].fence = d.rows[c].fence
       /\ p.rows[c].agent = d.rows[c].agent /\ p.rows[c].radius = d.rows[c].radius
       /\ \A b \in Claims \ {c, n} : p.rows[b] = d.rows[b]
  BY <1>5, <1>6, <1>7, <1>8, <1>9, <1>10 DEF Closes, Inserts, Publishes
<1> HIDE DEF n
<1>12. \A b, e \in Claims : Overlap(d, b, e) <=> Overlap(d, e, b)
  BY OverlapSymmetric DEF Overlap
<1>13. \A b \in Claims \ {n} : /\ Overlap(p, b, n) <=> Overlap(d, b, c)
                               /\ Overlap(p, n, b) <=> Overlap(d, c, b)
  BY <1>4, <1>11 DEF Overlap
<1>14. \A b, e \in Claims \ {n} : Overlap(p, b, e) <=> Overlap(d, b, e)
  BY <1>11, Zenon DEF Overlap
<1>15. \A b \in Claims \ {c} : d.rows[b].status = "acquired" => ~Overlap(d, b, c) /\ ~Overlap(d, c, b)
  BY <1>1, <1>2, Zenon DEF DbInv, SafeDb, Exclusive
<1>16. Allotted(p) /\ FencesIssued(p)
  <2>1. Allotted(p)
    BY <1>1, <1>2, <1>3, <1>4, <1>8, <1>10, <1>11 DEF DbInv, SafeDb, Allotted, Claims
  <2>2. \A b \in Claims : d.rows[b].fence \in Nat /\ d.rows[b].fence <= d.fence
    BY <1>1, <1>3, Zenon DEF DbInv, SafeDb, FencesIssued, DbType, Row
  <2>3. FencesIssued(p)
    BY <1>3, <1>4, <1>11, <2>2 DEF FencesIssued
  <2> QED
    BY <2>1, <2>3
<1>17. Exclusive(p)
  BY <1>1, <1>4, <1>11, <1>13, <1>14, <1>15 DEF DbInv, SafeDb, Exclusive
<1>18. SuccessorFenced(p)
  <2> SUFFICES ASSUME NEW b \in Claims, NEW e \in Claims, b # e,
                      p.rows[e].status = "acquired", p.rows[b].fence # NoFence, Overlap(p, b, e)
               PROVE  p.rows[b].fence < p.rows[e].fence
    BY Zenon DEF SuccessorFenced
  <2>1. CASE e = n
    <3>1. p.rows[b].fence = d.rows[b].fence /\ d.rows[b].fence \in Nat /\ d.rows[b].fence <= d.fence
      BY <1>1, <1>3, <1>11, <2>1, Zenon DEF DbInv, SafeDb, FencesIssued, DbType, Row
    <3> QED
      BY <1>3, <1>4, <1>11, <2>1, <3>1
  <2>2. CASE e # n
    <3>1. e # c /\ d.rows[e].status = "acquired" /\ p.rows[e] = d.rows[e]
      BY <1>11, <2>2, Zenon
    <3>2. b # n
      BY <1>13, <1>15, <2>2, <3>1
    <3>3. p.rows[b].fence = d.rows[b].fence /\ Overlap(d, b, e)
      BY <1>11, <1>14, <2>2, <3>2, Zenon
    <3> QED
      BY <1>1, <3>1, <3>3, Zenon DEF DbInv, SafeDb, SuccessorFenced
  <2> QED
    BY <2>1, <2>2
<1>19. OwnOverlap(p)
  <2> SUFFICES ASSUME NEW b \in Claims, NEW e \in Claims, b < e,
                      IsOpen(p.rows[b]), IsOpen(p.rows[e]),
                      p.rows[b].agent = p.rows[e].agent, Overlap(p, b, e)
               PROVE  p.rows[b].status = "waiting" /\ p.rows[e].status = "acquired"
    BY Zenon DEF OwnOverlap
  <2>1. b # e /\ b # c /\ e # c
    BY <1>11 DEF Claims, IsOpen, OpenStatus
  <2>2. b # n
    BY <1>10, <1>11, <2>1, Zenon DEF IsOpen, OpenStatus
  <2>3. p.rows[b] = d.rows[b]
    BY <1>11, <2>1, <2>2, Zenon
  <2>4. CASE e = n
    BY <1>4, <1>11, <1>13, <1>15, <2>1, <2>2, <2>3, <2>4, ZenonT(30) DEF IsOpen, OpenStatus
  <2>5. CASE e # n
    BY <1>1, <1>11, <1>14, <2>1, <2>2, <2>3, <2>5 DEF DbInv, SafeDb, OwnOverlap
  <2> QED
    BY <2>4, <2>5, Zenon
<1>20. Settled(p)
  <2> SUFFICES ASSUME NEW e \in Claims, p.rows[e].status = "waiting"
               PROVE  Blockers(p, e) # {}
    BY DEF Settled
  <2>1. e # c /\ e # n /\ d.rows[e].status = "waiting"
    BY <1>4, <1>11, Zenon
  <2>2. PICK b \in Blockers(d, e) : TRUE
    BY <1>1, <2>1 DEF DbInv, Settled
  <2>3. b \in Claims /\ b # e /\ IsOpen(d.rows[b]) /\ Overlap(d, b, e) /\ (d.rows[b].status = "acquired" \/ b < e)
    BY <2>2 DEF Blockers
  <2>4. b # n
    BY <1>10, <2>3 DEF IsOpen, OpenStatus
  <2>5. CASE b = c
    <3>1. n \in Claims \ {e} /\ p.rows[n].status = "acquired"
      BY <1>4, <1>8, <1>11, <2>1, Zenon
    <3>2. Overlap(p, n, e)
      BY <1>13, <2>1, <2>3, <2>5, Zenon
    <3> QED
      BY <3>1, <3>2 DEF Blockers, IsOpen, OpenStatus
  <2>6. CASE b # c
    <3>1. p.rows[b] = d.rows[b] /\ Overlap(p, b, e)
      BY <1>11, <1>14, <2>1, <2>3, <2>4, <2>6
    <3>2. b \in Blockers(p, e)
      BY <2>3, <3>1, ZenonT(30) DEF Blockers
    <3> QED
      BY <3>2
  <2> QED
    BY <2>5, <2>6
<1>21. LogFaithful(p)
  BY <1>1, <1>5, <1>6, <1>7, <1>8, <1>9, <1>11 DEF DbInv, LogFaithful, Closes, Inserts, Publishes
<1> QED
  BY <1>2, <1>11, <1>16, <1>17, <1>18, <1>19, <1>20, <1>21 DEF DbInv, SafeDb

\* The passing of time moves leases.
LEMMA TickInv ==
  ASSUME DbInv(db), Tick
  PROVE  DbInv(db')
<1> DEFINE new(c) == IF IsOpen(db.rows[c]) /\ db.rows[c].left > -MaxLag
                     THEN [db.rows[c] EXCEPT !.left = @ - 1]
                     ELSE db.rows[c]
<1>1. db \in DbType /\ \A c \in Claims : db.rows[c] \in Row
  BY DEF DbInv, SafeDb, DbType
<1>2. \A c \in Claims : /\ new(c) \in Row
                        /\ new(c).status = db.rows[c].status
                        /\ new(c).agent = db.rows[c].agent
                        /\ new(c).radius = db.rows[c].radius
                        /\ new(c).fence = db.rows[c].fence
  <2> SUFFICES ASSUME NEW c \in Claims
               PROVE  /\ new(c) \in Row
                      /\ new(c).status = db.rows[c].status
                      /\ new(c).agent = db.rows[c].agent
                      /\ new(c).radius = db.rows[c].radius
                      /\ new(c).fence = db.rows[c].fence
    BY Zenon
  <2>1. db.rows[c] \in Row /\ db.rows[c].left - 1 \in Int
    BY <1>1 DEF Row
  <2> QED
    BY <2>1, Zenon DEF Row
<1>3. db' = [db EXCEPT !.rows = [c \in Claims |-> new(c)]]
  BY DEF Tick
<1> HIDE DEF new
<1>4. SameClaims(db, db')
  BY <1>1, <1>2, <1>3 DEF SameClaims, DbType
<1> QED
  BY <1>4, LeasesAlone

----------------------------------------------------------------------------
(* The theorems.                                                           *)

\* An empty registry satisfies the invariant.
LEMMA InitInv == Init => DbInv(db)
<1> SUFFICES ASSUME Init PROVE DbInv(db)
  OBVIOUS
<1>1. Absent \in Row /\ Unseen \in Notice /\ NoFence \in Nat
  BY DEF Absent, Row, Unseen, Notice, Status, NoFence, NoLease
<1>2. /\ db \in DbType
      /\ db.last = 0 /\ db.fence = NoFence
      /\ \A c \in Claims : db.rows[c] = Absent /\ db.seen[c] = Unseen
  BY <1>1, MaxClaimsAssumption DEF Init, DbType
<1>3. Absent.status = "absent" /\ Absent.fence = NoFence
      /\ Unseen.status = "absent" /\ Unseen.fence = NoFence
      /\ Unseen = [status |-> Absent.status, fence |-> Absent.fence]
  BY DEF Absent, Unseen
<1>4. Allotted(db) /\ FencesIssued(db)
  BY <1>2, <1>3 DEF Allotted, FencesIssued, Claims, NoFence
<1>5. Exclusive(db) /\ SuccessorFenced(db) /\ OwnOverlap(db) /\ Settled(db)
  BY <1>2, <1>3, Zenon DEF Exclusive, SuccessorFenced, OwnOverlap, Settled, IsOpen, OpenStatus
<1>6. LogFaithful(db)
  BY <1>2, <1>3 DEF LogFaithful
<1> QED
  BY <1>2, <1>4, <1>5, <1>6 DEF DbInv, SafeDb

\* Every operation of the registry, with whatever clock reading, keeps the invariant.
LEMMA NextInv == DbInv(db) /\ [Next]_vars => DbInv(db')
<1> SUFFICES ASSUME DbInv(db), [Next]_vars PROVE DbInv(db')
  OBVIOUS
<1>1. CASE Tick
  BY <1>1, TickInv
<1>2. ASSUME NEW a \in Agents, NEW lag \in Lags, Operate(a, lag)
      PROVE  DbInv(db')
  <2>1. CASE \E R \in Radii, ttl \in Ttls : Claim(a, R, ttl, lag)
    <3>1. PICK R \in Radii, ttl \in Ttls : ClaimRejected(a, R, lag) \/ ClaimAdmitted(a, R, ttl, lag)
      BY <2>1 DEF Claim
    <3>2. CASE ClaimRejected(a, R, lag)
      BY <3>2, ExpirePass DEF ClaimRejected
    <3>3. CASE ClaimAdmitted(a, R, ttl, lag)
      BY <3>3, ClaimAdmittedInv
    <3> QED
      BY <3>1, <3>2, <3>3
  <2>2. CASE \E c \in Claims : Poll(c, lag)
    BY <2>2, PollInv
  <2>3. CASE \E c \in Claims, f \in Fences, ttl \in Ttls : Renew(c, a, f, ttl, lag)
    BY <2>3, RenewInv
  <2>4. CASE \E c \in Claims, f \in Fences : Release(c, a, f, lag)
    BY <2>4, ReleaseInv
  <2>5. CASE \E c \in Claims : Cancel(c, a, lag)
    BY <2>5, CancelInv
  <2>6. CASE \E c \in Claims, f \in Fences, s \in Agents : Handoff(c, a, f, s, lag)
    BY <2>6, HandoffInv
  <2> QED
    BY <1>2, <2>1, <2>2, <2>3, <2>4, <2>5, <2>6 DEF Operate
<1>3. CASE UNCHANGED vars
  BY <1>3 DEF vars
<1> QED
  BY <1>1, <1>2, <1>3 DEF Next

\* The registry always satisfies the inductive invariant.
THEOREM RegistryInvariant == Spec => []Inv
<1>1. Init => Inv
  BY InitInv DEF Inv
<1>2. Inv /\ [Next]_vars => Inv'
  BY NextInv DEF Inv
<1> QED
  BY <1>1, <1>2, PTL DEF Spec

\* The database keeps its shape (the tables of WorkClaimRegistry.__init__).
THEOREM RegistryTypes == Spec => []TypeOK
<1>1. Inv => TypeOK
  BY DEF Inv, DbInv, SafeDb, Allotted, TypeOK
<1> QED
  BY <1>1, RegistryInvariant, PTL

\* Two claims held at the same time never overlap, for any number of agents and
\* claims and any lag between reading the clock and getting the write lock.
THEOREM RegistryExclusive == Spec => []ExclusiveInv
<1>1. Inv => ExclusiveInv
  BY DEF Inv, DbInv, SafeDb, ExclusiveInv
<1> QED
  BY <1>1, RegistryInvariant, PTL

\* No committed transaction leaves a waiting claim with nothing to wait for.
THEOREM RegistrySettled == Spec => []SettledInv
<1>1. Inv => SettledInv
  BY DEF Inv, DbInv, SettledInv
<1> QED
  BY <1>1, RegistryInvariant, PTL

\* The event log shows the status and fence of every claim (_append_event), although
\* poll can promote without logging: it never gets to.
THEOREM RegistryLogFaithful == Spec => []LogFaithfulInv
<1>1. Inv => LogFaithfulInv
  BY DEF Inv, DbInv, LogFaithfulInv
<1> QED
  BY <1>1, RegistryInvariant, PTL

\* A holder's fence (_next_fence) is above the fence of every other claim that ever
\* held overlapping resources.
THEOREM RegistryFenced == Spec => []SuccessorFencedInv
<1>1. Inv => SuccessorFencedInv
  BY DEF Inv, DbInv, SafeDb, SuccessorFencedInv
<1> QED
  BY <1>1, RegistryInvariant, PTL

\* An agent waits behind itself only where a claim was handed to it (claim rejects
\* what overlaps the caller's own claims, handoff does not look).
THEOREM RegistryOwnOverlap == Spec => []OwnOverlapInv
<1>1. Inv => OwnOverlapInv
  BY DEF Inv, DbInv, SafeDb, OwnOverlapInv
<1> QED
  BY <1>1, RegistryInvariant, PTL

(***************************************************************************)
(* Writers, and the order in which claims are granted                      *)
(*                                                                         *)
(* What an operation may do to a row and to the queue is a relation of two *)
(* databases, Evolves: every step an operation is composed of satisfies it,*)
(* and it chains.                                                          *)
(***************************************************************************)
(* How a row may move, in one operation or in many.                        *)

\* A claim keeps its agent and its radius, never waits again once it was held, never
\* comes back once it is closed, and a lease that is over for every clock is not
\* given back.
RowMoves(r, q) ==
  /\ r.status # "absent" => q.status # "absent" /\ q.agent = r.agent /\ q.radius = r.radius
  /\ r.status \notin {"absent", "waiting"} => q.status # "waiting"
  /\ r.status \in ClosedStatus => q.status = r.status
  /\ r.status = "acquired" /\ r.left <= -MaxLag => q.status # "acquired" \/ q.left <= -MaxLag

Moves(d, e) == \A c \in Claims : RowMoves(d.rows[c], e.rows[c])

\* Whoever becomes a holder leaves no earlier overlapping claim waiting.
InTurn(d, e) ==
  \A b, c \in Claims :
    /\ b < c
    /\ d.rows[c].status # "acquired" /\ e.rows[c].status = "acquired"
    /\ e.rows[b].status = "waiting"
    => ~Overlap(e, b, c)

Evolves(d, e) == Moves(d, e) /\ InTurn(d, e)

\* What holds of two steps in a row holds of both.
LEMMA MovesOn ==
  ASSUME NEW d \in DbType, NEW e \in DbType, NEW g \in DbType, Moves(d, e), Moves(e, g)
  PROVE  Moves(d, g)
<1> SUFFICES ASSUME NEW c \in Claims PROVE RowMoves(d.rows[c], g.rows[c])
  BY DEF Moves
<1>1. RowMoves(d.rows[c], e.rows[c]) /\ RowMoves(e.rows[c], g.rows[c])
  BY DEF Moves
<1>2. d.rows[c].status \in Status /\ e.rows[c].status \in Status /\ g.rows[c].status \in Status
  BY DEF DbType, Row
<1> QED BY <1>1, <1>2, Zenon DEF RowMoves, Status, OpenStatus, ClosedStatus

LEMMA EvolvesOn ==
  ASSUME NEW d \in DbType, NEW e \in DbType, NEW g \in DbType, Allotted(e), Evolves(d, e), Evolves(e, g)
  PROVE  Evolves(d, g)
<1>1. Moves(d, g)
  BY MovesOn DEF Evolves
<1>2. InTurn(d, g)
  <2> SUFFICES ASSUME NEW b \in Claims, NEW c \in Claims, b < c, d.rows[c].status # "acquired",
                      g.rows[c].status = "acquired", g.rows[b].status = "waiting", Overlap(g, b, c)
               PROVE  FALSE
    BY DEF InTurn
  <2>1. e.rows[c].status = "acquired"
    BY Zenon DEF Evolves, InTurn
  <2>2. e.last \in Nat /\ e.rows[b].status # "absent" /\ e.rows[c].status # "absent"
    BY <2>1 DEF Allotted, DbType, Claims
  <2>3. e.rows[b].status \in Status
    BY Zenon DEF DbType, Row
  <2>4. e.rows[b].status = "waiting" /\ Overlap(e, b, c)
    BY <2>2, <2>3, Zenon DEF Evolves, Moves, RowMoves, Overlap, Status, OpenStatus, ClosedStatus
  <2> QED BY <2>1, <2>4, Zenon DEF Evolves, InTurn
<1> QED BY <1>1, <1>2 DEF Evolves

LEMMA RowsAlone ==
  ASSUME NEW d, NEW e, \A c \in Claims : e.rows[c] = d.rows[c]
  PROVE  Evolves(d, e)
BY Zenon DEF Evolves, Moves, RowMoves, InTurn

\* _close.
LEMMA CloseEvolves ==
  ASSUME NEW d \in DbType, NEW S \in SUBSET Claims, NEW end \in ClosedStatus, NEW e, Closes(d, S, end, e),
         \A c \in S : IsOpen(d.rows[c])
  PROVE  Evolves(d, e)
<1>1. end \notin {"absent", "waiting", "acquired"}
  BY DEF ClosedStatus
<1>2. \A c \in S : d.rows[c].status \notin ClosedStatus
  BY DEF IsOpen, OpenStatus, ClosedStatus
<1>3. Moves(d, e)
  BY <1>1, <1>2, Zenon DEF Closes, Moves, RowMoves
<1>4. InTurn(d, e)
  BY <1>1, Zenon DEF Closes, InTurn
<1> QED BY <1>3, <1>4 DEF Evolves

\* _try_promote and _promote_waiters: only waiters without a blocker.
LEMMA AcquireEvolves ==
  ASSUME NEW d \in DbType, NEW S \in SUBSET Promotable(d), NEW e, Acquires(d, S, e)
  PROVE  Evolves(d, e)
<1>1. S \subseteq Claims /\ \A c \in S : d.rows[c].status = "waiting" /\ Blockers(d, c) = {}
  BY DEF Promotable
<1>2. Moves(d, e)
  BY <1>1, Zenon DEF Acquires, Moves, RowMoves, ClosedStatus
<1>3. InTurn(d, e)
  <2> SUFFICES ASSUME NEW b \in Claims, NEW c \in Claims, b < c, d.rows[c].status # "acquired",
                      e.rows[c].status = "acquired", e.rows[b].status = "waiting", Overlap(e, b, c)
               PROVE  FALSE
    BY DEF InTurn
  <2>1. c \in S /\ b \notin S
    BY Zenon DEF Acquires
  <2>2. d.rows[b].status = "waiting" /\ Overlap(d, b, c)
    BY <2>1, Zenon DEF Acquires, Overlap
  <2>3. b \in Claims \ {c} /\ IsOpen(d.rows[b])
    BY <2>2 DEF IsOpen, OpenStatus, Claims
  <2>4. b \in Blockers(d, c)
    BY <2>2, <2>3 DEF Blockers
  <2> QED BY <1>1, <2>1, <2>4
<1> QED BY <1>2, <1>3 DEF Evolves

\* A pass of _promote_waiters; whoever it promotes has a fence nobody had.
LEMMA PromoteEvolves ==
  ASSUME NEW d \in DbType, Allotted(d), NEW lag \in Lags
  PROVE  LET e == PromoteWaiters(d, lag)
         IN /\ e \in DbType /\ Evolves(d, e)
            /\ \A c \in Claims : e.rows[c].status = "acquired" /\ e.rows[c].fence <= d.fence
                                   => e.rows[c] = d.rows[c]
<1> DEFINE S == Promotable(d)
           a == Acquire(d, S, lag)
           e == Publish(a, S)
<1>1. S \in SUBSET Claims /\ S \in SUBSET Promotable(d)
  BY DEF Promotable
<1> HIDE DEF S
<1>2. Acquires(d, S, a)
  BY <1>1, AcquireView
<1>3. e = PromoteWaiters(d, lag)
  BY DEF PromoteWaiters, S
<1> HIDE DEF a
<1>4. a \in DbType /\ Publishes(a, S, e)
  BY <1>1, <1>2, PublishView DEF Acquires
<1> HIDE DEF e
<1>5. e \in DbType /\ e.rows = a.rows
  BY <1>4 DEF Publishes
<1>6. Evolves(d, a)
  BY <1>1, <1>2, AcquireEvolves
<1>7. Evolves(d, e)
  BY <1>5, <1>6, Zenon DEF Evolves, Moves, InTurn, Overlap
<1>8. \A c \in Claims : e.rows[c].status = "acquired" /\ e.rows[c].fence <= d.fence
                          => e.rows[c] = d.rows[c]
  <2> SUFFICES ASSUME NEW c \in Claims, e.rows[c].fence <= d.fence PROVE c \notin S
    BY <1>2, <1>5, Zenon DEF Acquires
  <2>1. d.fence \in Nat /\ a.rows[c].fence \in Nat
    BY <1>4 DEF DbType, Row
  <2> QED BY <1>2, <1>5, <2>1 DEF Acquires
<1> QED BY <1>3, <1>5, <1>7, <1>8

\* Ending claims, and the pass that follows.
LEMMA EndingEvolves ==
  ASSUME NEW d \in DbType, Allotted(d), NEW S \in SUBSET Claims, \A c \in S : IsOpen(d.rows[c]),
         NEW end \in ClosedStatus, NEW lag \in Lags
  PROVE  LET e == PromoteWaiters(Publish(Close(d, S, end), S), lag)
         IN /\ e \in DbType /\ Evolves(d, e)
            /\ \A c \in Claims : e.rows[c].status = "acquired" /\ e.rows[c].fence <= d.fence
                                   => c \notin S /\ e.rows[c] = d.rows[c]
<1> DEFINE k == Close(d, S, end)
           p == Publish(k, S)
           e == PromoteWaiters(p, lag)
<1>1. Closes(d, S, end, k) /\ k \in DbType
  BY CloseView DEF Closes
<1> HIDE DEF k
<1>2. Publishes(k, S, p) /\ p \in DbType /\ p.rows = k.rows /\ p.last = d.last /\ p.fence = d.fence
  BY <1>1, PublishView, Zenon DEF Publishes, Closes
<1> HIDE DEF p
<1>3. Evolves(d, k)
  BY <1>1, CloseEvolves
<1>4. Evolves(d, p)
  BY <1>2, <1>3, Zenon DEF Evolves, Moves, InTurn, Overlap
<1>5. Allotted(p)
  <2>1. end # "absent" /\ \A c \in S : d.rows[c].status # "absent"
    BY DEF ClosedStatus, IsOpen, OpenStatus
  <2> QED BY <1>1, <1>2, <2>1 DEF Allotted, Closes
<1>6. /\ e \in DbType /\ Evolves(p, e)
      /\ \A c \in Claims : e.rows[c].status = "acquired" /\ e.rows[c].fence <= p.fence
                             => e.rows[c] = p.rows[c]
  BY <1>2, <1>5, PromoteEvolves
<1> HIDE DEF e
<1>7. Evolves(d, e)
  BY <1>2, <1>4, <1>5, <1>6, EvolvesOn
<1>8. end # "acquired"
  BY DEF ClosedStatus
<1>9. \A c \in Claims : e.rows[c].status = "acquired" /\ e.rows[c].fence <= d.fence
                          => c \notin S /\ e.rows[c] = d.rows[c]
  BY <1>1, <1>2, <1>6, <1>8 DEF Closes
<1> QED BY <1>6, <1>7, <1>9, ZenonT(30) DEF e, p, k

\* _expire: who has an old fence after it held before, and the lease was not over.
LEMMA ExpireEvolves ==
  ASSUME NEW d, DbInv(d), NEW lag \in Lags
  PROVE  LET e == Expire(d, lag)
         IN /\ e \in DbType /\ Evolves(d, e)
            /\ \A c \in Claims : e.rows[c].status = "acquired" /\ e.rows[c].fence <= d.fence
                                   => e.rows[c] = d.rows[c] /\ ~(d.rows[c].left <= -lag)
<1> DEFINE S == Lapsed(d, lag)
<1>1. d \in DbType /\ Allotted(d)
  BY DEF DbInv, SafeDb
<1>2. S \in SUBSET Claims /\ \A c \in S : IsOpen(d.rows[c])
  BY DEF Lapsed
<1>3. \A c \in Claims : c \notin S /\ d.rows[c].status = "acquired" => ~(d.rows[c].left <= -lag)
  BY DEF Lapsed, IsOpen, OpenStatus
<1>4. CASE S = {}
  <2>1. Expire(d, lag) = d
    BY <1>4 DEF Expire
  <2>2. Evolves(d, d)
    BY RowsAlone
  <2> QED BY <1>1, <1>3, <1>4, <2>1, <2>2
<1>5. CASE S # {}
  <2>1. "expired" \in ClosedStatus
    BY DEF ClosedStatus
  <2>2. Expire(d, lag) = PromoteWaiters(Publish(Close(d, S, "expired"), S), lag)
    BY <1>5 DEF Expire
  <2> HIDE DEF S
  <2>3. LET e == PromoteWaiters(Publish(Close(d, S, "expired"), S), lag)
        IN /\ e \in DbType /\ Evolves(d, e)
           /\ \A c \in Claims : e.rows[c].status = "acquired" /\ e.rows[c].fence <= d.fence
                                  => c \notin S /\ e.rows[c] = d.rows[c]
    BY <1>1, <1>2, <2>1, EndingEvolves
  <2> QED BY <1>3, <2>2, <2>3, Zenon
<1> QED BY <1>4, <1>5, Zenon
\* claim, when it is not rejected.
LEMMA ClaimEvolves ==
  ASSUME DbInv(db), NEW a \in Agents, NEW R \in Radii, NEW ttl \in Ttls, NEW lag \in Lags,
         ClaimAdmitted(a, R, ttl, lag)
  PROVE  Evolves(db, db')
<1> DEFINE d == Expire(db, lag)
           c == d.last + 1
           row == [agent |-> a, radius |-> R, status |-> "waiting", fence |-> NoFence,
                   ttl |-> ttl, left |-> ttl - lag]
           i == Insert(d, row)
           t == TryPromote(i, c, lag)
           p == Publish(t, {c})
<1>1. DbInv(d) /\ d \in DbType /\ Allotted(d) /\ Evolves(db, d) /\ db \in DbType
  BY ExpirePass, ExpireEvolves, Zenon DEF DbInv, SafeDb
<1>2. d.last < MaxClaims /\ db' = p
  BY Zenon DEF ClaimAdmitted
<1> HIDE DEF d
<1>3. row \in Row /\ row.status = "waiting"
  <2>1. ttl \in Nat /\ ttl - lag \in Int
    BY TtlsAssumption, MaxLagAssumption DEF Lags
  <2> QED
    BY <2>1 DEF Row, Status, OpenStatus, NoFence
<1> HIDE DEF row
<1>4. Inserts(d, row, i)
  BY <1>1, <1>2, <1>3, InsertView DEF DbInv, SafeDb
<1> HIDE DEF i
<1>5. c \in Claims /\ i.rows[c] = row /\ d.last \in Nat /\ i \in DbType
      /\ \A b \in Claims : b # c => i.rows[b] = d.rows[b]
  BY <1>1, <1>4 DEF Inserts, DbType
<1>6. d.rows[c].status = "absent"
  BY <1>1, <1>5 DEF Allotted
<1>7. Evolves(d, i)
  <2>1. Moves(d, i)
    BY <1>5, <1>6, Zenon DEF Moves, RowMoves, ClosedStatus
  <2>2. InTurn(d, i)
    BY <1>3, <1>5 DEF InTurn
  <2> QED BY <2>1, <2>2 DEF Evolves
<1>8. Allotted(i)
  BY <1>1, <1>3, <1>4, <1>5 DEF Inserts, Allotted, Claims
<1>9. t \in DbType /\ Evolves(i, t)
  <2>1. CASE Blockers(i, c) = {}
    <3>1. t = Acquire(i, {c}, lag) /\ {c} \in SUBSET Claims
      BY <1>5, <2>1 DEF TryPromote
    <3>2. Acquires(i, {c}, t)
      BY <1>5, <3>1, AcquireView
    <3>3. {c} \in SUBSET Promotable(i)
      BY <1>3, <1>5, <2>1 DEF Promotable
    <3>4. t \in DbType
      BY <3>2, Zenon DEF Acquires
    <3> QED BY <1>5, <3>2, <3>3, <3>4, AcquireEvolves
  <2>2. CASE Blockers(i, c) # {}
    <3>1. t = i
      BY <2>2 DEF TryPromote
    <3> QED BY <1>5, <3>1, RowsAlone
  <2> QED BY <2>1, <2>2
<1> HIDE DEF t
<1>10. Publishes(t, {c}, p)
  BY <1>5, <1>9, PublishView
<1>11. p \in DbType /\ p.rows = t.rows
  BY <1>10, Zenon DEF Publishes
<1> HIDE DEF p
<1>12. Evolves(i, p)
  BY <1>9, <1>11, Zenon DEF Evolves, Moves, InTurn, Overlap
<1>13. Evolves(d, p)
  BY <1>1, <1>5, <1>7, <1>8, <1>11, <1>12, EvolvesOn
<1> QED BY <1>1, <1>2, <1>11, <1>13, EvolvesOn

\* poll moves the lease of a claim that waits.
LEMMA PollEvolves ==
  ASSUME DbInv(db), NEW c \in Claims, NEW lag \in Lags, Poll(c, lag)
  PROVE  Evolves(db, db')
<1> DEFINE d == Expire(db, lag)
           n == d.rows[c].ttl - lag
           r == [d.rows[c] EXCEPT !.left = n]
           l == [d EXCEPT !.rows = [d.rows EXCEPT ![c] = r]]
           t == TryPromote(l, c, lag)
<1>1. DbInv(d) /\ d \in DbType /\ Allotted(d) /\ Evolves(db, d) /\ db \in DbType
  BY ExpirePass, ExpireEvolves, Zenon DEF DbInv, SafeDb
<1>2. db' = IF d.rows[c].status = "waiting" THEN TryPromote([d EXCEPT !.rows[c].left = n], c, lag) ELSE d
  BY DEF Poll
<1> HIDE DEF d
<1>3. d.rows[c] \in Row /\ n \in Int
  BY <1>1, MaxLagAssumption DEF DbType, Row, Lags
<1> HIDE DEF n
<1>4. l = [d EXCEPT !.rows[c].left = n]
  BY <1>1, <1>3 DEF DbType, Row
<1>5. r \in Row /\ r.status = d.rows[c].status /\ r.agent = d.rows[c].agent
      /\ r.radius = d.rows[c].radius /\ r.fence = d.rows[c].fence
  BY <1>3 DEF Row
<1> HIDE DEF r
<1>6. l \in DbType /\ l.last = d.last /\ l.rows[c] = r
      /\ \A b \in Claims : b # c => l.rows[b] = d.rows[b]
  BY <1>1, <1>5 DEF DbType
<1>7. CASE d.rows[c].status # "waiting"
  BY <1>1, <1>2, <1>7
<1>8. CASE d.rows[c].status = "waiting"
  <2>1. db' = t
    BY <1>2, <1>4, <1>8
  <2> HIDE DEF l
  <2>2. Moves(d, l)
    BY <1>5, <1>6, <1>8, Zenon DEF Moves, RowMoves, ClosedStatus
  <2>3. InTurn(d, l)
    BY <1>5, <1>6 DEF InTurn
  <2>4. Allotted(l)
    BY <1>1, <1>5, <1>6 DEF Allotted
  <2>5. t \in DbType /\ Evolves(l, t)
    <3>1. CASE Blockers(l, c) = {}
      <4>1. t = Acquire(l, {c}, lag) /\ {c} \in SUBSET Claims
        BY <3>1 DEF TryPromote
      <4>2. Acquires(l, {c}, t)
        BY <1>6, <4>1, AcquireView
      <4>3. {c} \in SUBSET Promotable(l)
        BY <1>5, <1>6, <1>8, <3>1 DEF Promotable
      <4>4. t \in DbType
        BY <4>2, Zenon DEF Acquires
      <4> QED BY <1>6, <4>2, <4>3, <4>4, AcquireEvolves
    <3>2. CASE Blockers(l, c) # {}
      <4>1. t = l
        BY <3>2 DEF TryPromote
      <4> QED BY <1>6, <4>1, RowsAlone
    <3> QED BY <3>1, <3>2
  <2> HIDE DEF t
  <2>6. Evolves(d, t)
    BY <1>1, <1>6, <2>2, <2>3, <2>4, <2>5, EvolvesOn DEF Evolves
  <2> QED BY <1>1, <2>1, <2>5, <2>6, EvolvesOn
<1> QED BY <1>7, <1>8

\* What a holder can name: a claim whose fence it knows was held when the operation
\* began, and its lease was not over for any clock.
LEMMA HeldBefore ==
  ASSUME DbInv(db), NEW c \in Claims, NEW a, NEW f \in Fences, NEW lag \in Lags,
         Held(Expire(db, lag), c, a, f)
  PROVE  /\ Expire(db, lag).rows[c] = db.rows[c] /\ db.rows[c].status = "acquired"
         /\ ~(db.rows[c].left <= -MaxLag)
<1> DEFINE d == Expire(db, lag)
<1>1. /\ d.rows[c].status = "acquired" /\ d.rows[c].fence = f
  BY DEF Held
<1>2. f <= db.fence /\ db.rows[c].left \in Int
  BY DEF Fences, DbInv, SafeDb, DbType, Row
<1>3. d.rows[c] = db.rows[c] /\ ~(db.rows[c].left <= -lag)
  BY <1>1, <1>2, ExpireEvolves
<1>4. lag \in Int /\ lag <= MaxLag /\ MaxLag \in Int
  BY MaxLagAssumption DEF Lags
<1> HIDE DEF d
<1>5. ~(db.rows[c].left <= -MaxLag)
  BY <1>2, <1>3, <1>4
<1> QED BY <1>1, <1>3, <1>5 DEF d

\* renew moves the lease of a claim whose lease is not over.
LEMMA RenewEvolves ==
  ASSUME DbInv(db), NEW c \in Claims, NEW a \in Agents, NEW f \in Fences, NEW ttl \in Ttls, NEW lag \in Lags,
         Renew(c, a, f, ttl, lag)
  PROVE  Evolves(db, db')
<1> DEFINE d == Expire(db, lag)
           n == ttl - lag
           r == [d.rows[c] EXCEPT !.ttl = ttl, !.left = n]
           l == [d EXCEPT !.rows = [d.rows EXCEPT ![c] = r]]
           p == Publish(l, {c})
<1>1. d \in DbType /\ Evolves(db, d) /\ db \in DbType
  BY ExpireEvolves, Zenon DEF DbInv, SafeDb
<1>2. db' = Publish([d EXCEPT !.rows[c].ttl = ttl, !.rows[c].left = n], {c})
      /\ Held(d, c, a, f)
  BY DEF Renew
<1>3. d.rows[c] = db.rows[c] /\ db.rows[c].status = "acquired" /\ ~(db.rows[c].left <= -MaxLag)
  BY <1>2, HeldBefore, Zenon
<1> HIDE DEF d
<1>4. d.rows[c] \in Row /\ n \in Int /\ ttl \in Nat
  BY <1>1, MaxLagAssumption, TtlsAssumption DEF DbType, Lags
<1> HIDE DEF n
<1>5. l = [d EXCEPT !.rows[c].ttl = ttl, !.rows[c].left = n]
  BY <1>1, <1>4, Zenon DEF DbType, Row
<1>6. r \in Row /\ r.status = d.rows[c].status /\ r.agent = d.rows[c].agent
      /\ r.radius = d.rows[c].radius
  BY <1>4, Zenon DEF Row
<1> HIDE DEF r
<1>7. l \in DbType /\ l.rows[c] = r /\ \A b \in Claims : b # c => l.rows[b] = d.rows[b]
  BY <1>1, <1>6 DEF DbType
<1>8. db' = p
  BY <1>2, <1>5
<1> HIDE DEF l
<1>9. p.rows = l.rows
  BY <1>7, PublishView DEF Publishes
<1> HIDE DEF p
<1>10. Moves(db, p)
  <2>1. RowMoves(db.rows[c], p.rows[c])
    BY <1>3, <1>6, <1>7, <1>9, ZenonT(30) DEF RowMoves, ClosedStatus
  <2>2. \A b \in Claims : b # c => p.rows[b] = d.rows[b]
    BY <1>7, <1>9
  <2> QED BY <1>1, <2>1, <2>2 DEF Evolves, Moves
<1>11. InTurn(db, p)
  <2>1. \A b \in Claims : p.rows[b].radius = d.rows[b].radius /\ p.rows[b].status = d.rows[b].status
    BY <1>6, <1>7, <1>9
  <2>2. InTurn(db, d)
    BY <1>1 DEF Evolves
  <2> HIDE DEF InTurn
  <2> QED BY <2>1, <2>2 DEF InTurn, Overlap
<1> QED BY <1>8, <1>10, <1>11 DEF Evolves

LEMMA ReleaseEvolves ==
  ASSUME DbInv(db), NEW c \in Claims, NEW a \in Agents, NEW f, NEW lag \in Lags, Release(c, a, f, lag)
  PROVE  Evolves(db, db')
<1> DEFINE d == Expire(db, lag)
<1>1. DbInv(d) /\ d \in DbType /\ Allotted(d) /\ Evolves(db, d) /\ db \in DbType
  BY ExpirePass, ExpireEvolves, Zenon DEF DbInv, SafeDb
<1>2. /\ d.rows[c].status = "acquired"
      /\ db' = PromoteWaiters(Publish(Close(d, {c}, "released"), {c}), lag)
  BY DEF Release, Held
<1> HIDE DEF d
<1>3. {c} \in SUBSET Claims /\ (\A b \in {c} : IsOpen(d.rows[b])) /\ "released" \in ClosedStatus
  BY <1>2 DEF IsOpen, OpenStatus, ClosedStatus
<1>4. db' \in DbType /\ Evolves(d, db')
  BY <1>1, <1>2, <1>3, EndingEvolves, Zenon
<1> QED BY <1>1, <1>4, EvolvesOn

LEMMA CancelEvolves ==
  ASSUME DbInv(db), NEW c \in Claims, NEW a \in Agents, NEW lag \in Lags, Cancel(c, a, lag)
  PROVE  Evolves(db, db')
<1>1. /\ db \in DbType /\ Allotted(db) /\ {c} \in SUBSET Claims
      /\ \A b \in {c} : IsOpen(db.rows[b])
      /\ "cancelled" \in ClosedStatus
  BY DEF DbInv, SafeDb, IsOpen, OpenStatus, ClosedStatus, Cancel
<1> QED BY <1>1, EndingEvolves, ZenonT(30) DEF Cancel

\* handoff: the one operation in which a claim may become held out of turn, in the
\* place of the claim that was handed over.
LEMMA HandoffMoves ==
  ASSUME DbInv(db), NEW c \in Claims, NEW a \in Agents, NEW f \in Fences, NEW s \in Agents, NEW lag \in Lags,
         Handoff(c, a, f, s, lag)
  PROVE  /\ Moves(db, db')
         /\ db.rows[c].status = "acquired" /\ db'.rows[c].status = "handed_off"
         /\ \E n \in Claims :
              /\ db'.rows[n].radius = db.rows[c].radius
              /\ \A b, e \in Claims : /\ b < e /\ e # n
                                      /\ db.rows[e].status # "acquired" /\ db'.rows[e].status = "acquired"
                                      /\ db'.rows[b].status = "waiting"
                                      => ~Overlap(db', b, e)
<1> DEFINE d == Expire(db, lag)
           n == d.last + 1
           row == [agent |-> s, radius |-> d.rows[c].radius, status |-> "acquired",
                   fence |-> d.fence + 1, ttl |-> d.rows[c].ttl, left |-> d.rows[c].ttl - lag]
           k == Close(d, {c}, "handed_off")
           i == Insert(k, row)
           g == [i EXCEPT !.fence = d.fence + 1]
           p == Publish(g, {c, n})
<1>1. DbInv(d) /\ d \in DbType /\ Allotted(d) /\ Evolves(db, d) /\ db \in DbType
  BY ExpirePass, ExpireEvolves, Zenon DEF DbInv, SafeDb
<1>2. Held(d, c, a, f) /\ d.last < MaxClaims
  BY Zenon DEF Handoff
<1>3. d.rows[c] = db.rows[c] /\ db.rows[c].status = "acquired"
  BY <1>2, HeldBefore
<1>4. k.last = d.last
  BY <1>1 DEF Close, DbType
<1>5. db' = p
  BY <1>4, Zenon DEF Handoff
<1> HIDE DEF d
<1>6. row \in Row /\ row.status = "acquired" /\ row.radius = d.rows[c].radius
  <2>1. d.rows[c] \in Row /\ d.fence + 1 \in Nat
    BY <1>1 DEF DbType
  <2>2. d.rows[c].ttl - lag \in Int
    BY <2>1, MaxLagAssumption DEF Row, Lags
  <2> QED BY <2>1, <2>2, Zenon DEF Row, Status, OpenStatus
<1> HIDE DEF row
<1>7a. Closes(d, {c}, "handed_off", k)
  <2>1. {c} \in SUBSET Claims /\ "handed_off" \in ClosedStatus
    BY DEF ClosedStatus
  <2> QED BY <1>1, <2>1, CloseView, Zenon
<1> HIDE DEF k
<1>7. Closes(d, {c}, "handed_off", k) /\ k \in DbType
  BY <1>7a, ZenonT(30) DEF Closes
<1>8. Inserts(k, row, i)
  BY <1>2, <1>4, <1>6, <1>7, InsertView
<1> HIDE DEF i
<1>9. n \in Claims /\ i.rows[n] = row /\ i \in DbType /\ \A b \in Claims : b # n => i.rows[b] = k.rows[b]
  BY <1>4, <1>8 DEF Inserts
<1>10. g \in DbType /\ g.rows = i.rows
  BY <1>1, <1>9 DEF DbType
<1> HIDE DEF g
<1>11. p.rows = i.rows
  BY <1>9, <1>10, PublishView DEF Publishes
<1> HIDE DEF p
<1>12. d.rows[n].status = "absent" /\ n # c
  <2>1. d.last \in Nat
    BY <1>1 DEF DbType
  <2> QED BY <1>1, <1>2, <1>9, <2>1 DEF Allotted, Held
<1>13. /\ p.rows[c].status = "handed_off" /\ p.rows[n] = row
       /\ p.rows[c].agent = d.rows[c].agent /\ p.rows[c].radius = d.rows[c].radius
       /\ \A b \in Claims \ {c, n} : p.rows[b] = d.rows[b]
  BY <1>7, <1>9, <1>11, <1>12 DEF Closes
<1>14. db.rows[n].status = "absent"
  BY <1>1, <1>9, <1>12, ZenonT(30) DEF Evolves, Moves, RowMoves
<1>15. Moves(db, p)
  <2>1. RowMoves(db.rows[c], p.rows[c])
    BY <1>3, <1>13, Zenon DEF RowMoves, ClosedStatus
  <2>2. RowMoves(db.rows[n], p.rows[n])
    BY <1>14 DEF RowMoves, ClosedStatus
  <2> QED BY <1>1, <1>13, <2>1, <2>2 DEF Evolves, Moves
<1>16. ASSUME NEW b \in Claims, NEW e \in Claims, b < e, e # n, db.rows[e].status # "acquired",
              p.rows[e].status = "acquired", p.rows[b].status = "waiting"
       PROVE  ~Overlap(p, b, e)
  <2>1. e # c /\ b # c /\ b # n
    BY <1>6, <1>13, <1>16
  <2>2. p.rows[b] = d.rows[b] /\ p.rows[e] = d.rows[e]
    BY <1>13, <1>16, <2>1
  <2>3. ~Overlap(d, b, e)
    BY <1>1, <1>16, <2>2 DEF Evolves, InTurn
  <2> QED BY <2>2, <2>3 DEF Overlap
<1> HIDE DEF n
<1>17. p.rows[n].radius = db.rows[c].radius
  BY <1>3, <1>6, <1>13, Zenon
<1>18. \A b, e \in Claims : /\ b < e /\ e # n
                             /\ db.rows[e].status # "acquired" /\ p.rows[e].status = "acquired"
                             /\ p.rows[b].status = "waiting"
                             => ~Overlap(p, b, e)
  BY <1>16
<1>19. n \in Claims /\ p.rows[c].status = "handed_off"
  BY <1>9, <1>13, Zenon
<1> QED BY <1>3, <1>5, <1>15, <1>17, <1>18, <1>19, Zenon

LEMMA TickEvolves ==
  ASSUME DbInv(db), Tick
  PROVE  Evolves(db, db')
<1> DEFINE new(c) == IF IsOpen(db.rows[c]) /\ db.rows[c].left > -MaxLag
                     THEN [db.rows[c] EXCEPT !.left = @ - 1]
                     ELSE db.rows[c]
<1>1. db \in DbType /\ \A c \in Claims : db.rows[c] \in Row
  BY DEF DbInv, SafeDb, DbType
<1>2. \A c \in Claims : /\ new(c).status = db.rows[c].status
                        /\ new(c).agent = db.rows[c].agent
                        /\ new(c).radius = db.rows[c].radius
                        /\ db.rows[c].left <= -MaxLag => new(c).left = db.rows[c].left
  <2> SUFFICES ASSUME NEW c \in Claims
               PROVE  /\ new(c).status = db.rows[c].status
                      /\ new(c).agent = db.rows[c].agent
                      /\ new(c).radius = db.rows[c].radius
                      /\ db.rows[c].left <= -MaxLag => new(c).left = db.rows[c].left
    BY Zenon
  <2>1. db.rows[c] \in Row /\ db.rows[c].left \in Int /\ MaxLag \in Int
    BY <1>1, MaxLagAssumption DEF Row
  <2> QED
    BY <2>1 DEF Row
<1>3. db' = [db EXCEPT !.rows = [c \in Claims |-> new(c)]]
  BY DEF Tick
<1>4. \A c \in Claims : db'.rows[c] = new(c)
  BY <1>1, <1>3 DEF DbType
<1> HIDE DEF new
<1>5. Moves(db, db')
  BY <1>2, <1>4 DEF Moves, RowMoves
<1>6. InTurn(db, db')
  BY <1>2, <1>4 DEF InTurn
<1> QED BY <1>5, <1>6 DEF Evolves

\* Every operation moves rows as they may move, and promotes in turn or hands over.
LEMMA OperateMoves ==
  ASSUME DbInv(db), NEW a \in Agents, NEW lag \in Lags, Operate(a, lag)
  PROVE  \/ Evolves(db, db')
         \/ \E c \in Claims, f \in Fences, s \in Agents : Handoff(c, a, f, s, lag)
<1>1. CASE \E R \in Radii, ttl \in Ttls : Claim(a, R, ttl, lag)
  <2>1. PICK R \in Radii, ttl \in Ttls : ClaimRejected(a, R, lag) \/ ClaimAdmitted(a, R, ttl, lag)
    BY <1>1 DEF Claim
  <2>2. CASE ClaimRejected(a, R, lag)
    BY <2>2, ExpireEvolves DEF ClaimRejected
  <2> QED BY <2>1, <2>2, ClaimEvolves
<1> QED BY <1>1, PollEvolves, RenewEvolves, ReleaseEvolves, CancelEvolves DEF Operate

\* Arrival order (_try_promote, _promote_waiters): a claim that becomes held leaves no
\* earlier overlapping claim waiting, for any agents, radii, leases and lags; only handoff
\* puts a claim before the queue, in the place of one that was held.
THEOREM RegistryNoOvertaking == Spec => NoOvertaking
<1> DEFINE P == \A b, c \in Claims :
                  /\ b < c
                  /\ db.rows[c].status # "acquired" /\ db'.rows[c].status = "acquired"
                  /\ db'.rows[b].status = "waiting"
                  /\ Overlap(db', b, c)
                  => \E h \in Claims : /\ db.rows[h].status = "acquired"
                                       /\ db'.rows[h].status = "handed_off"
                                       /\ db.rows[h].radius = db'.rows[c].radius
<1>1. ASSUME Inv, [Next]_vars PROVE [P]_vars
  <2>1. DbInv(db)
    BY <1>1 DEF Inv
  <2>2. ASSUME InTurn(db, db') PROVE P
    BY <2>2 DEF InTurn
  <2>3. ASSUME NEW c \in Claims, NEW a \in Agents, NEW f \in Fences, NEW s \in Agents, NEW lag \in Lags,
               Handoff(c, a, f, s, lag)
        PROVE  P
    BY <2>1, <2>3, HandoffMoves
  <2>4. CASE Tick
    BY <2>1, <2>2, <2>4, TickEvolves DEF Evolves
  <2>5. ASSUME NEW a \in Agents, NEW lag \in Lags, Operate(a, lag) PROVE P
    BY <2>1, <2>2, <2>3, <2>5, OperateMoves, Zenon DEF Evolves
  <2> HIDE DEF P
  <2> QED BY <1>1, <2>4, <2>5 DEF Next
<1>2. [][P]_vars => NoOvertaking
  BY DEF NoOvertaking
<1> HIDE DEF P
<1> QED BY <1>1, <1>2, RegistryInvariant, PTL DEF Spec

----------------------------------------------------------------------------
(* Writers.                                                                *)

WriterInv ==
  /\ Inv
  /\ cleared \in [Agents -> Claims \cup {None}]
  /\ late \in [Claims -> {0, 1}]
  \* Who is cleared was a holder, and is the agent of that claim.
  /\ \A a \in Agents : cleared[a] # None =>
       /\ db.rows[cleared[a]].agent = a
       /\ db.rows[cleared[a]].status \notin {"absent", "waiting"}
  \* A claim under which a late write was made is over, and nobody is cleared for it.
  /\ \A c \in Claims : late[c] = 1 =>
       /\ Ended(c) /\ db.rows[c].status \notin {"absent", "waiting"}
       /\ \A a \in Agents : cleared[a] # c

\* An operation of the registry, between the check and the write of anybody.
LEMMA DbStepKeeps ==
  ASSUME WriterInv, Inv', Moves(db, db'), UNCHANGED <<cleared, late>>
  PROVE  WriterInv'
<1>1. db \in DbType /\ db' \in DbType
  BY Zenon DEF WriterInv, Inv, DbInv, SafeDb
<1>2. ASSUME NEW c \in Claims, db.rows[c].status \notin {"absent", "waiting"}
      PROVE  /\ db'.rows[c].status \notin {"absent", "waiting"}
             /\ db'.rows[c].agent = db.rows[c].agent
             /\ Ended(c) => Ended(c)'
  <2>1. RowMoves(db.rows[c], db'.rows[c]) /\ db.rows[c].status \in Status /\ db'.rows[c].status \in Status
    BY <1>1 DEF Moves, DbType, Row
  <2> QED BY <1>2, <2>1, Zenon DEF RowMoves, Ended, Status, OpenStatus, ClosedStatus
<1>3. ASSUME NEW a \in Agents, cleared'[a] # None
      PROVE  /\ db'.rows[cleared'[a]].agent = a
             /\ db'.rows[cleared'[a]].status \notin {"absent", "waiting"}
  <2>1. PICK c \in Claims : c = cleared[a]
    BY <1>3 DEF WriterInv
  <2> QED BY <1>2, <1>3, <2>1, Zenon DEF WriterInv
<1>4. ASSUME NEW c \in Claims, late'[c] = 1
      PROVE  /\ Ended(c)' /\ db'.rows[c].status \notin {"absent", "waiting"}
             /\ \A a \in Agents : cleared'[a] # c
  BY <1>2, <1>4, ZenonT(30) DEF WriterInv
<1> QED BY <1>3, <1>4, Zenon DEF WriterInv

LEMMA AssertFenceKeeps ==
  ASSUME WriterInv, NEW a \in Agents, NEW c \in Claims, NEW f, NEW lag \in Lags, AssertFence(a, c, f, lag)
  PROVE  WriterInv'
<1>1. /\ cleared' = [cleared EXCEPT ![a] = c] /\ db' = db /\ late' = late
      /\ db.rows[c].status = "acquired" /\ db.rows[c].agent = a /\ db.rows[c].left > -lag
  BY DEF AssertFence, FenceHolds, Held
<1>2. ~Ended(c)
  <2>1. db.rows[c].left \in Int /\ lag \in Int /\ MaxLag \in Int /\ lag <= MaxLag
    BY MaxLagAssumption DEF WriterInv, Inv, DbInv, SafeDb, DbType, Row, Lags
  <2> QED BY <1>1, <2>1 DEF Ended
<1>3. late[c] # 1
  BY <1>2 DEF WriterInv
<1>4. \A e \in Claims : Ended(e)' <=> Ended(e)
  BY <1>1 DEF Ended
<1>5. Inv' /\ cleared' \in [Agents -> Claims \cup {None}]
  BY <1>1, Zenon DEF WriterInv, Inv
<1> QED BY <1>1, <1>3, <1>4, <1>5 DEF WriterInv

LEMMA WriteKeeps ==
  ASSUME WriterInv, NEW a \in Agents, Write(a)
  PROVE  WriterInv'
<1>1. PICK c \in Claims : c = cleared[a]
  BY DEF WriterInv, Write
<1>2. /\ cleared' = [cleared EXCEPT ![a] = None] /\ db' = db /\ c # None
      /\ late' = [late EXCEPT ![c] = IF Ended(c) THEN @ + 1 ELSE @]
  BY <1>1 DEF Write
<1>3. late[c] = 0
  BY <1>1 DEF WriterInv
<1>4. /\ late' \in [Claims -> {0, 1}] /\ (late'[c] = 1 => Ended(c))
      /\ \A e \in Claims \ {c} : late'[e] = late[e]
  BY <1>2, <1>3 DEF WriterInv
<1>5. /\ cleared' \in [Agents -> Claims \cup {None}] /\ cleared'[a] = None
      /\ \A b \in Agents \ {a} : cleared'[b] = cleared[b]
  BY <1>2 DEF WriterInv
<1>6. \A b \in Agents \ {a} : cleared[b] # c
  BY <1>1, <1>2 DEF WriterInv
<1>7. \A e \in Claims : Ended(e)' <=> Ended(e)
  BY <1>2 DEF Ended
<1>8. db.rows[c].status \notin {"absent", "waiting"} /\ None \notin Claims
  BY <1>1, <1>2 DEF WriterInv, None, Claims
<1>9. Inv'
  BY <1>2, Zenon DEF WriterInv, Inv
<1>10. ASSUME NEW e \in Claims, late'[e] = 1
       PROVE  /\ Ended(e)' /\ db'.rows[e].status \notin {"absent", "waiting"}
              /\ \A b \in Agents : cleared'[b] # e
  <2>1. CASE e = c
    BY <1>2, <1>4, <1>5, <1>6, <1>7, <1>8, <1>10, <2>1, Zenon
  <2>2. CASE e # c
    <3>1. late[e] = 1
      BY <1>4, <1>10, <2>2
    <3> QED BY <1>2, <1>5, <1>7, <1>8, <3>1 DEF WriterInv
  <2> QED BY <2>1, <2>2
<1>11. \A b \in Agents : cleared'[b] # None =>
         /\ db'.rows[cleared'[b]].agent = b
         /\ db'.rows[cleared'[b]].status \notin {"absent", "waiting"}
  BY <1>2, <1>5 DEF WriterInv
<1> QED BY <1>4, <1>5, <1>9, <1>10, <1>11, Zenon DEF WriterInv

\* However checks, writes and operations of other agents interleave, an agent whose
\* claim ended gets at most one more write done under it (assert_fence).
THEOREM WritersOneLateWrite == WriterSpec => []OneLateWrite
<1>1. WriterInit => WriterInv
  <2> SUFFICES ASSUME WriterInit PROVE WriterInv
    OBVIOUS
  <2>1. Inv /\ cleared = [a \in Agents |-> None] /\ late = [c \in Claims |-> 0]
    BY InitInv DEF WriterInit, Inv
  <2> QED BY <2>1 DEF WriterInv
<1>2. ASSUME WriterInv, [WriterNext]_writerVars PROVE WriterInv'
  <2>1. DbInv(db)
    BY <1>2 DEF WriterInv, Inv
  <2>2. CASE Tick /\ UNCHANGED <<cleared, late>>
    <3>1. Inv' /\ Moves(db, db')
      BY <2>1, <2>2, TickInv, TickEvolves DEF Inv, Evolves
    <3> QED BY <1>2, <2>2, <3>1, DbStepKeeps
  <2>3. ASSUME NEW a \in Agents, NEW lag \in Lags, Operate(a, lag), UNCHANGED <<cleared, late>>
        PROVE  WriterInv'
    <3>1. Inv'
      <4>1. [Next]_vars
        BY <2>3 DEF Next
      <4> QED BY <2>1, <4>1, NextInv DEF Inv
    <3>2. Moves(db, db')
      BY <2>1, <2>3, OperateMoves, HandoffMoves, Zenon DEF Evolves
    <3> QED BY <1>2, <2>3, <3>1, <3>2, DbStepKeeps
  <2>4. CASE UNCHANGED writerVars
    <3>1. db' = db /\ cleared' = cleared /\ late' = late
      BY <2>4 DEF writerVars
    <3> QED BY <1>2, <3>1, Zenon DEF WriterInv, Inv, Ended
  <2> QED BY <1>2, <2>2, <2>3, <2>4, AssertFenceKeeps, WriteKeeps DEF WriterNext
<1>3. WriterInv => OneLateWrite
  BY DEF WriterInv, OneLateWrite
<1> QED BY <1>1, <1>2, <1>3, PTL DEF WriterSpec

----------------------------------------------------------------------------
(* The places of a radius.                                                 *)

\* A place, written as the segments of its path, lies in a resource: it is the
\* resource itself or somewhere below it.
LiesIn(place, value) ==
  /\ Len(value) <= Len(place)
  /\ \A k \in 1..Len(value) : place[k] = value[k]

Places == Seq(Segments \cup {NoName})

\* What _contains compares: a value and the first segments of another one.
LEMMA FirstSegments ==
  ASSUME NEW V, NEW v \in Seq(V), NEW w \in Seq(V), Len(v) <= Len(w)
  PROVE  SubSeq(w, 1, Len(v)) = v <=> \A k \in 1..Len(v) : w[k] = v[k]
<1> DEFINE s == SubSeq(w, 1, Len(v))
<1>1. Len(v) \in Nat /\ Len(w) \in Nat /\ \A k \in 1..Len(v) : w[k] \in V
  OBVIOUS
<1>2. s \in Seq(V) /\ Len(s) = Len(v) /\ \A k \in 1..Len(v) : s[k] = w[k]
  BY <1>1
<1> HIDE DEF s
<1>3. (\A k \in 1..Len(v) : s[k] = v[k]) => s = v
  BY <1>2
<1>4. s = v <=> \A k \in 1..Len(v) : w[k] = v[k]
  BY <1>2, <1>3
<1> QED BY <1>4 DEF s

\* _contains: a longer value that lies in the other.
LEMMA ContainsMeans ==
  ASSUME NEW V, NEW v \in Seq(V), NEW w \in Seq(V)
  PROVE  Contains(v, w) <=> Len(v) < Len(w) /\ LiesIn(w, v)
<1>1. Len(v) \in Nat /\ Len(w) \in Nat
  OBVIOUS
<1>2. CASE Len(v) < Len(w)
  <2>1. Len(v) <= Len(w)
    BY <1>1, <1>2
  <2> QED BY <1>2, <2>1, FirstSegments, Zenon DEF Contains, LiesIn
<1>3. CASE ~(Len(v) < Len(w))
  BY <1>3, Zenon DEF Contains
<1> QED BY <1>2, <1>3

\* resources_overlap compares two normalized resources by a prefix of their segments;
\* it answers exactly whether some place lies in both.
THEOREM OverlapIsPlace ==
  ASSUME NEW V, NEW l, NEW r, l.value \in Seq(V), r.value \in Seq(V)
  PROVE  ResourcesOverlap(l, r)
           <=> l.kind = r.kind /\ \E place \in Seq(V) : LiesIn(place, l.value) /\ LiesIn(place, r.value)
<1>1. PICK v \in Seq(V) : v = l.value
  OBVIOUS
<1>2. PICK w \in Seq(V) : w = r.value
  OBVIOUS
<1>3. Len(v) \in Nat /\ Len(w) \in Nat /\ LiesIn(v, v) /\ LiesIn(w, w)
  BY DEF LiesIn
<1>4. Contains(v, w) => LiesIn(w, v)
  BY ContainsMeans, Zenon
<1>5. Contains(w, v) => LiesIn(v, w)
  BY ContainsMeans, Zenon
<1>6. ASSUME NEW place \in Seq(V), LiesIn(place, v), LiesIn(place, w)
      PROVE  v = w \/ Contains(v, w) \/ Contains(w, v)
  <2>1. \A k \in 1..Len(v) : place[k] = v[k]
    BY <1>6 DEF LiesIn
  <2>2. \A k \in 1..Len(w) : place[k] = w[k]
    BY <1>6 DEF LiesIn
  <2>3. CASE Len(v) = Len(w)
    <3>1. \A k \in 1..Len(v) : v[k] = w[k]
      BY <2>1, <2>2, <2>3, Zenon
    <3>2. v = w
      BY <2>3, <3>1
    <3> QED BY <3>2
  <2>4. CASE Len(v) < Len(w)
    <3>1. LiesIn(w, v)
      BY <1>3, <2>1, <2>2, <2>4 DEF LiesIn
    <3> QED BY <2>4, <3>1, ContainsMeans, Zenon
  <2>5. CASE Len(w) < Len(v)
    <3>1. LiesIn(v, w)
      BY <1>3, <2>1, <2>2, <2>5 DEF LiesIn
    <3> QED BY <2>5, <3>1, ContainsMeans, Zenon
  <2> QED BY <1>3, <2>3, <2>4, <2>5
<1>7. (v = w \/ Contains(v, w) \/ Contains(w, v))
        <=> \E place \in Seq(V) : LiesIn(place, v) /\ LiesIn(place, w)
  BY <1>3, <1>4, <1>5, <1>6, Zenon
<1> QED BY <1>1, <1>2, <1>7, Zenon DEF ResourcesOverlap

\* No place lies in the radii of two claims that are held at the same time.
PlacesApart ==
  \A b, c \in Claims :
    (b # c /\ db.rows[b].status = "acquired" /\ db.rows[c].status = "acquired")
      => ~\E place \in Places, r \in db.rows[b].radius, s \in db.rows[c].radius :
            r.kind = s.kind /\ LiesIn(place, r.value) /\ LiesIn(place, s.value)

\* What exclusion is for: two claims held at the same time (claim, poll, handoff and the
\* promotions behind them) share no file, directory or service, at any depth below the
\* resources they name.
THEOREM RegistryPlacesApart == Spec => []PlacesApart
<1>1. TypeOK /\ ExclusiveInv => PlacesApart
  <2> SUFFICES ASSUME TypeOK, ExclusiveInv,
                      NEW b \in Claims, NEW c \in Claims, b # c,
                      db.rows[b].status = "acquired", db.rows[c].status = "acquired",
                      NEW place \in Places, NEW r \in db.rows[b].radius, NEW s \in db.rows[c].radius,
                      r.kind = s.kind, LiesIn(place, r.value), LiesIn(place, s.value)
               PROVE  FALSE
    BY DEF PlacesApart
  <2>1. db.rows[b] \in Row /\ db.rows[c] \in Row
    BY Zenon DEF TypeOK, DbType
  <2>2. r.value \in Places /\ s.value \in Places
    BY <2>1, RadiiAssumption, Zenon DEF Row, Places
  <2>3. ResourcesOverlap(r, s)
    BY <2>2, OverlapIsPlace, Zenon DEF Places
  <2>4. SetsOverlap(db.rows[b].radius, db.rows[c].radius)
    BY <2>3, Zenon DEF SetsOverlap
  <2> QED
    BY <2>4, Zenon DEF ExclusiveInv, Exclusive, Overlap
<1> QED
  BY <1>1, RegistryTypes, RegistryExclusive, PTL


----------------------------------------------------------------------------
(* The loop of _promote_waiters, turn by turn.                             *)

\* A set of numbers that is not empty has a least member.
LEMMA LeastClaim ==
  ASSUME NEW T, T \subseteq Nat, T # {}
  PROVE  \E n \in T : \A m \in T : n <= m
<1> DEFINE R == OpToRel(<, Nat)
<1>1. IsWellFoundedOn(R, Nat)
  BY NatLessThanWellFounded, Zenon
<1>2. \E x \in T : \A y \in T : ~(<<y, x>> \in R)
  <2> HIDE DEF R
  <2> QED BY <1>1, WFMin, Zenon
<1>3. \A x, y \in Nat : <<y, x>> \in R <=> y < x
  BY DEF OpToRel
<1> HIDE DEF R
<1>4. PICK x \in T : \A y \in T : ~(<<y, x>> \in R)
  BY <1>2
<1>5. ASSUME NEW m \in T PROVE x <= m
  <2>1. x \in Nat /\ m \in Nat /\ ~(m < x)
    BY <1>3, <1>4, Zenon
  <2> QED BY <2>1
<1> QED BY <1>5

\* The turn of claim c.
Turn(d, e, c, lag) ==
  IF d.rows[c].status = "waiting" /\ Blockers(e, c) = {}
  THEN Publish(TryPromote(e, c, lag), {c})
  ELSE e

\* The loop does what its definition says: one turn after the other.
LEMMA LoopTurns ==
  ASSUME NEW d, NEW lag
  PROVE  /\ PromotionLoop(d, lag)[0] = d
         /\ \A n \in Claims : PromotionLoop(d, lag)[n] = Turn(d, PromotionLoop(d, lag)[n - 1], n, lag)
<1> DEFINE T(e, c) == Turn(d, e, c, lag)
           Runs(f, k) == f = [n \in 0..k |-> IF n = 0 THEN d ELSE T(f[n - 1], n)]
           Bad == {k \in Nat : ~\E f : Runs(f, k)}
           loop == PromotionLoop(d, lag)
<1>0. (\E f : Runs(f, MaxClaims)) => Runs(loop, MaxClaims)
  BY Zenon DEF PromotionLoop, Turn
<1> HIDE DEF T, loop
<1>1. ASSUME NEW k \in Nat, k > 0 => \E f : Runs(f, k - 1) PROVE \E f : Runs(f, k)
  <2>1. CASE k = 0
    <3> DEFINE f == [n \in 0..0 |-> d]
    <3>1. f = [n \in 0..0 |-> IF n = 0 THEN d ELSE T(f[n - 1], n)]
      OBVIOUS
    <3> QED BY <2>1, <3>1, Zenon
  <2>2. CASE k > 0
    <3>1. PICK g : Runs(g, k - 1)
      BY <1>1, <2>2
    <3> DEFINE f == [n \in 0..k |-> IF n = k THEN T(g[k - 1], k) ELSE g[n]]
    <3>2. ASSUME NEW n \in 0..k PROVE f[n] = IF n = 0 THEN d ELSE T(f[n - 1], n)
      <4>1. CASE n = k
        BY <2>2, <4>1
      <4>2. CASE n # k
        <5>1. n \in 0..(k - 1) /\ f[n] = g[n]
          BY <4>2
        <5>2. n # 0 => f[n - 1] = g[n - 1]
          BY <5>1
        <5> QED BY <3>1, <5>1, <5>2
      <4> QED BY <4>1, <4>2
    <3>3. Runs(f, k)
      BY <3>2
    <3> QED BY <3>3, Zenon
  <2> QED BY <2>1, <2>2
<1> HIDE DEF Runs
<1>2. Bad = {}
  <2> SUFFICES ASSUME Bad # {} PROVE FALSE
    BY Zenon
  <2>1. PICK k \in Bad : \A m \in Bad : k <= m
    BY LeastClaim, Zenon
  <2>2. k > 0 => \E f : Runs(f, k - 1)
    BY <2>1
  <2> QED BY <1>1, <2>1, <2>2
<1>3. Runs(loop, MaxClaims)
  BY <1>0, <1>2, MaxClaimsAssumption
<1>4. \A n \in 0..MaxClaims : loop[n] = IF n = 0 THEN d ELSE T(loop[n - 1], n)
  BY <1>3, Zenon DEF Runs
<1>5. loop[0] = d /\ \A n \in Claims : loop[n] = T(loop[n - 1], n)
  BY <1>4, MaxClaimsAssumption DEF Claims
<1> QED BY <1>5, Zenon DEF loop, T


\* What promoting the claims of S leaves of the database.
Promoted(d, S, lag, c) ==
  [d.rows[c] EXCEPT !.status = "acquired",
                    !.fence  = d.fence + Cardinality({b \in S : b <= c}),
                    !.left   = d.rows[c].ttl - lag]

Promotes(d, S, lag, e) ==
  /\ e \in DbType
  /\ e.last = d.last /\ e.fence = d.fence + Cardinality(S)
  /\ \A c \in Claims : e.rows[c] = IF c \in S THEN Promoted(d, S, lag, c) ELSE d.rows[c]
  /\ \A c \in Claims : e.seen[c] = IF c \in S THEN [status |-> e.rows[c].status, fence |-> e.rows[c].fence]
                                              ELSE d.seen[c]

\* Acquiring and logging all claims of S at once, as Promotes describes it.
LEMMA PromotesIs ==
  ASSUME NEW d \in DbType, NEW S \in SUBSET Claims, NEW lag \in Lags
  PROVE  Promotes(d, S, lag, Publish(Acquire(d, S, lag), S))
<1>1. PICK a : a = Acquire(d, S, lag)
  BY Zenon
<1>2. PICK e : e = Publish(a, S)
  BY Zenon
<1>3. Acquires(d, S, a) /\ a \in DbType
  BY <1>1, AcquireView, Zenon DEF Acquires
<1>4. Publishes(a, S, e)
  BY <1>2, <1>3, PublishView, Zenon
<1>5. a.rows = [c \in Claims |-> IF c \in S THEN Promoted(d, S, lag, c) ELSE d.rows[c]]
  BY <1>1, Zenon DEF Acquire, DbType, Promoted
<1>6. a.fence = d.fence + Cardinality(S) /\ a.last = d.last /\ a.seen = d.seen
  BY <1>1, Zenon DEF Acquire, DbType
<1>7. \A c \in Claims : a.rows[c] = IF c \in S THEN Promoted(d, S, lag, c) ELSE d.rows[c]
  BY <1>5, Zenon
<1>8. Promotes(d, S, lag, e)
  <2>1. e \in DbType /\ e.last = d.last /\ e.fence = d.fence + Cardinality(S) /\ e.rows = a.rows
    BY <1>4, <1>6, Zenon DEF Publishes
  <2>2. \A c \in Claims : e.seen[c] = IF c \in S THEN [status |-> a.rows[c].status, fence |-> a.rows[c].fence]
                                                 ELSE d.seen[c]
    BY <1>4, <1>6, Zenon DEF Publishes
  <2> QED BY <1>7, <2>1, <2>2, Zenon DEF Promotes
<1> QED BY <1>1, <1>2, <1>8, Zenon

\* Two databases with the same fields are the same.
LEMMA SameDb ==
  ASSUME NEW e \in DbType, NEW f \in DbType, e.last = f.last, e.fence = f.fence,
         \A c \in Claims : e.rows[c] = f.rows[c] /\ e.seen[c] = f.seen[c]
  PROVE  e = f
<1>1. e.rows = f.rows /\ e.seen = f.seen
  BY DEF DbType
<1> QED BY <1>1 DEF DbType

\* Promoting one more claim, later than those of B, is promoting them together.
LEMMA PromotesMore ==
  ASSUME NEW d \in DbType, NEW lag, NEW B \in SUBSET Claims, NEW n \in Claims, \A b \in B : b < n,
         NEW e, Promotes(d, B, lag, e), NEW f, Promotes(e, {n}, lag, f)
  PROVE  Promotes(d, B \cup {n}, lag, f)
<1> DEFINE U == B \cup {n}
           upTo(S, c) == {b \in S : b <= c}
<1>1. IsFiniteSet(B) /\ Cardinality(B) \in Nat /\ n \notin B /\ n \in Nat /\ B \subseteq Nat
  <2>1. IsFiniteSet(1..MaxClaims)
    BY FS_Interval, MaxClaimsAssumption
  <2>2. IsFiniteSet(B)
    BY <2>1, FS_Subset, Zenon DEF Claims
  <2>3. n \notin B /\ n \in Nat /\ B \subseteq Nat
    BY DEF Claims
  <2> QED BY <2>2, <2>3, FS_CardinalityType
<1>2. Cardinality(U) = Cardinality(B) + 1
  BY <1>1, FS_AddElement, Zenon
<1>3. Cardinality({n}) = 1 /\ upTo({n}, n) = {n} /\ upTo(U, n) = U
  <2>1. Cardinality({n}) = 1
    BY FS_Singleton, Zenon
  <2>2. upTo({n}, n) = {n} /\ \A b \in U : b <= n
    BY <1>1
  <2>3. upTo(U, n) = U
    BY <2>2, Zenon
  <2> QED BY <2>1, <2>2, <2>3, Zenon
<1>4. \A c \in B : upTo(U, c) = upTo(B, c)
  BY <1>1
<1>5. d.fence \in Nat
  BY DEF DbType
<1>6. f.fence = d.fence + Cardinality(U) /\ e.fence + Cardinality(upTo({n}, n)) = d.fence + Cardinality(upTo(U, n))
  <2>1. f.fence = e.fence + Cardinality({n}) /\ e.fence = d.fence + Cardinality(B)
    BY Zenon DEF Promotes
  <2>2. e.fence + Cardinality({n}) = d.fence + Cardinality(U)
    <3> HIDE DEF U, upTo
    <3> QED BY <1>1, <1>2, <1>3, <1>5, <2>1
  <2> QED BY <1>3, <2>1, <2>2, Zenon
<1> HIDE DEF U
<1>7. Promoted(e, {n}, lag, n) = Promoted(d, U, lag, n)
  <2>1. e.rows[n] = d.rows[n]
    BY <1>1, Zenon DEF Promotes
  <2> QED BY <1>6, <2>1, Zenon DEF Promoted
<1>8. \A c \in B : Promoted(d, B, lag, c) = Promoted(d, U, lag, c)
  BY <1>4, Zenon DEF Promoted
<1>9. \A c \in Claims : c \in U <=> c = n \/ c \in B
  BY DEF U
<1>10. \A c \in Claims : f.rows[c] = IF c \in U THEN Promoted(d, U, lag, c) ELSE d.rows[c]
  <2> SUFFICES ASSUME NEW c \in Claims
               PROVE  f.rows[c] = IF c \in U THEN Promoted(d, U, lag, c) ELSE d.rows[c]
    BY Zenon
  <2>1. CASE c = n
    BY <1>7, <1>9, <2>1, Zenon DEF Promotes
  <2>2. CASE c # n
    <3>1. f.rows[c] = e.rows[c]
      BY <2>2, Zenon DEF Promotes
    <3>2. e.rows[c] = IF c \in B THEN Promoted(d, B, lag, c) ELSE d.rows[c]
      BY Zenon DEF Promotes
    <3> QED BY <1>8, <1>9, <2>2, <3>1, <3>2, Zenon
  <2> QED BY <2>1, <2>2
<1>11. \A c \in Claims : f.seen[c] = IF c \in U THEN [status |-> f.rows[c].status, fence |-> f.rows[c].fence]
                                                ELSE d.seen[c]
  <2> SUFFICES ASSUME NEW c \in Claims
               PROVE  f.seen[c] = IF c \in U THEN [status |-> f.rows[c].status, fence |-> f.rows[c].fence]
                                             ELSE d.seen[c]
    BY Zenon
  <2>1. CASE c = n
    BY <1>9, <2>1, Zenon DEF Promotes
  <2>2. CASE c # n
    <3>1. f.rows[c] = e.rows[c] /\ f.seen[c] = e.seen[c]
      BY <2>2, Zenon DEF Promotes
    <3>2. e.seen[c] = IF c \in B THEN [status |-> e.rows[c].status, fence |-> e.rows[c].fence] ELSE d.seen[c]
      BY Zenon DEF Promotes
    <3> QED BY <1>9, <2>2, <3>1, <3>2, Zenon
  <2> QED BY <2>1, <2>2
<1>12. f \in DbType /\ f.last = d.last
  BY Zenon DEF Promotes
<1>13. Promotes(d, U, lag, f)
  BY <1>6, <1>10, <1>11, <1>12, Zenon DEF Promotes
<1> QED BY <1>13, Zenon DEF U

\* A waiter promoted earlier in the loop stands in the way of a later one after its
\* promotion as it did before.
LEMMA TurnPromotes ==
  ASSUME NEW d \in DbType, NEW lag \in Lags, NEW n \in Claims, NEW e,
         Promotes(d, {c \in Promotable(d) : c < n}, lag, e)
  PROVE  Promotes(d, {c \in Promotable(d) : c <= n}, lag, Turn(d, e, n, lag))
<1> DEFINE B == {c \in Promotable(d) : c < n}
           U == {c \in Promotable(d) : c <= n}
<1>1. /\ B \in SUBSET Claims /\ n \notin B
      /\ \A b \in B : b < n /\ d.rows[b].status = "waiting"
  BY DEF Promotable, Claims
<1>2. U = IF n \in Promotable(d) THEN B \cup {n} ELSE B
  BY DEF Promotable, Claims
<1> HIDE DEF B, U
<1>3. Promotes(d, B, lag, e)
  BY Zenon DEF B
<1>4. /\ e.rows[n] = d.rows[n]
      /\ \A b \in Claims : e.rows[b] = IF b \in B THEN Promoted(d, B, lag, b) ELSE d.rows[b]
  BY <1>1, <1>3, Zenon DEF Promotes
<1>5. \A b \in Claims : d.rows[b] \in Row
  BY DEF DbType
<1>6. \A b \in B : e.rows[b].status = "acquired" /\ e.rows[b].radius = d.rows[b].radius
  <2> SUFFICES ASSUME NEW b \in B PROVE e.rows[b].status = "acquired" /\ e.rows[b].radius = d.rows[b].radius
    BY Zenon
  <2>1. b \in Claims /\ e.rows[b] = Promoted(d, B, lag, b) /\ d.rows[b] \in Row
    BY <1>1, <1>4, <1>5, Zenon
  <2> QED BY <2>1, Zenon DEF Promoted, Row
<1>7. ASSUME NEW b \in Claims
      PROVE  (IsOpen(e.rows[b]) /\ (e.rows[b].status = "acquired" \/ b < n) /\ Overlap(e, b, n))
               <=> (IsOpen(d.rows[b]) /\ (d.rows[b].status = "acquired" \/ b < n) /\ Overlap(d, b, n))
  <2>1. CASE b \in B
    <3>1. Overlap(e, b, n) <=> Overlap(d, b, n)
      BY <1>4, <1>6, <2>1, Zenon DEF Overlap
    <3> QED BY <1>1, <1>6, <2>1, <3>1, Zenon DEF IsOpen, OpenStatus
  <2>2. CASE b \notin B
    <3>1. e.rows[b] = d.rows[b]
      BY <1>4, <2>2, Zenon
    <3> QED BY <1>4, <3>1, Zenon DEF Overlap
  <2> QED BY <2>1, <2>2
<1>8. Blockers(e, n) = Blockers(d, n)
  BY <1>7, Zenon DEF Blockers
<1>9. CASE n \in Promotable(d)
  <2>1. d.rows[n].status = "waiting" /\ Blockers(e, n) = {}
    BY <1>8, <1>9, Zenon DEF Promotable
  <2>2. PICK f : f = Publish(Acquire(e, {n}, lag), {n})
    BY Zenon
  <2>3. Turn(d, e, n, lag) = f
    BY <2>1, <2>2, Zenon DEF Turn, TryPromote
  <2>4. e \in DbType /\ {n} \in SUBSET Claims
    BY <1>3, Zenon DEF Promotes
  <2>5. Promotes(e, {n}, lag, f)
    BY <2>2, <2>4, PromotesIs, Zenon
  <2>6. Promotes(d, B \cup {n}, lag, f)
    BY <1>1, <1>3, <2>5, PromotesMore, Zenon
  <2> QED BY <1>2, <1>9, <2>3, <2>6, Zenon DEF U
<1>10. CASE n \notin Promotable(d)
  <2>1. ~(d.rows[n].status = "waiting" /\ Blockers(e, n) = {})
    BY <1>8, <1>10, Zenon DEF Promotable
  <2>2. Turn(d, e, n, lag) = e
    BY <2>1, Zenon DEF Turn
  <2> QED BY <1>2, <1>3, <1>10, <2>2, Zenon DEF U
<1> QED BY <1>9, <1>10

\* The loop of _promote_waiters ends where promoting all unblocked waiters at once does.
LEMMA LoopPromotes ==
  ASSUME NEW d \in DbType, NEW lag \in Lags
  PROVE  PromotionLoop(d, lag)[MaxClaims] = PromoteWaiters(d, lag)
<1> DEFINE loop == PromotionLoop(d, lag)
           S(n) == {c \in Promotable(d) : c <= n}
           Bad == {n \in 0..MaxClaims : ~Promotes(d, S(n), lag, loop[n])}
<1>1. loop[0] = d /\ \A n \in Claims : loop[n] = Turn(d, loop[n - 1], n, lag)
  BY LoopTurns, Zenon
<1> HIDE DEF loop
<1>2. Promotes(d, S(0), lag, loop[0])
  <2>1. S(0) = {} /\ Cardinality({}) = 0
    BY FS_EmptySet DEF Promotable, Claims
  <2>2. d.fence = d.fence + Cardinality({})
    BY <2>1 DEF DbType
  <2> HIDE DEF S
  <2> QED BY <1>1, <2>1, <2>2, Zenon DEF Promotes
<1>3. ASSUME NEW n \in Claims, Promotes(d, S(n - 1), lag, loop[n - 1])
      PROVE  Promotes(d, S(n), lag, loop[n])
  <2>1. S(n - 1) = {c \in Promotable(d) : c < n}
    BY DEF Promotable, Claims
  <2>2. Promotes(d, {c \in Promotable(d) : c < n}, lag, loop[n - 1])
    BY <1>3, <2>1, Zenon
  <2> QED BY <1>1, <1>3, <2>2, TurnPromotes, Zenon
<1> HIDE DEF S
<1>4. Bad = {}
  <2> SUFFICES ASSUME Bad # {} PROVE FALSE
    BY Zenon
  <2>1. PICK k \in Bad : \A m \in Bad : k <= m
    <3>1. Bad \subseteq Nat
      BY MaxClaimsAssumption
    <3> QED BY <3>1, LeastClaim, Zenon
  <2>2. k # 0
    BY <1>2, <2>1
  <2>3. k \in Claims /\ k - 1 \in 0..MaxClaims /\ k - 1 \notin Bad
    BY <2>1, <2>2, MaxClaimsAssumption DEF Claims
  <2> QED BY <1>3, <2>1, <2>3
<1>5. Promotes(d, S(MaxClaims), lag, loop[MaxClaims])
  BY <1>4, MaxClaimsAssumption
<1>6. S(MaxClaims) = Promotable(d) /\ Promotable(d) \in SUBSET Claims
  BY MaxClaimsAssumption DEF S, Promotable, Claims
<1>7. PICK e : e = PromoteWaiters(d, lag)
  BY Zenon
<1>8. Promotes(d, Promotable(d), lag, e)
  BY <1>6, <1>7, PromotesIs, Zenon DEF PromoteWaiters
<1>9. Promotes(d, Promotable(d), lag, loop[MaxClaims])
  BY <1>5, <1>6, Zenon
<1>10. \A c \in Claims : loop[MaxClaims].rows[c] = e.rows[c]
  BY <1>8, <1>9, Zenon DEF Promotes
<1>11. \A c \in Claims : loop[MaxClaims].seen[c] = e.seen[c]
  BY <1>8, <1>9, <1>10, Zenon DEF Promotes
<1>12. /\ loop[MaxClaims] \in DbType /\ e \in DbType
       /\ loop[MaxClaims].last = e.last /\ loop[MaxClaims].fence = e.fence
  BY <1>8, <1>9, Zenon DEF Promotes
<1>13. loop[MaxClaims] = e
  BY <1>10, <1>11, <1>12, SameDb, Zenon
<1> QED BY <1>7, <1>13, Zenon DEF loop

\* Whatever a transaction closed, the loop of _promote_waiters over the rows it read
\* first, one waiter judged after the other, ends in the database that promoting every
\* unblocked waiter at once gives: for any number of claims, and whatever the radii.
THEOREM RegistryPromotionIsOneStep == Spec => []PromotionIsOneStep
<1>1. TypeOK => PromotionIsOneStep
  <2> SUFFICES ASSUME TypeOK, NEW gone \in SUBSET {c \in Claims : IsOpen(db.rows[c])}, NEW lag \in Lags
               PROVE  PromotionLoop(Close(db, gone, "expired"), lag)[MaxClaims]
                        = PromoteWaiters(Close(db, gone, "expired"), lag)
    BY DEF PromotionIsOneStep
  <2>1. db \in DbType /\ gone \in SUBSET Claims /\ "expired" \in ClosedStatus
    BY DEF TypeOK, ClosedStatus
  <2>2. Close(db, gone, "expired") \in DbType
    BY <2>1, CloseView DEF Closes
  <2> QED
    BY <2>2, LoopPromotes, Zenon
<1> QED
  BY <1>1, RegistryTypes, PTL

=============================================================================
