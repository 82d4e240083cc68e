---------------------------- MODULE WorkClaims ----------------------------
(***************************************************************************)
(* WorkClaimRegistry (work_claims.py): exclusive, fenced claims of blast   *)
(* radii on one SQLite database that every agent of the machine shares.    *)
(*                                                                         *)
(* Every operation is one BEGIN IMMEDIATE transaction, so one atomic       *)
(* action.  An operation that raises rolls its transaction back, the       *)
(* expiries it had already carried out included: it is a stuttering step   *)
(* and has no action.                                                      *)
(*                                                                         *)
(* Time is kept relative: a row's expires_at is the number of ticks it     *)
(* lies ahead of the machine's clock (left), so that time may pass without *)
(* end in a finite model.  An operation reads the clock before it waits    *)
(* for the write lock, so it may run with a time that is behind by up to   *)
(* MaxLag ticks: its current is clock - lag.                               *)
(***************************************************************************)
EXTENDS BlastRadius, Integers, FiniteSets

CONSTANTS
  Agents,     \* caller-asserted agent identities
  Radii,      \* the normalized resource sets agents ask for
  Ttls,       \* the lease lengths agents ask for, in ticks
  MaxClaims,  \* bound: rows ever inserted in work_claims
  MaxLag      \* bound: ticks an operation may wait for the write lock

ASSUME TtlsAssumption == Ttls \subseteq Nat \ {0}
ASSUME MaxClaimsAssumption == MaxClaims \in Nat
ASSUME MaxLagAssumption == MaxLag \in Nat
ASSUME RadiiAssumption ==
  \A R \in Radii : /\ R # {}
                   /\ \A r \in R : r.kind \in Kinds /\ r.value \in Seq(Segments \cup {NoName})

VARIABLE db   \* the SQLite file: tables work_claims, work_claim_fence, work_claim_events

vars == db

Claims == 1..MaxClaims   \* seq, which orders arrivals; claim_id is as good as seq
Lags == 0..MaxLag

OpenStatus == {"acquired", "waiting"}
ClosedStatus == {"released", "expired", "cancelled", "handed_off"}
Status == {"absent"} \cup OpenStatus \cup ClosedStatus

NoFence == 0
NoLease == 0
NoAgent == ""

\* A row of work_claims; a seq that was not handed out yet has the row Absent.
Row == [agent: Agents \cup {NoAgent}, radius: Radii \cup {{}}, status: Status,
        fence: Nat, ttl: Nat, left: Int]
Absent == [agent |-> NoAgent, radius |-> {}, status |-> "absent",
           fence |-> NoFence, ttl |-> 0, left |-> NoLease]

(***************************************************************************)
(* The event log is modelled by what its readers learn from it: the status *)
(* and fence the last event about a claim shows, for every claim.          *)
(***************************************************************************)
Notice == [status: Status, fence: Nat]
Unseen == [status |-> "absent", fence |-> NoFence]

DbType ==
  [ rows:  [Claims -> Row],
    last:  0..MaxClaims,        \* the highest seq handed out
    fence: Nat,                 \* work_claim_fence.last_fence
    seen:  [Claims -> Notice] ] \* work_claim_events, replayed

----------------------------------------------------------------------------
(* Steps inside a transaction: values of the database to values of it.     *)

IsOpen(row) == row.status \in OpenStatus

\* _append_event, for every claim of S at once: each is logged as its row now stands.
Publish(d, S) ==
  [d EXCEPT !.seen = [c \in Claims |->
     IF c \in S THEN [status |-> d.rows[c].status, fence |-> d.rows[c].fence]
                ELSE d.seen[c]]]

\* _close: the rows of S take a closed status.  No code reads the lease of a
\* closed row again, so it is not kept.
Close(d, S, status) ==
  [d EXCEPT !.rows = [c \in Claims |->
     IF c \in S THEN [d.rows[c] EXCEPT !.status = status, !.left = NoLease]
                ELSE d.rows[c]]]

Overlap(d, b, c) == SetsOverlap(d.rows[b].radius, d.rows[c].radius)

\* Mutated form: only an earlier claim blocks, not a later one that is held.
BlockersEarlierOnly(d, c) ==
  {b \in Claims \ {c} : IsOpen(d.rows[b]) /\ b < c /\ Overlap(d, b, c)}

\* Mutated form: only a held claim blocks, earlier waiters lose their turn.
BlockersHeldOnly(d, c) ==
  {b \in Claims \ {c} : d.rows[b].status = "acquired" /\ Overlap(d, b, c)}

\* The claims that stand in the way of a waiting one, in _try_promote.
Blockers(d, c) ==
  {b \in Claims \ {c} : /\ IsOpen(d.rows[b])
                        /\ d.rows[b].status = "acquired" \/ b < c
                        /\ Overlap(d, b, c)}

\* Mutated form: every promotion of one pass gets the same fence.
AcquireSameFence(d, S, lag) ==
  [d EXCEPT !.rows = [c \in Claims |->
                        IF c \in S THEN [d.rows[c] EXCEPT !.status = "acquired",
                                                          !.fence  = d.fence + 1,
                                                          !.left   = d.rows[c].ttl - lag]
                                   ELSE d.rows[c]],
            !.fence = d.fence + 1]

\* Mutated form: the fence counter is not advanced.
AcquireReusedFence(d, S, lag) ==
  [d EXCEPT !.rows = [c \in Claims |->
                        IF c \in S THEN [d.rows[c] EXCEPT !.status = "acquired",
                                                          !.fence  = d.fence + Cardinality({b \in S : b <= c}),
                                                          !.left   = d.rows[c].ttl - lag]
                                   ELSE d.rows[c]]]

\* The rows of S become acquired in the order of seq, each with a fresh fence
\* (_next_fence) and a fresh lease.
Acquire(d, S, lag) ==
  [d EXCEPT !.rows = [c \in Claims |->
                        IF c \in S THEN [d.rows[c] EXCEPT !.status = "acquired",
                                                          !.fence  = d.fence + Cardinality({b \in S : b <= c}),
                                                          !.left   = d.rows[c].ttl - lag]
                                   ELSE d.rows[c]],
            !.fence = d.fence + Cardinality(S)]

Promotable(d) == {c \in Claims : d.rows[c].status = "waiting" /\ Blockers(d, c) = {}}

\* Mutated form: promoted without an event.
PromoteSilently(d, lag) == Acquire(d, Promotable(d), lag)

\* _try_promote for one claim.
TryPromote(d, c, lag) == IF Blockers(d, c) = {} THEN Acquire(d, {c}, lag) ELSE d

\* _promote_waiters.  The code walks the waiters in the order of seq and promotes
\* each one that nothing blocks.  A waiter promoted on the way blocks later ones
\* before and after its promotion alike, so the pass promotes the waiters nothing
\* blocks at its start.
PromoteWaiters(d, lag) == Publish(Acquire(d, Promotable(d), lag), Promotable(d))

\* The loop of _promote_waiters as the code runs it, over the rows it read first: [n]
\* is the database when the claims up to n had their turn.
PromotionLoop(d, lag) ==
  LET Turn(e, c) ==
        IF d.rows[c].status = "waiting" /\ Blockers(e, c) = {}
        THEN Publish(TryPromote(e, c, lag), {c})
        ELSE e
      after[n \in 0..MaxClaims] == IF n = 0 THEN d ELSE Turn(after[n - 1], n)
  IN after

\* Mutated form: a lease ends one tick early.
LapsedEarly(d, lag) == {c \in Claims : IsOpen(d.rows[c]) /\ d.rows[c].left <= 1 - lag}

\* Mutated form: only waiters lapse, a holder that stopped renewing keeps its claim.
LapsedWaiters(d, lag) ==
  {c \in Claims : d.rows[c].status = "waiting" /\ d.rows[c].left <= -lag}

Lapsed(d, lag) == {c \in Claims : IsOpen(d.rows[c]) /\ d.rows[c].left <= -lag}

\* Mutated form: expiry frees resources but promotes nobody.
ExpireOnly(d, lag) ==
  LET gone == Lapsed(d, lag)
  IN Publish(Close(d, gone, "expired"), gone)

\* _expire: close every lapsed claim, then promote if any was closed.
Expire(d, lag) ==
  LET gone == Lapsed(d, lag)
  IN IF gone = {} THEN d
                  ELSE PromoteWaiters(Publish(Close(d, gone, "expired"), gone), lag)

\* INSERT INTO work_claims with the next seq.
Insert(d, row) == [d EXCEPT !.rows[d.last + 1] = row, !.last = d.last + 1]

----------------------------------------------------------------------------
(* The operations of the registry.                                         *)

Init ==
  db = [ rows  |-> [c \in Claims |-> Absent],
         last  |-> 0,
         fence |-> NoFence,
         seen  |-> [c \in Claims |-> Unseen] ]

\* claim: the requester's own open claims that overlap the new one reject it.
Own(d, a, R) ==
  {c \in Claims : /\ IsOpen(d.rows[c])
                  /\ d.rows[c].agent = a
                  /\ SetsOverlap(R, d.rows[c].radius)}

\* The rejection's event names no claim; what was expired on the way stays expired.
ClaimRejected(a, R, lag) ==
  LET d == Expire(db, lag)
  IN /\ Own(d, a, R) # {}
     /\ db' = d

ClaimAdmitted(a, R, ttl, lag) ==
  LET d == Expire(db, lag)
      c == d.last + 1
      row == [agent |-> a, radius |-> R, status |-> "waiting", fence |-> NoFence,
              ttl |-> ttl, left |-> ttl - lag]
  IN /\ Own(d, a, R) = {}
     /\ d.last < MaxClaims
     /\ db' = Publish(TryPromote(Insert(d, row), c, lag), {c})

Claim(a, R, ttl, lag) == ClaimRejected(a, R, lag) \/ ClaimAdmitted(a, R, ttl, lag)

\* poll: a waiting claim is kept alive and tried again.  A promotion here would
\* have no event of its own.
Poll(c, lag) ==
  LET d == Expire(db, lag)
  IN /\ c <= d.last
     /\ db' = IF d.rows[c].status = "waiting"
              THEN TryPromote([d EXCEPT !.rows[c].left = d.rows[c].ttl - lag], c, lag)
              ELSE d

\* _held, after the expiries of its transaction.
Held(d, c, a, f) ==
  /\ d.rows[c].status = "acquired"
  /\ d.rows[c].agent = a
  /\ d.rows[c].fence = f

Renew(c, a, f, ttl, lag) ==
  LET d == Expire(db, lag)
  IN /\ Held(d, c, a, f)
     /\ db' = Publish([d EXCEPT !.rows[c].ttl = ttl, !.rows[c].left = ttl - lag], {c})

Release(c, a, f, lag) ==
  LET d == Expire(db, lag)
  IN /\ Held(d, c, a, f)
     /\ db' = PromoteWaiters(Publish(Close(d, {c}, "released"), {c}), lag)

\* cancel: the one transition that does not expire lapsed claims first.
Cancel(c, a, lag) ==
  /\ db.rows[c].agent = a
  /\ db.rows[c].status = "waiting"
  /\ db' = PromoteWaiters(Publish(Close(db, {c}, "cancelled"), {c}), lag)

\* handoff: the successor's claim is a new row, held from the start under a new
\* fence.  One event carries both claims.  No waiter is promoted.
Handoff(c, a, f, successor, lag) ==
  LET d == Expire(db, lag)
      n == d.last + 1
      row == [agent |-> successor, radius |-> d.rows[c].radius, status |-> "acquired",
              fence |-> d.fence + 1, ttl |-> d.rows[c].ttl, left |-> d.rows[c].ttl - lag]
  IN /\ Held(d, c, a, f)
     /\ successor # a
     /\ d.last < MaxClaims
     /\ db' = Publish([Insert(Close(d, {c}, "handed_off"), row) EXCEPT !.fence = d.fence + 1],
                      {c, n})

\* Time passes.  A lease that lapsed for every clock reading still in use need not
\* be told from one that lapsed earlier.
Tick ==
  db' = [db EXCEPT !.rows = [c \in Claims |->
           IF IsOpen(db.rows[c]) /\ db.rows[c].left > -MaxLag
           THEN [db.rows[c] EXCEPT !.left = @ - 1]
           ELSE db.rows[c]]]

Fences == 1..db.fence

Operate(a, lag) ==
  \/ \E R \in Radii, ttl \in Ttls : Claim(a, R, ttl, lag)
  \/ \E c \in Claims : Poll(c, lag)
  \/ \E c \in Claims, f \in Fences, ttl \in Ttls : Renew(c, a, f, ttl, lag)
  \/ \E c \in Claims, f \in Fences : Release(c, a, f, lag)
  \/ \E c \in Claims : Cancel(c, a, lag)
  \/ \E c \in Claims, f \in Fences, s \in Agents : Handoff(c, a, f, s, lag)

Next == Tick \/ \E a \in Agents, lag \in Lags : Operate(a, lag)

Spec == Init /\ [][Next]_vars

----------------------------------------------------------------------------
(* What the registry promises.                                             *)

\* The database keeps its shape, and rows are handed out in the order of seq.
TypeOK ==
  /\ db \in DbType
  /\ \A c \in Claims : db.rows[c].status = "absent" <=> c > db.last

\* One writer: two claims that are held at the same time never overlap, whatever
\* order claims, expiries, promotions and handoffs come in.
Exclusive(d) ==
  \A b, c \in Claims :
    b # c /\ d.rows[b].status = "acquired" /\ d.rows[c].status = "acquired" => ~Overlap(d, b, c)

\* No lost wakeup: whenever a transaction has committed, every waiting claim still
\* has something to wait for.  poll relies on it: its own promotion logs nothing.
Settled(d) ==
  \A c \in Claims : d.rows[c].status = "waiting" => Blockers(d, c) # {}

\* "Every transition is appended to a hash-chained event log": who replays the log
\* knows the status and the fence of every claim.
LogFaithful(d) ==
  \A c \in Claims : d.seen[c] = [status |-> d.rows[c].status, fence |-> d.rows[c].fence]

\* The fence of a holder is above the fence of everybody who ever held an
\* overlapping claim, so a check against the holder's fence shuts them all out.
SuccessorFenced(d) ==
  \A b, c \in Claims :
    /\ b # c
    /\ d.rows[c].status = "acquired"
    /\ d.rows[b].fence # NoFence
    /\ Overlap(d, b, c)
    => d.rows[b].fence < d.rows[c].fence

\* An agent never waits behind itself except for a claim that was handed to it
\* while its own older, overlapping claim was queued.
OwnOverlap(d) ==
  \A b, c \in Claims :
    /\ b < c
    /\ IsOpen(d.rows[b]) /\ IsOpen(d.rows[c])
    /\ d.rows[b].agent = d.rows[c].agent
    /\ Overlap(d, b, c)
    => d.rows[b].status = "waiting" /\ d.rows[c].status = "acquired"

\* After every transaction of the registry, claims held together do not overlap.
ExclusiveInv == Exclusive(db)

\* After every transaction each waiting claim has a blocker in _try_promote's sense.
SettledInv == Settled(db)

\* After every transaction the replay of work_claim_events agrees with work_claims.
LogFaithfulInv == LogFaithful(db)

\* After every transaction a holder's fence exceeds its overlapping predecessors'.
SuccessorFencedInv == SuccessorFenced(db)

\* After every transaction an agent overlaps itself at most by waiting behind a claim
\* that handoff gave it, in spite of the test in claim.
OwnOverlapInv == OwnOverlap(db)

\* Whatever set of open claims a transaction closes, the loop that follows
\* (_promote_waiters after _expire, release and cancel) ends where promoting all
\* unblocked waiters at once does: rows, fences in arrival order, and events.
PromotionIsOneStep ==
  \A gone \in SUBSET {c \in Claims : IsOpen(db.rows[c])}, lag \in Lags :
    LET d == Close(db, gone, "expired")
    IN PromotionLoop(d, lag)[MaxClaims] = PromoteWaiters(d, lag)

\* Arrival order: a claim that becomes held leaves no earlier overlapping claim
\* waiting, unless it was held all along and changed hands in this step.
NoOvertaking ==
  [][\A b, c \in Claims :
       /\ b < c
       /\ db.rows[c].status # "acquired" /\ db'.rows[c].status = "acquired"
       /\ db'.rows[b].status = "waiting"
       /\ Overlap(db', b, c)
       => \E h \in Claims : /\ db.rows[h].status = "acquired"
                            /\ db'.rows[h].status = "handed_off"
                            /\ db.rows[h].radius = db'.rows[c].radius]_vars

----------------------------------------------------------------------------
(* What the module's docstring says and the code does not do.              *)

\* "A waiting claim also expires unless its requester keeps polling, so a crashed
\* waiter never blocks the queue": a claim whose requester stopped polling is
\* never given the resources.
LapsedNotPromoted ==
  [][\A c \in Claims :
       db.rows[c].status = "waiting" /\ db.rows[c].left <= -MaxLag
         => db'.rows[c].status # "acquired"]_vars

\* A waiting claim "is promoted in arrival order as soon as the blocking claims are
\* released, handed off or expired": it does not stay waiting through a step that
\* ends everything it waited for.
PromotedWhenFreed ==
  [][\A c \in Claims :
       db.rows[c].status = "waiting" /\ db'.rows[c].status = "waiting"
         => \E b \in Blockers(db, c) : IsOpen(db'.rows[b])]_vars
=============================================================================
