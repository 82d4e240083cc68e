---------------------------- MODULE LedgerProofs ----------------------------
(***************************************************************************)
(* Proofs about what is written in order to be read again: the journal of  *)
(* Atlas (AtlasRuntime), for any signals and faults; and the signed ledger *)
(* (Ledger) with its Merkle tree (Merkle), for any sources, writers and    *)
(* length.                                                                 *)
(***************************************************************************)
EXTENDS Ledger, AtlasRuntime, TLAPS

INSTANCE WellFoundedInduction

(***************************************************************************)
(* 1. AtlasRuntime                                                         *)
(*                                                                         *)
(* The memory of Atlas is a fold over its journal.  That reading back one  *)
(* line more is one step more (ReplayOneMore) is proved by the least index *)
(* at which two readings differ; from there on no induction over the file  *)
(* is needed: the invariant says what the whole lines replay to.           *)
(***************************************************************************)
AtlasSpec == AtlasInit /\ [][AtlasNext]_atlasVars

----------------------------------------------------------------------------
(* Reading a journal back, one line at a time.                             *)

IsJournal(lines) == \E S : lines \in Seq(S)

\* f is the memory after each of the first n lines.
ReadsBack(f, lines, n) ==
  f = [i \in 0..n |-> IF i = 0 THEN Blank ELSE Reread(f[i - 1], lines[i])]

LEMMA LeastNat ==
  ASSUME NEW T, T \subseteq Nat, T # {}
  PROVE  \E n \in T : \A m \in T : n <= m
<1> DEFINE R == OpToRel(<, Nat)
<1>1. IsWellFoundedOn(R, Nat)
  BY NatLessThanWellFounded, Zenon
<1>2. \E x \in T : \A y \in T : ~(<<y, x>> \in R)
  <2> HIDE DEF R
  <2> QED BY <1>1, WFMin, Zenon
<1>3. \A x, y \in Nat : <<y, x>> \in R <=> y < x
  BY DEF OpToRel
<1> HIDE DEF R
<1>4. PICK x \in T : \A y \in T : ~(<<y, x>> \in R)
  BY <1>2
<1>5. ASSUME NEW m \in T PROVE x <= m
  <2>1. x \in Nat /\ m \in Nat /\ ~(m < x)
    BY <1>3, <1>4, Zenon
  <2> QED BY <2>1
<1> QED BY <1>5

LEMMA ReadsBackAt ==
  ASSUME NEW lines, NEW n \in Nat, NEW f, ReadsBack(f, lines, n)
  PROVE  /\ f[0] = Blank
         /\ \A i \in 1..n : f[i] = Reread(f[i - 1], lines[i])
<1>1. \A i \in 0..n : f[i] = IF i = 0 THEN Blank ELSE Reread(f[i - 1], lines[i])
  BY DEF ReadsBack
<1>2. 0 \in 0..n /\ \A i \in 1..n : i \in 0..n /\ i # 0
  OBVIOUS
<1> QED
  BY <1>1, <1>2

\* There is such a memory, however long the journal.
LEMMA SomeReadsBack ==
  ASSUME NEW lines, NEW n \in Nat
  PROVE  \E f : ReadsBack(f, lines, n)
<1> DEFINE T == {k \in Nat : ~\E f : ReadsBack(f, lines, k)}
<1> SUFFICES ASSUME T # {} PROVE FALSE
  OBVIOUS
<1>1. PICK k \in T : \A m \in T : k <= m
  BY LeastNat, Zenon
<1>2. k # 0
  <2>1. ReadsBack([i \in 0..0 |-> Blank], lines, 0)
    <3>1. \A i \in 0..0 : i = 0
      OBVIOUS
    <3> QED BY <3>1 DEF ReadsBack
  <2> QED BY <2>1
<1>3. k - 1 \in Nat /\ k \in Nat
  BY <1>2
<1>4. PICK g : ReadsBack(g, lines, k - 1)
  <2>1. k - 1 \notin T
    BY <1>1, <1>3
  <2> QED BY <1>3, <2>1
<1> DEFINE h == [i \in 0..k |-> IF i < k THEN g[i] ELSE Reread(g[k - 1], lines[k])]
<1>5. \A i \in 0..k : h[i] = IF i = 0 THEN Blank ELSE Reread(h[i - 1], lines[i])
  <2> SUFFICES ASSUME NEW i \in 0..k
               PROVE  h[i] = IF i = 0 THEN Blank ELSE Reread(h[i - 1], lines[i])
    OBVIOUS
  <2>1. CASE i = 0
    <3>1. h[0] = g[0]
      BY <1>2, <1>3
    <3>2. g[0] = Blank
      BY <1>3, <1>4, ReadsBackAt, Zenon
    <3> QED BY <2>1, <3>1, <3>2
  <2>2. CASE i # 0 /\ i < k
    <3>1. h[i] = g[i] /\ h[i - 1] = g[i - 1] /\ i \in 1..(k - 1)
      BY <1>3, <2>2
    <3>2. g[i] = Reread(g[i - 1], lines[i])
      BY <1>3, <1>4, <3>1, ReadsBackAt
    <3> QED BY <2>2, <3>1, <3>2
  <2>3. CASE i = k
    <3>1. h[i] = Reread(g[k - 1], lines[k]) /\ h[k - 1] = g[k - 1]
      BY <1>3, <2>3
    <3> QED BY <1>2, <2>3, <3>1
  <2> QED BY <1>3, <2>1, <2>2, <2>3
<1>6. ReadsBack(h, lines, k)
  <2>1. h = [i \in 0..k |-> h[i]]
    OBVIOUS
  <2> HIDE DEF h
  <2> QED BY <1>5, <2>1, Zenon DEF ReadsBack
<1> QED BY <1>6

\* What it is depends on the lines alone.
LEMMA ReadsBackSame ==
  ASSUME NEW s, NEW t, NEW f, NEW g, NEW n \in Nat, NEW m \in Nat, m <= n,
         ReadsBack(f, s, m), ReadsBack(g, t, n), \A i \in 1..m : s[i] = t[i]
  PROVE  f[m] = g[m]
<1> DEFINE T == {k \in 0..m : f[k] # g[k]}
<1> SUFFICES ASSUME T # {} PROVE FALSE
  OBVIOUS
<1>0. T \subseteq Nat
  OBVIOUS
<1>1. PICK k \in T : \A j \in T : k <= j
  <2> HIDE DEF T
  <2> QED BY <1>0, LeastNat, Zenon
<1>2. k # 0
  <2>1. f[0] = Blank /\ g[0] = Blank
    BY ReadsBackAt
  <2> QED BY <2>1
<1>3. k \in 1..m /\ k \in 1..n /\ k - 1 \in 0..m
  BY <1>2
<1>4. f[k - 1] = g[k - 1]
  <2>1. k - 1 \notin T
    BY <1>1, <1>3
  <2> QED BY <1>3, <2>1
<1>5. f[k] = Reread(f[k - 1], s[k]) /\ g[k] = Reread(g[k - 1], t[k])
  BY <1>3, ReadsBackAt
<1> QED BY <1>3, <1>4, <1>5

LEMMA ReplayedReads ==
  ASSUME NEW lines, Len(lines) \in Nat
  PROVE  \E f : ReadsBack(f, lines, Len(lines)) /\ Replayed(lines) = f[Len(lines)]
<1> DEFINE M == CHOOSE f : f = [i \in 0..Len(lines) |->
                                  IF i = 0 THEN Blank ELSE Reread(f[i - 1], lines[i])]
<1>1. Replayed(lines) = M[Len(lines)]
  BY DEF Replayed
<1>2. ReadsBack(M, lines, Len(lines))
  BY SomeReadsBack, Zenon DEF ReadsBack
<1> QED BY <1>1, <1>2, Zenon
LEMMA JournalFacts ==
  ASSUME NEW lines, IsJournal(lines), NEW x
  PROVE  /\ Len(lines) \in Nat /\ DOMAIN lines = 1..Len(lines)
         /\ IsJournal(Append(lines, x)) /\ Append(lines, x) # <<>>
         /\ Len(Append(lines, x)) = Len(lines) + 1
         /\ Append(lines, x)[Len(lines) + 1] = x
         /\ \A i \in 1..Len(lines) : Append(lines, x)[i] = lines[i]
         /\ SubSeq(Append(lines, x), 1, Len(lines)) = lines
<1>1. PICK S : lines \in Seq(S)
  BY DEF IsJournal
<1>2. lines \in Seq(S \cup {x})
  BY <1>1
<1>3. /\ Len(lines) \in Nat /\ DOMAIN lines = 1..Len(lines)
      /\ Append(lines, x) \in Seq(S \cup {x}) /\ Append(lines, x) # <<>>
      /\ Len(Append(lines, x)) = Len(lines) + 1
      /\ Append(lines, x)[Len(lines) + 1] = x
      /\ \A i \in 1..Len(lines) : Append(lines, x)[i] = lines[i]
  BY <1>2
<1>4. SubSeq(Append(lines, x), 1, Len(lines)) = lines
  BY <1>2, <1>3
<1> QED
  BY <1>3, <1>4 DEF IsJournal

LEMMA ReplayNothing == Replayed(<<>>) = Blank
<1>1. Len(<<>>) = 0
  OBVIOUS
<1>2. PICK f : ReadsBack(f, <<>>, 0) /\ Replayed(<<>>) = f[0]
  BY <1>1, ReplayedReads
<1> QED BY <1>2, ReadsBackAt

LEMMA ReplayOneMore ==
  ASSUME NEW lines, IsJournal(lines), NEW x
  PROVE  Replayed(Append(lines, x)) = Reread(Replayed(lines), x)
<1> DEFINE n == Len(lines)
           more == Append(lines, x)
<1>1. /\ n \in Nat /\ n + 1 \in Nat /\ Len(more) = n + 1 /\ more[n + 1] = x
      /\ \A i \in 1..n : more[i] = lines[i]
  BY JournalFacts
<1> HIDE DEF n, more
<1>2. PICK f : ReadsBack(f, lines, n) /\ Replayed(lines) = f[n]
  BY <1>1, ReplayedReads DEF n
<1>3. PICK g : ReadsBack(g, more, n + 1) /\ Replayed(more) = g[n + 1]
  BY <1>1, ReplayedReads
<1>4. f[n] = g[n]
  <2>1. n <= n + 1 /\ \A i \in 1..n : lines[i] = more[i]
    BY <1>1
  <2>2. ReadsBack(f, lines, n) /\ ReadsBack(g, more, n + 1)
    BY <1>2, <1>3
  <2>3. n \in Nat /\ n + 1 \in Nat
    BY <1>1
  <2> QED BY <2>1, <2>2, <2>3, ReadsBackSame
<1>5. g[n + 1] = Reread(g[n], more[n + 1])
  <2>1. n + 1 \in 1..(n + 1) /\ (n + 1) - 1 = n
    BY <1>1
  <2> QED BY <1>1, <1>3, <2>1, ReadsBackAt
<1>6. Replayed(more) = Reread(Replayed(lines), x)
  BY <1>1, <1>2, <1>3, <1>4, <1>5
<1> QED BY <1>6 DEF more

----------------------------------------------------------------------------
(* What a record does to the memory.                                       *)

Kinds == {"init", "alarm", "ack", "request", "result"}

\* The memory of a live process, by its fields.
Mem(c, k, e, g, ro, ru, re) ==
  [up |-> TRUE, count |-> c, cursor |-> k, events |-> e, groups |-> g, routes |-> ro,
   runs |-> ru, results |-> re]

Memory(m) == m = Mem(m.count, m.cursor, m.events, m.groups, m.routes, m.runs, m.results)

\* Every run has its route and no result.
Backed(m) == NoRoute \notin m.routes /\ m.runs \subseteq m.routes \ DOMAIN m.results

Known(m) == m.runs \cup DOMAIN m.results

LEMMA MemoryUp ==
  ASSUME NEW m, Memory(m)
  PROVE  m.up = TRUE /\ m # Down
<1>1. m.up = TRUE
  BY DEF Memory, Mem
<1>2. Down.up = FALSE
  BY DEF Down
<1> QED BY <1>1, <1>2

\* What a record makes of the routes, runs and results of m.
Moves(m, rec, n) ==
  /\ rec.kind = "init" =>
       n.routes = m.routes /\ n.runs = m.runs /\ n.results = m.results
  /\ rec.kind = "alarm" =>
       /\ n.routes = (m.routes \ {rec.superseded}) \cup ({rec.route} \ {NoRoute})
       /\ n.runs = m.runs /\ n.results = m.results
  /\ rec.kind = "ack" =>
       n.routes = m.routes \ {rec.route} /\ n.runs = m.runs /\ n.results = m.results
  /\ rec.kind = "request" =>
       n.routes = m.routes /\ n.runs = m.runs \cup {rec.route} /\ n.results = m.results
  /\ rec.kind = "result" =>
       /\ n.runs = m.runs \ {rec.route} /\ DOMAIN n.results = DOMAIN m.results \cup {rec.route}
       /\ n.routes = IF rec.status = "completed" THEN m.routes \ {rec.route} ELSE m.routes

LEMMA AppliedMemory ==
  ASSUME NEW m, Memory(m), NEW rec, rec.kind \in Kinds
  PROVE  Memory(Applied(m, rec)) /\ Moves(m, rec, Applied(m, rec))
<1>0. PICK c, k, e, g, ro, ru, re : m = Mem(c, k, e, g, ro, ru, re)
  BY Zenon DEF Memory
<1>f. ASSUME NEW c2, NEW k2, NEW e2, NEW g2, NEW ro2, NEW ru2, NEW re2
      PROVE  LET n == Mem(c2, k2, e2, g2, ro2, ru2, re2)
             IN /\ n.count = c2 /\ n.cursor = k2 /\ n.events = e2 /\ n.groups = g2
                /\ n.routes = ro2 /\ n.runs = ru2 /\ n.results = re2 /\ Memory(n)
  BY DEF Mem, Memory
<1>c. ASSUME NEW n, NEW x, NEW c2, NEW k2, NEW e2, NEW g2, NEW ro2, NEW ru2, NEW re2,
             n = Mem(c2, k2, e2, g2, ro2, ru2, re2), x = [n EXCEPT !.count = @ + 1]
      PROVE  x = Mem(c2 + 1, k2, e2, g2, ro2, ru2, re2)
  BY <1>c, Zenon DEF Mem
<1>m. /\ m.count = c /\ m.cursor = k /\ m.events = e /\ m.groups = g
      /\ m.routes = ro /\ m.runs = ru /\ m.results = re
  BY <1>0, <1>f
<1>1. CASE rec.kind = "init"
  <2>1. Applied(m, rec) = [m EXCEPT !.count = @ + 1]
    BY <1>1 DEF Applied
  <2>2. Applied(m, rec) = Mem(c + 1, k, e, g, ro, ru, re)
    BY <1>0, <2>1, Zenon DEF Mem
  <2> QED BY <1>1, <1>f, <1>m, <2>2 DEF Moves
<1>2. CASE rec.kind = "alarm"
  <2> DEFINE g2 == [g EXCEPT ![rec.group] =
                      [seen |-> rec.at, until |-> rec.until, tier |-> rec.tier,
                       route |-> IF rec.route = NoRoute THEN @.route ELSE rec.route]]
             ro2 == (ro \ {rec.superseded}) \cup ({rec.route} \ {NoRoute})
  <2>1. Applied(m, rec) = [AppliedAlarm(m, rec) EXCEPT !.count = @ + 1]
    BY <1>2 DEF Applied
  <2>2. AppliedAlarm(m, rec) = Mem(c, rec.cursor, Append(e, rec), g2, ro2, ru, re)
    <3>1. AppliedAlarm(m, rec) = [m EXCEPT !.cursor = rec.cursor, !.events = Append(e, rec),
                                           !.routes = ro2, !.groups = g2]
      BY <1>m, Zenon DEF AppliedAlarm
    <3> HIDE DEF g2, ro2
    <3> QED BY <1>0, <3>1, Zenon DEF Mem
  <2> HIDE DEF g2, ro2
  <2>3. Applied(m, rec) = Mem(c + 1, rec.cursor, Append(e, rec), g2, ro2, ru, re)
    BY <1>c, <2>1, <2>2
  <2> QED BY <1>2, <1>f, <1>m, <2>3 DEF Moves, ro2
<1>3. CASE rec.kind = "ack"
  <2>1. Applied(m, rec) = [[m EXCEPT !.routes = @ \ {rec.route}] EXCEPT !.count = @ + 1]
    BY <1>3, Zenon DEF Applied
  <2>2. Applied(m, rec) = Mem(c + 1, k, e, g, ro \ {rec.route}, ru, re)
    BY <1>0, <2>1, Zenon DEF Mem
  <2> QED BY <1>3, <1>f, <1>m, <2>2 DEF Moves
<1>4. CASE rec.kind = "request"
  <2>1. Applied(m, rec) = [[m EXCEPT !.runs = @ \cup {rec.route}] EXCEPT !.count = @ + 1]
    BY <1>4, Zenon DEF Applied
  <2>2. Applied(m, rec) = Mem(c + 1, k, e, g, ro, ru \cup {rec.route}, re)
    BY <1>0, <2>1, Zenon DEF Mem
  <2> QED BY <1>4, <1>f, <1>m, <2>2 DEF Moves
<1>5. CASE rec.kind = "result"
  <2> DEFINE re2 == [r \in DOMAIN re \cup {rec.route} |->
                       IF r = rec.route THEN rec.status ELSE re[r]]
             ro2 == IF rec.status = "completed" THEN ro \ {rec.route} ELSE ro
  <2>1. Applied(m, rec) = [AppliedResult(m, rec) EXCEPT !.count = @ + 1]
    BY <1>5 DEF Applied
  <2>2. AppliedResult(m, rec) = Mem(c, k, e, g, ro2, ru \ {rec.route}, re2)
    <3>1. AppliedResult(m, rec) = [m EXCEPT !.runs = ru \ {rec.route}, !.results = re2,
                                            !.routes = ro2]
      BY <1>m DEF AppliedResult
    <3> HIDE DEF re2, ro2
    <3> QED BY <1>0, <3>1, Zenon DEF Mem
  <2>d. DOMAIN re2 = DOMAIN re \cup {rec.route}
    OBVIOUS
  <2> HIDE DEF re2
  <2>3. Applied(m, rec) = Mem(c + 1, k, e, g, ro2, ru \ {rec.route}, re2)
    BY <1>c, <2>1, <2>2
  <2> QED BY <1>5, <1>f, <1>m, <2>3, <2>d DEF Moves
<1> QED
  BY <1>1, <1>2, <1>3, <1>4, <1>5 DEF Kinds
LEMMA AdmittedKind ==
  ASSUME NEW m, NEW rec, Admits(m, rec)
  PROVE  rec.kind \in Kinds
  BY DEF Admits, Kinds

\* A line that is refused ends the replay, and one that is not keeps every run backed.
LEMMA RereadBacked ==
  ASSUME NEW m, Memory(m), Backed(m), NEW rec, Admits(m, rec)
  PROVE  Memory(Applied(m, rec)) /\ Backed(Applied(m, rec)) /\ Known(m) \subseteq Known(Applied(m, rec))
<1>0. rec.kind \in Kinds /\ Memory(Applied(m, rec))
  BY AdmittedKind, AppliedMemory
<1>a. PICK n : n = Applied(m, rec) /\ Moves(m, rec, n)
  BY <1>0, AppliedMemory
<1>1. CASE rec.kind = "init"
  <2>1. n.routes = m.routes /\ n.runs = m.runs /\ n.results = m.results
    BY <1>1, <1>a, Zenon DEF Moves
  <2> QED BY <1>0, <1>a, <2>1, Zenon DEF Backed, Known
<1>2. CASE rec.kind = "alarm"
  <2>1. /\ n.routes = (m.routes \ {rec.superseded}) \cup ({rec.route} \ {NoRoute})
        /\ n.runs = m.runs /\ n.results = m.results
    BY <1>2, <1>a DEF Moves
  <2>2. rec.superseded # NoRoute => rec.superseded \notin m.runs
    BY <1>2 DEF Admits, AdmitsAlarm
  <2> QED BY <1>0, <1>a, <2>1, <2>2 DEF Backed, Known
<1>3. CASE rec.kind = "ack"
  <2>1. n.routes = m.routes \ {rec.route} /\ n.runs = m.runs /\ n.results = m.results
    BY <1>3, <1>a DEF Moves
  <2>2. rec.route \notin m.runs
    BY <1>3 DEF Admits
  <2> QED BY <1>0, <1>a, <2>1, <2>2 DEF Backed, Known
<1>4. CASE rec.kind = "request"
  <2>1. n.routes = m.routes /\ n.runs = m.runs \cup {rec.route} /\ n.results = m.results
    BY <1>4, <1>a DEF Moves
  <2>2. rec.route \in m.routes /\ rec.route \notin DOMAIN m.results
    BY <1>4 DEF Admits, AdmitsRequest
  <2> QED BY <1>0, <1>a, <2>1, <2>2 DEF Backed, Known
<1>5. CASE rec.kind = "result"
  <2>1. /\ n.runs = m.runs \ {rec.route} /\ DOMAIN n.results = DOMAIN m.results \cup {rec.route}
        /\ n.routes = IF rec.status = "completed" THEN m.routes \ {rec.route} ELSE m.routes
    BY <1>5, <1>a DEF Moves
  <2> QED BY <1>0, <1>a, <2>1, Zenon DEF Backed, Known
<1> QED
  BY <1>0, <1>1, <1>2, <1>3, <1>4, <1>5, Zenon DEF Kinds
----------------------------------------------------------------------------
(* The inductive invariant.                                                *)

\* The routes requested in lines are known to m, and none of them is requested twice.
Requested(lines, m) ==
  /\ \A k \in DOMAIN lines : lines[k].rec.kind = "request" => lines[k].rec.route \in Known(m)
  /\ \A k, n \in DOMAIN lines :
       lines[k].rec.kind = "request" /\ lines[k].rec = lines[n].rec => k = n

\* A memory read back from lines.
Sound(lines, m) == m = Down \/ (Memory(m) /\ Backed(m) /\ Requested(lines, m))

Clean(lines) == IsJournal(lines) /\ \A k \in DOMAIN lines : lines[k] # Torn

\* The lines that count are in Whole, and a torn tail is all there is behind them.
FileInv ==
  /\ Clean(Whole)
  /\ file = Whole \/ file = Append(Whole, Torn)
  /\ Sound(Whole, Replayed(Whole))

AtlasInv ==
  /\ faults \in Nat
  /\ FileInv
  /\ atlas = Down \/ (Memory(atlas) /\ Backed(atlas))
  /\ faults = 0 =>
       /\ Replayed(Whole) # Down
       /\ Alive => file = Whole /\ file # <<>> /\ atlas = Replayed(Whole)

\* A line more.
LEMMA OneLineMore ==
  ASSUME NEW lines, IsJournal(lines), NEW m, Sound(lines, m), NEW line
  PROVE  Sound(Append(lines, line), Reread(m, line))
<1>0. CASE ~(m.up /\ line.seq = m.count /\ Admits(m, line.rec))
  BY <1>0 DEF Reread, Sound
<1>1. CASE m.up /\ line.seq = m.count /\ Admits(m, line.rec)
  <2>1. PICK n : n = Applied(m, line.rec)
    OBVIOUS
  <2>2. Reread(m, line) = n /\ m # Down
    BY <1>1, <2>1 DEF Reread, Down
  <2>3. Memory(m) /\ Backed(m) /\ Requested(lines, m)
    BY <2>2 DEF Sound
  <2>4. Memory(n) /\ Backed(n) /\ Known(m) \subseteq Known(n)
    BY <1>1, <2>1, <2>3, RereadBacked, Zenon
  <2>5. PICK more : more = Append(lines, line)
    BY Zenon
  <2>6. /\ DOMAIN lines = 1..Len(lines) /\ DOMAIN more = 1..(Len(lines) + 1) /\ Len(lines) \in Nat
        /\ more[Len(lines) + 1] = line
        /\ \A i \in DOMAIN lines : more[i] = lines[i]
    <3>1. IsJournal(more) /\ Len(more) = Len(lines) + 1
      BY <2>5, JournalFacts
    <3> QED BY <2>5, <3>1, JournalFacts
  <2>7. line.rec.kind = "request" => line.rec.route \in Known(n) \ Known(m)
    <3>1. ASSUME line.rec.kind = "request" PROVE line.rec.route \in Known(n) \ Known(m)
      <4>1. n.runs = m.runs \cup {line.rec.route} /\ n.results = m.results
        <5>1. Moves(m, line.rec, n)
          BY <2>1, <2>3, <3>1, AppliedMemory DEF Kinds
        <5> QED BY <3>1, <5>1 DEF Moves
      <4>2. line.rec.route \notin Known(m)
        BY <1>1, <3>1 DEF Admits, AdmitsRequest, Known
      <4> QED BY <4>1, <4>2 DEF Known
    <3> QED BY <3>1
  <2>8. ASSUME NEW k \in DOMAIN more, more[k].rec.kind = "request"
        PROVE  more[k].rec.route \in Known(n)
    BY <2>3, <2>4, <2>6, <2>7, <2>8 DEF Requested
  <2>9. ASSUME NEW k \in DOMAIN more, NEW j \in DOMAIN more,
               more[k].rec.kind = "request", more[k].rec = more[j].rec
        PROVE  k = j
    <3>1. CASE k \in DOMAIN lines /\ j \in DOMAIN lines
      BY <2>3, <2>6, <2>9, <3>1 DEF Requested
    <3>2. CASE k \in DOMAIN lines /\ j = Len(lines) + 1
      BY <2>3, <2>6, <2>7, <2>9, <3>2 DEF Requested
    <3>3. CASE k = Len(lines) + 1 /\ j \in DOMAIN lines
      BY <2>3, <2>6, <2>7, <2>9, <3>3 DEF Requested
    <3> QED BY <2>6, <3>1, <3>2, <3>3
  <2> QED
    BY <2>2, <2>4, <2>5, <2>8, <2>9, Zenon DEF Sound, Requested
<1> QED BY <1>0, <1>1

LEMMA BlankSound == Memory(Blank) /\ Backed(Blank) /\ Sound(<<>>, Blank)
<1>1. Memory(Blank)
  BY Zenon DEF Memory, Mem, Blank
<1>2. Backed(Blank)
  BY DEF Backed, Blank
<1>3. Requested(<<>>, Blank)
  BY DEF Requested
<1> QED BY <1>1, <1>2, <1>3 DEF Sound
----------------------------------------------------------------------------
(* Writing to the file.                                                    *)

LEMMA WholeClean ==
  ASSUME NEW s, Clean(s), file' = s
  PROVE  Whole' = s
<1>1. s # <<>> => s[Len(s)] # Torn
  <2>1. Len(s) \in Nat /\ DOMAIN s = 1..Len(s)
    BY JournalFacts DEF Clean
  <2>2. s # <<>> => Len(s) # 0
    <3>1. PICK S : s \in Seq(S)
      BY DEF Clean, IsJournal
    <3> QED BY <3>1
  <2> QED BY <2>1, <2>2 DEF Clean
<1> QED BY <1>1 DEF Whole

LEMMA WholeTorn ==
  ASSUME NEW s, Clean(s), file' = Append(s, Torn)
  PROVE  Whole' = s
<1>1. /\ Len(s) \in Nat /\ Append(s, Torn) # <<>> /\ Len(Append(s, Torn)) = Len(s) + 1
      /\ Append(s, Torn)[Len(s) + 1] = Torn /\ SubSeq(Append(s, Torn), 1, Len(s)) = s
  BY JournalFacts DEF Clean
<1>2. (Len(s) + 1) - 1 = Len(s)
  BY <1>1
<1>3. Whole' = SubSeq(Append(s, Torn), 1, Len(s))
  BY <1>1, <1>2 DEF Whole
<1> QED BY <1>1, <1>3

LEMMA CleanMore ==
  ASSUME NEW s, Clean(s), NEW x, x # Torn
  PROVE  Clean(Append(s, x))
<1>1. PICK t : t = Append(s, x)
  BY Zenon
<1>2. /\ Len(s) \in Nat /\ DOMAIN s = 1..Len(s) /\ IsJournal(t) /\ Len(t) = Len(s) + 1
      /\ t[Len(s) + 1] = x /\ \A i \in 1..Len(s) : t[i] = s[i]
  BY <1>1, JournalFacts DEF Clean
<1>3. DOMAIN t = 1..(Len(s) + 1)
  BY <1>2, JournalFacts
<1> QED BY <1>1, <1>2, <1>3 DEF Clean

\* A whole line, after what is whole.
LEMMA LineWritten ==
  ASSUME FileInv, NEW x, x # Torn, file' = Append(Whole, x)
  PROVE  /\ FileInv' /\ Whole' = file' /\ file' # <<>>
         /\ Replayed(Whole)' = Reread(Replayed(Whole), x)
<1>1. PICK s, t : s = Whole /\ t = Append(s, x)
  OBVIOUS
<1>2. Clean(s) /\ Clean(t) /\ IsJournal(s) /\ Sound(s, Replayed(s)) /\ t # <<>>
  BY <1>1, CleanMore, JournalFacts DEF FileInv, Clean
<1>3. Whole' = t
  BY <1>1, <1>2, WholeClean, Zenon
<1>4. Replayed(t) = Reread(Replayed(s), x)
  BY <1>1, <1>2, ReplayOneMore
<1>5. Sound(t, Replayed(t))
  BY <1>1, <1>2, <1>4, OneLineMore
<1>6. FileInv'
  BY <1>1, <1>2, <1>3, <1>5 DEF FileInv
<1> QED BY <1>1, <1>2, <1>3, <1>4, <1>6

LEMMA TailTorn ==
  ASSUME FileInv, file' = Append(Whole, Torn)
  PROVE  FileInv' /\ Whole' = Whole
<1>1. PICK s : s = Whole
  OBVIOUS
<1>2. Clean(s) /\ Sound(s, Replayed(s))
  BY <1>1 DEF FileInv
<1>3. Whole' = s
  BY <1>1, <1>2, WholeTorn
<1> QED BY <1>1, <1>2, <1>3 DEF FileInv

LEMMA NotTorn ==
  ASSUME NEW n, NEW rec, rec.kind \in Kinds
  PROVE  Line(n, rec) # Torn /\ Garbage # Torn /\ Line(n, rec).rec = rec /\ Line(n, rec).seq = n
<1>1. /\ Line(n, rec).rec = rec /\ Line(n, rec).seq = n
      /\ Torn.rec = [kind |-> "torn"] /\ Garbage.rec = [kind |-> "garbage"]
  BY DEF Line, Torn, Garbage
<1>2. [kind |-> "torn"].kind = "torn" /\ [kind |-> "garbage"].kind = "garbage"
  OBVIOUS
<1>3. rec.kind # "torn"
  BY DEF Kinds
<1> QED BY <1>1, <1>2, <1>3

\* What Written makes of the file.
LEMMA WrittenText ==
  ASSUME FileInv, NEW rec, rec.kind \in Kinds, NEW text \in {Torn, Line(atlas.count, rec)},
         file' = Written(text)
  PROVE  /\ FileInv'
         /\ \/ Whole' = Whole
            \/ /\ Whole' = file' /\ file' # <<>>
               /\ file = Whole => Replayed(Whole)' = Reread(Replayed(Whole), text)
         /\ text # Torn => Whole' = file' /\ file' # <<>>
         /\ text # Torn /\ file = Whole => Replayed(Whole)' = Reread(Replayed(Whole), text)
<1>1. CASE text = Torn
  <2>1. file' = Append(Whole, Torn)
    BY <1>1 DEF Written
  <2> QED BY <1>1, <2>1, TailTorn
<1>2. CASE text # Torn
  <2>1. text = Line(atlas.count, rec)
    BY <1>2
  <2>2. CASE file = Whole
    <3>1. file' = Append(Whole, text)
      BY <2>2 DEF Written
    <3> QED BY <1>2, <2>2, <3>1, LineWritten
  <2>3. CASE file # Whole
    <3>1. file' = Append(Whole, Garbage)
      BY <1>2, <2>3 DEF Written
    <3>2. Garbage # Torn
      BY NotTorn
    <3> QED BY <1>2, <2>3, <3>1, <3>2, LineWritten
  <2> QED BY <2>2, <2>3
<1> QED BY <1>1, <1>2

----------------------------------------------------------------------------
(* The operations.                                                         *)

LEMMA AppendRecordKeeps ==
  ASSUME AtlasInv, Alive, NEW rec, Admits(atlas, rec), AppendRecord(rec)
  PROVE  AtlasInv'
<1>0. /\ FileInv /\ faults \in Nat /\ rec.kind \in Kinds /\ Memory(atlas) /\ Backed(atlas)
      /\ faults = 0 => file = Whole /\ atlas = Replayed(Whole) /\ Replayed(Whole) # Down
  BY AdmittedKind DEF AtlasInv, Alive, Down
<1>1. PICK line : line = Line(atlas.count, rec)
  OBVIOUS
<1>2. line # Torn /\ line.seq = atlas.count /\ line.rec = rec
  BY <1>0, <1>1, NotTorn
<1>3. Reread(atlas, line) = Applied(atlas, rec)
  BY <1>2 DEF Reread, Alive
<1>4. Memory(Applied(atlas, rec)) /\ Backed(Applied(atlas, rec)) /\ Applied(atlas, rec) # Down
  BY <1>0, RereadBacked, MemoryUp, Zenon
<1>5. CASE file' = Written(line) /\ atlas' = Applied(atlas, rec) /\ faults' = faults
  <2>1. /\ FileInv' /\ Whole' = file' /\ file' # <<>>
        /\ file = Whole => Replayed(Whole)' = Reread(Replayed(Whole), line)
    BY <1>0, <1>1, <1>2, <1>5, WrittenText
  <2>2. faults' = 0 => atlas' = Replayed(Whole)'
    BY <1>0, <1>3, <1>5, <2>1
  <2>3. faults' = 0 =>
          /\ (Replayed(Whole) # Down)' /\ (file = Whole /\ file # <<>> /\ atlas = Replayed(Whole))'
    BY <1>4, <1>5, <2>1, <2>2
  <2> QED BY <1>0, <1>4, <1>5, <2>1, <2>3 DEF AtlasInv
<1>6. ASSUME NEW text \in {Torn, line}, file' = Written(text), atlas' = Down, faults' = faults
      PROVE  AtlasInv'
  <2>1. FileInv'
    BY <1>0, <1>1, <1>6, WrittenText
  <2>2. ~Alive'
    BY <1>6 DEF Alive, Down
  <2>3. faults = 0 => (Replayed(Whole) # Down)'
    <3>1. CASE text = Torn
      <4>1. file' = Append(Whole, Torn)
        BY <1>6, <3>1 DEF Written
      <4>2. Whole' = Whole
        BY <1>0, <4>1, TailTorn
      <4> QED BY <1>0, <4>2
    <3>2. CASE text = line
      <4>1. file = Whole => Replayed(Whole)' = Reread(Replayed(Whole), line)
        BY <1>0, <1>1, <1>2, <1>6, <3>2, WrittenText, Zenon
      <4> QED BY <1>0, <1>3, <1>4, <4>1
    <3> QED BY <1>6, <3>1, <3>2
  <2> QED BY <1>0, <1>6, <2>1, <2>2, <2>3 DEF AtlasInv
<1>7. ASSUME NEW text \in {Torn, line}, file' = Written(text), atlas' = atlas, faults' = faults + 1
      PROVE  AtlasInv'
  <2>1. FileInv'
    BY <1>0, <1>1, <1>7, WrittenText
  <2>2. faults' \in Nat /\ faults' # 0
    BY <1>0, <1>7
  <2> QED BY <1>0, <1>7, <2>1, <2>2 DEF AtlasInv
<1> QED
  BY <1>1, <1>5, <1>6, <1>7 DEF AppendRecord

\* What an operation lets through, _apply_record accepts.
LEMMA OperationsAdmitted ==
  ASSUME AtlasInv
  PROVE  /\ \A s \in Signals, subject \in Subjects, t \in 0..LastTime :
              IngestAlarm(s, subject, t) => Alive /\ \E rec : Admits(atlas, rec) /\ AppendRecord(rec)
         /\ \A r \in Signals : BuildRunRequest(r) =>
              Alive /\ \E rec : Admits(atlas, rec) /\ AppendRecord(rec)
         /\ \A r \in Signals, status \in {"completed", "failed"} : AcceptRunResult(r, status) =>
              Alive /\ \E rec : Admits(atlas, rec) /\ AppendRecord(rec)
         /\ \A r \in Signals : AcknowledgeRoute(r) =>
              Alive /\ \E rec : Admits(atlas, rec) /\ AppendRecord(rec)
<1>1. ASSUME NEW s \in Signals, NEW subject \in Subjects, NEW t \in 0..LastTime,
             IngestAlarm(s, subject, t)
      PROVE  Alive /\ \E rec : Admits(atlas, rec) /\ AppendRecord(rec)
  <2> DEFINE g == <<s.incident, subject>>
             current == atlas.groups[g]
             window == Later(current.seen + CoalesceWindow, current.until)
             upgrade == Seen(g) /\ s.tier > current.tier
             waiting == Seen(g) /\ current.route \in atlas.routes
             routed == ~Seen(g) \/ upgrade \/ (t > window /\ ~waiting)
             superseded == IF upgrade /\ waiting THEN current.route ELSE NoRoute
             rec == [kind |-> "alarm", cursor |-> atlas.cursor + 1, group |-> g, at |-> t,
                     until |-> IF routed THEN t + Cooldown ELSE current.until,
                     tier |-> IF routed THEN s.tier ELSE current.tier,
                     route |-> IF routed THEN s ELSE NoRoute,
                     superseded |-> superseded]
  <2>1. Alive /\ t >= current.seen /\ superseded \notin atlas.runs /\ AppendRecord(rec)
    BY <1>1, Zenon DEF IngestAlarm, MaySupersede
  <2>2. superseded # NoRoute => superseded \in atlas.routes
    BY Zenon
  <2> HIDE DEF superseded, routed, current, g
  <2>3. /\ rec.kind = "alarm" /\ rec.cursor = atlas.cursor + 1 /\ rec.group = g /\ rec.at = t
        /\ rec.superseded = superseded
    OBVIOUS
  <2> HIDE DEF rec
  <2>4. AdmitsAlarm(atlas, rec)
    BY <2>1, <2>2, <2>3 DEF AdmitsAlarm, current
  <2> QED BY <2>1, <2>3, <2>4 DEF Admits
<1>2. ASSUME NEW r \in Signals, BuildRunRequest(r)
      PROVE  Alive /\ \E rec : Admits(atlas, rec) /\ AppendRecord(rec)
  <2>1. Admits(atlas, [kind |-> "request", route |-> r])
    BY <1>2 DEF BuildRunRequest, Unrequested, Admits, AdmitsRequest
  <2> QED BY <1>2, <2>1 DEF BuildRunRequest
<1>3. ASSUME NEW r \in Signals, NEW status \in {"completed", "failed"}, AcceptRunResult(r, status)
      PROVE  Alive /\ \E rec : Admits(atlas, rec) /\ AppendRecord(rec)
  <2>1. Admits(atlas, [kind |-> "result", route |-> r, status |-> status])
    BY <1>3 DEF AcceptRunResult, Admits, AdmitsResult
  <2> QED BY <1>3, <2>1 DEF AcceptRunResult
<1>4. ASSUME NEW r \in Signals, AcknowledgeRoute(r)
      PROVE  Alive /\ \E rec : Admits(atlas, rec) /\ AppendRecord(rec)
  <2>1. Admits(atlas, [kind |-> "ack", route |-> r])
    BY <1>4 DEF AcknowledgeRoute, Settlable, Admits
  <2> QED BY <1>4, <2>1 DEF AcknowledgeRoute
<1> QED BY <1>1, <1>2, <1>3, <1>4

LEMMA OpenRuntimeKeeps ==
  ASSUME AtlasInv, OpenRuntime
  PROVE  AtlasInv'
<1>0. FileInv /\ faults \in Nat /\ faults' = faults /\ (faults = 0 => Replayed(Whole) # Down)
  BY DEF AtlasInv, OpenRuntime
<1>1. CASE Whole = <<>> /\ file' = <<Line(0, [kind |-> "init"])>>
           /\ atlas' = Applied(Blank, [kind |-> "init"])
  <2>1. PICK rec, line : rec = [kind |-> "init"] /\ line = Line(0, rec)
    BY Zenon
  <2>2. rec.kind = "init" /\ line # Torn /\ line.seq = 0 /\ line.rec = rec
    BY <2>1, NotTorn DEF Kinds
  <2>3. file' = Append(Whole, line)
    BY <1>1, <2>1
  <2>4. /\ FileInv' /\ Whole' = file' /\ file' # <<>>
        /\ Replayed(Whole)' = Reread(Blank, line)
    BY <1>0, <1>1, <2>2, <2>3, LineWritten, ReplayNothing
  <2>5. Reread(Blank, line) = Applied(Blank, rec) /\ Admits(Blank, rec)
    <3>1. Blank.up /\ Blank.count = 0
      BY DEF Blank
    <3> QED BY <2>2, <3>1 DEF Reread, Admits
  <2>6. Memory(Applied(Blank, rec)) /\ Backed(Applied(Blank, rec)) /\ Applied(Blank, rec) # Down
    BY <2>5, BlankSound, RereadBacked, MemoryUp, Zenon
  <2> QED BY <1>0, <1>1, <2>1, <2>4, <2>5, <2>6 DEF AtlasInv
<1>2. CASE Whole = <<>> /\ file' = <<Torn>> /\ atlas' = atlas
  <2>1. file' = Append(Whole, Torn)
    BY <1>2
  <2>2. FileInv' /\ Whole' = Whole
    BY <1>0, <2>1, TailTorn
  <2>3. ~Alive'
    BY <1>2 DEF OpenRuntime, Alive
  <2> QED BY <1>0, <1>2, <2>2, <2>3 DEF AtlasInv
<1>3. CASE Whole # <<>> /\ file' = Whole /\ atlas' = Replayed(Whole)
  <2>1. PICK s : s = Whole
    OBVIOUS
  <2>2. Clean(s) /\ Sound(s, Replayed(s)) /\ file' = s
    BY <1>0, <1>3, <2>1 DEF FileInv
  <2>3. Whole' = s
    BY <2>2, WholeClean
  <2>4. FileInv'
    BY <2>2, <2>3 DEF FileInv
  <2>5. atlas' = Down \/ (Memory(atlas') /\ Backed(atlas'))
    BY <1>3, <2>1, <2>2 DEF Sound
  <2>6. faults' = 0 => /\ (Replayed(Whole) # Down)'
                       /\ (file = Whole /\ file # <<>> /\ atlas = Replayed(Whole))'
    BY <1>0, <1>3, <2>1, <2>2, <2>3
  <2> QED BY <1>0, <2>4, <2>5, <2>6 DEF AtlasInv
<1> QED
  BY <1>1, <1>2, <1>3 DEF OpenRuntime

LEMMA AtlasNextInv == AtlasInv /\ [AtlasNext]_atlasVars => AtlasInv'
<1> SUFFICES ASSUME AtlasInv, [AtlasNext]_atlasVars PROVE AtlasInv'
  OBVIOUS
<1>1. CASE UNCHANGED atlasVars
  <2>1. file' = file /\ atlas' = atlas /\ faults' = faults
    BY <1>1 DEF atlasVars
  <2> QED BY <2>1, Zenon DEF AtlasInv, FileInv, Whole, Alive
<1>2. CASE CloseRuntime
  <2>1. file' = file /\ atlas' = Down /\ faults' = faults /\ ~Alive'
    BY <1>2 DEF CloseRuntime, Alive, Down
  <2>2. Whole' = Whole
    BY <2>1 DEF Whole
  <2> QED BY <2>1, <2>2 DEF AtlasInv, FileInv
<1>3. ASSUME Alive, \E rec : Admits(atlas, rec) /\ AppendRecord(rec) PROVE AtlasInv'
  BY <1>3, AppendRecordKeeps
<1>4. CASE OpenRuntime
  BY <1>4, OpenRuntimeKeeps
<1> QED
  BY <1>1, <1>2, <1>3, <1>4, OperationsAdmitted DEF AtlasNext

LEMMA AtlasInitInv == AtlasInit => AtlasInv
<1> SUFFICES ASSUME AtlasInit PROVE AtlasInv
  OBVIOUS
<1>1. file = <<>> /\ atlas = Down /\ faults = 0 /\ Whole = <<>> /\ ~Alive
  BY DEF AtlasInit, Whole, Alive, Down
<1>2. Clean(<<>>)
  BY DEF Clean, IsJournal
<1>3. Replayed(Whole) = Blank
  BY <1>1, ReplayNothing
<1>4. Blank # Down
  BY BlankSound, MemoryUp, Zenon
<1> QED
  BY <1>1, <1>2, <1>3, <1>4, BlankSound DEF AtlasInv, FileInv

\* The whole lines of a runtime's file (_append, _load_or_initialize) are a sound journal
\* in every state, and as long as no fault was injected the memory of a live runtime is
\* what they replay to.
THEOREM AtlasInvariant == AtlasSpec => []AtlasInv
  BY AtlasInitInv, AtlasNextInv, PTL DEF AtlasSpec

\* As long as no append raised in a process that lived on, the journal can be read
\* back whatever crash cut its last line, and gives the memory of the live process.
THEOREM AtlasJournalReplays == AtlasSpec => []JournalReplays
<1>1. AtlasInv => JournalReplays
  BY DEF AtlasInv, JournalReplays
<1> QED BY <1>1, AtlasInvariant, PTL

\* A run keeps its route until its result is in, and a route is handed out once.
THEOREM AtlasRunsBacked == AtlasSpec => []RunsBacked
<1>1. AtlasInv => RunsBacked
  <2> SUFFICES ASSUME AtlasInv, Alive PROVE
        /\ atlas.runs \subseteq atlas.routes \ DOMAIN atlas.results
        /\ faults = 0 => \A k, n \in DOMAIN file :
             file[k].rec.kind = "request" /\ file[k].rec = file[n].rec => k = n
    BY DEF RunsBacked
  <2>1. atlas # Down
    BY DEF Alive, Down
  <2>2. Backed(atlas)
    BY <2>1 DEF AtlasInv
  <2>3. faults = 0 => file = Whole /\ Requested(Whole, Replayed(Whole))
    BY DEF AtlasInv, FileInv, Sound
  <2> QED BY <2>2, <2>3 DEF Backed, Requested
<1> QED BY <1>1, AtlasInvariant, PTL

(***************************************************************************)
(* 2. Ledger                                                               *)
(*                                                                         *)
(* What makes the argument inductive is Tipped: in a ledger that verifies, *)
(* the last row of a source is the one with its highest sequence number,   *)
(* so what append compares with is what verify will compare with.  A batch *)
(* of any length is covered, one AppendOne at a time, by keeping the rows  *)
(* of the open transaction as good as the committed ones.                  *)
(***************************************************************************)
IsRows(rows) == \E S : rows \in Seq(S) /\ \A e \in S : e.seq \in Nat

\* Every source that has rows has a last one, and it has the highest number.
Tipped(rows) ==
  \A s : Of(rows, s) = {}
           \/ \E n \in Of(rows, s) :
                \A k \in Of(rows, s) \ {n} : k < n /\ rows[k].seq < rows[n].seq

Good(rows) == IsRows(rows) /\ Tipped(rows) /\ Verified(rows)

OpenTx ==
  Locked =>
    /\ tx = [by |-> tx.by, rows |-> tx.rows, batch |-> tx.batch, at |-> tx.at]
    /\ Good(tx.rows)
    /\ Extends(log, tx.rows)
    /\ tx.at = 0 \/ /\ tx.at = Len(log)
                    /\ \/ tx.batch = <<>> /\ Len(tx.rows) = tx.at + 1
                       \/ Len(tx.rows) = tx.at /\ \E e : tx.batch = <<e>>

Drafted ==
  /\ mem = [w \in Writers |-> mem[w]]
  /\ \A w \in Writers : mem[w].step = "drafted" /\ mem[w].at # NoCheckpoint
                          => \E e : mem[w].batch = <<e>>

LedgerInv == Good(log) /\ OpenTx /\ Drafted /\ CheckpointsHold /\ DirectlyAfter

----------------------------------------------------------------------------
\* The tip _source_tip finds is the source's last row.
LEMMA TipIsLast ==
  ASSUME NEW rows, IsRows(rows), NEW s,
         NEW n \in Of(rows, s), \A k \in Of(rows, s) \ {n} : k < n /\ rows[k].seq < rows[n].seq
  PROVE  Tip(rows, s) = n
<1>1. PICK S : rows \in Seq(S) /\ \A e \in S : e.seq \in Nat
  BY DEF IsRows
<1>2. \A k \in Of(rows, s) : rows[k].seq \in Nat
  BY <1>1 DEF Of
<1>3. \A j \in Of(rows, s) : rows[j].seq <= rows[n].seq
  BY <1>2
<1>4. \A k \in Of(rows, s) : (\A j \in Of(rows, s) : rows[j].seq <= rows[k].seq) => k = n
  BY <1>2
<1> QED
  BY <1>3, <1>4 DEF Tip

\* An event that fits what append checks keeps the ledger verifiable.
LEMMA AppendGood ==
  ASSUME NEW rows, Good(rows), NEW e, Fits(rows, e)
  PROVE  Good(Append(rows, e)) /\ Extends(rows, Append(rows, e))
<1> DEFINE new == Append(rows, e)
<1> DEFINE end == Len(rows) + 1
<1> DEFINE s == e.source
<1>1. PICK S : rows \in Seq(S) /\ \A x \in S : x.seq \in Nat
  BY DEF Good, IsRows
<1>2. /\ Len(rows) \in Nat /\ DOMAIN rows = 1..Len(rows)
      /\ Len(new) = end /\ DOMAIN new = 1..end
      /\ new[end] = e
      /\ \A k \in 1..Len(rows) : new[k] = rows[k]
      /\ \A k \in 1..Len(rows) : rows[k].seq \in Nat
  BY <1>1
<1>3. Of(rows, s) = {}
        \/ \E n \in Of(rows, s) : \A k \in Of(rows, s) \ {n} : k < n /\ rows[k].seq < rows[n].seq
  BY DEF Good, Tipped
<1>4. ASSUME Of(rows, s) # {}
      PROVE  \E n \in Of(rows, s) : /\ \A k \in Of(rows, s) : k <= n /\ rows[k].seq <= rows[n].seq
                                    /\ e.seq = rows[n].seq + 1 /\ e.prev = Digest(rows[n])
  <2>1. PICK n \in Of(rows, s) : \A k \in Of(rows, s) \ {n} : k < n /\ rows[k].seq < rows[n].seq
    BY <1>3, <1>4
  <2>2. Tip(rows, s) = n
    BY <2>1, TipIsLast DEF Good
  <2>3. e.seq = rows[n].seq + 1 /\ e.prev = Digest(rows[n])
    BY <2>2, <1>4 DEF Fits, NextSeq, NextPrev
  <2>4. \A k \in Of(rows, s) : k \in Nat /\ rows[k].seq \in Nat
    BY <1>2 DEF Of
  <2>5. \A k \in Of(rows, s) : k <= n /\ rows[k].seq <= rows[n].seq
    BY <2>1, <2>4
  <2> QED
    BY <2>3, <2>5
<1>5. Of(rows, s) = {} => e.seq = 0 /\ e.prev = NoDigest
  BY DEF Fits, NextSeq, NextPrev
<1>6. e.seq \in Nat
  BY <1>2, <1>4, <1>5 DEF Of
<1>7. IsRows(new)
  <2>1. new \in Seq(S \cup {e}) /\ \A x \in S \cup {e} : x.seq \in Nat
    BY <1>1, <1>6
  <2> QED
    BY <2>1 DEF IsRows
<1>8. /\ Of(new, s) = Of(rows, s) \cup {end}
      /\ \A t : t # s => Of(new, t) = Of(rows, t)
  BY <1>2 DEF Of
<1> HIDE DEF new, end, s
<1>9. Tipped(new)
  <2> SUFFICES ASSUME NEW t, Of(new, t) # {}
               PROVE  \E n \in Of(new, t) :
                        \A k \in Of(new, t) \ {n} : k < n /\ new[k].seq < new[n].seq
    BY DEF Tipped
  <2>1. CASE t = s
    <3>1. \A k \in Of(rows, s) : k \in 1..Len(rows) /\ new[k] = rows[k]
      BY <1>2 DEF Of
    <3>2. \A k \in Of(rows, s) : k < end /\ new[k].seq < e.seq
      BY <1>2, <1>4, <1>6, <3>1 DEF end
    <3>3. end \in Of(new, s) /\ \A k \in Of(new, s) \ {end} : k < end /\ new[k].seq < new[end].seq
      BY <1>2, <1>8, <3>2
    <3> QED
      BY <2>1, <3>3
  <2>2. CASE t # s
    <3>1. Of(new, t) = Of(rows, t)
      BY <1>8, <2>2
    <3>2. PICK n \in Of(rows, t) : \A k \in Of(rows, t) \ {n} : k < n /\ rows[k].seq < rows[n].seq
      BY <3>1 DEF Good, Tipped
    <3>3. \A k \in Of(rows, t) : new[k] = rows[k]
      BY <1>2 DEF Of
    <3> QED
      BY <3>1, <3>2, <3>3
  <2> QED
    BY <2>1, <2>2
<1>10. Verified(new)
  <2> SUFFICES ASSUME NEW n \in DOMAIN new
               PROVE  Continues(new, n)
    BY DEF Verified
  <2> DEFINE earlier == {k \in 1..(n - 1) : new[k].source = new[n].source}
  <2>1. CASE n = end
    <3>1. earlier = Of(rows, s)
      BY <2>1, <1>2 DEF Of, end, s
    <3>2. \A k \in Of(rows, s) : new[k] = rows[k]
      BY <1>2 DEF Of
    <3>3. new[n] = e
      BY <2>1, <1>2
    <3>4. CASE Of(rows, s) = {}
      BY <3>1, <3>3, <3>4, <1>5 DEF Continues
    <3>5. CASE Of(rows, s) # {}
      <4>1. PICK m \in Of(rows, s) : /\ \A k \in Of(rows, s) : k <= m
                                     /\ e.seq = rows[m].seq + 1 /\ e.prev = Digest(rows[m])
        BY <3>5, <1>4
      <4> QED
        BY <3>1, <3>2, <3>3, <4>1 DEF Continues
    <3> QED
      BY <3>4, <3>5
  <2>2. CASE n # end
    <3>1. n \in 1..Len(rows) /\ \A k \in 1..n : new[k] = rows[k]
      BY <2>2, <1>2 DEF end
    <3>2. Continues(rows, n)
      BY <3>1, <1>2 DEF Good, Verified
    <3>3. earlier = {k \in 1..(n - 1) : rows[k].source = rows[n].source}
      BY <3>1
    <3>4. \A k \in earlier : new[k] = rows[k]
      BY <3>1
    <3>5. new[n] = rows[n]
      BY <3>1
    <3> QED
      BY <3>2, <3>3, <3>4, <3>5, Zenon DEF Continues
  <2> QED
    BY <2>1, <2>2
<1>11. Extends(rows, new)
  BY <1>2 DEF Extends, end
<1> QED
  BY <1>7, <1>9, <1>10, <1>11 DEF Good, new

\* A ledger that only grew still has the roots its checkpoints were signed for.
LEMMA CheckpointsSurvive ==
  ASSUME NEW rows, NEW longer, Len(rows) \in Nat, Len(longer) \in Nat,
         DOMAIN rows = 1..Len(rows), Extends(rows, longer),
         NEW n \in 1..Len(rows)
  PROVE  n \in 1..Len(longer) /\ Digests(longer, n) = Digests(rows, n)
BY DEF Extends, Digests

LEMMA RowsLen ==
  ASSUME NEW rows, IsRows(rows)
  PROVE  Len(rows) \in Nat /\ DOMAIN rows = 1..Len(rows)
BY DEF IsRows

LEMMA ExtendsRefl ==
  ASSUME NEW rows, IsRows(rows)
  PROVE  Extends(rows, rows)
BY RowsLen DEF Extends

----------------------------------------------------------------------------
LEMMA InitInv == LedgerInit => LedgerInv
<1> SUFFICES ASSUME LedgerInit PROVE LedgerInv
  OBVIOUS
<1>1. Good(log)
  <2>1. <<>> \in Seq({}) /\ DOMAIN <<>> = {} /\ Len(<<>>) = 0
    OBVIOUS
  <2>2. IsRows(<<>>)
    BY <2>1, Zenon DEF IsRows
  <2>3. \A s : Of(<<>>, s) = {}
    BY <2>1 DEF Of
  <2> QED
    BY <2>1, <2>2, <2>3 DEF LedgerInit, Good, Tipped, Verified
<1>2. OpenTx
  BY DEF LedgerInit, OpenTx, Locked, NoTx
<1>3. Drafted
  BY DEF LedgerInit, Drafted, Idle
<1>4. CheckpointsHold /\ DirectlyAfter
  BY DEF LedgerInit, CheckpointsHold, DirectlyAfter
<1> QED
  BY <1>1, <1>2, <1>3, <1>4 DEF LedgerInv

\* A step that leaves the ledger and the transaction alone.
LEMMA MemoryStep ==
  ASSUME LedgerInv, UNCHANGED <<log, tx, issued, heirs>>, Drafted'
  PROVE  LedgerInv'
<1>1. Good(log') /\ CheckpointsHold' /\ DirectlyAfter'
  BY DEF LedgerInv, CheckpointsHold, DirectlyAfter
<1>2. OpenTx'
  BY DEF LedgerInv, OpenTx, Locked
<1> QED
  BY <1>1, <1>2 DEF LedgerInv

\* A step that gives up the transaction.
LEMMA RollbackStep ==
  ASSUME LedgerInv, tx' = NoTx, UNCHANGED <<log, issued, heirs>>, Drafted'
  PROVE  LedgerInv'
<1>1. OpenTx'
  BY DEF OpenTx, Locked, NoTx
<1>2. Good(log') /\ CheckpointsHold' /\ DirectlyAfter'
  BY DEF LedgerInv, CheckpointsHold, DirectlyAfter
<1> QED
  BY <1>1, <1>2 DEF LedgerInv

\* Writer w turns to something that is not a draft at a checkpoint.
LEMMA DraftedStep ==
  ASSUME Drafted, NEW w \in Writers, NEW m, Goto(w, m),
         m.step # "drafted" \/ m.at = NoCheckpoint \/ \E e : m.batch = <<e>>
  PROVE  Drafted'
BY Zenon DEF Drafted, Goto

LEMMA NextInv == LedgerInv /\ [LedgerNext]_ledgerVars => LedgerInv'
<1> SUFFICES ASSUME LedgerInv, [LedgerNext]_ledgerVars PROVE LedgerInv'
  OBVIOUS
<1> USE DEF LedgerInv
<1>0. Idle.step = "idle"
  BY DEF Idle
<1>1. CASE UNCHANGED ledgerVars
  <2>1. Drafted'
    BY <1>1 DEF Drafted, ledgerVars
  <2> QED
    BY <1>1, <2>1, MemoryStep DEF ledgerVars
<1>2. CASE Checkpoint
  <2>1. Len(log) \in Nat /\ DOMAIN log = 1..Len(log) /\ log # <<>>
    BY <1>2, RowsLen DEF Good, Checkpoint
  <2>2. Len(log) \in 1..Len(log)
    BY <2>1, <1>2 DEF Good, IsRows
  <2>3. CheckpointsHold'
    BY <1>2, <2>2 DEF Checkpoint, CheckpointsHold, CheckpointOf, Digests, Digest
  <2>4. Good(log') /\ DirectlyAfter' /\ Drafted'
    BY <1>2 DEF Checkpoint, DirectlyAfter, Drafted
  <2>5. OpenTx'
    BY <1>2 DEF Checkpoint, OpenTx, Locked
  <2> QED
    BY <2>3, <2>4, <2>5
<1>3. ASSUME NEW w \in Writers, Draft(w)
      PROVE  LedgerInv'
  <2>1. Drafted'
    <3>1. CASE \E b \in Batches(w) : Goto(w, [step |-> "drafted", batch |-> b, at |-> NoCheckpoint])
      BY <3>1, DraftedStep
    <3>2. CASE \E s \in Sources, c \in issued :
                 Goto(w, [step |-> "drafted", batch |-> <<Event(log, s, w)>>, at |-> c])
      BY <3>2, DraftedStep
    <3> QED
      BY <1>3, <3>1, <3>2 DEF Draft
  <2> QED
    BY <1>3, <2>1, MemoryStep, Zenon DEF Draft
<1>4. ASSUME NEW w \in Writers, Begin(w)
      PROVE  LedgerInv'
  <2> DEFINE c == mem[w].at
  <2>1. CASE Goto(w, Idle) /\ UNCHANGED tx
    BY <2>1, <1>4, <1>0, DraftedStep, MemoryStep, Zenon DEF Begin
  <2>2. CASE /\ c = NoCheckpoint \/ (Verified(log) /\ Current(log, c))
             /\ tx' = [by |-> {w}, rows |-> log, batch |-> mem[w].batch, at |-> c.size]
             /\ Goto(w, [step |-> "writing"])
    <3>1. Drafted'
      BY <2>2, DraftedStep
    <3>2. Extends(log, log)
      BY ExtendsRefl DEF Good
    <3>3. c = NoCheckpoint => c.size = 0
      BY DEF NoCheckpoint
    <3>4. c # NoCheckpoint => c.size = Len(log) /\ \E e : mem[w].batch = <<e>>
      BY <1>4, <2>2, Zenon DEF Begin, Current, Drafted
    <3>5. log' = log /\ issued' = issued /\ heirs' = heirs
      BY <1>4 DEF Begin
    <3>6. /\ tx'.by = {w} /\ tx'.rows = log /\ tx'.batch = mem[w].batch /\ tx'.at = c.size
          /\ tx' = [by |-> tx'.by, rows |-> tx'.rows, batch |-> tx'.batch, at |-> tx'.at]
      BY <2>2
    <3>7. OpenTx'
      BY <3>2, <3>3, <3>4, <3>5, <3>6, Zenon DEF OpenTx
    <3>8. Good(log)' /\ CheckpointsHold' /\ DirectlyAfter'
      BY <3>5 DEF CheckpointsHold, DirectlyAfter
    <3> QED
      BY <3>1, <3>7, <3>8
  <2> QED
    BY <1>4, <2>1, <2>2, Zenon DEF Begin
<1>5. ASSUME NEW w \in Writers, AppendOne(w)
      PROVE  LedgerInv'
  <2> DEFINE e == Head(tx.batch)
  <2>0. Locked /\ tx.batch # <<>>
    BY <1>5 DEF AppendOne, Has, Locked
  <2>1. CASE Rollback(w)
    BY <2>1, <1>5, <1>0, DraftedStep, RollbackStep DEF AppendOne, Rollback
  <2>2. CASE /\ Fits(tx.rows, e)
             /\ tx' = [tx EXCEPT !.rows = Append(@, e), !.batch = Tail(@)]
             /\ UNCHANGED mem
    <3>1. Good(Append(tx.rows, e)) /\ Extends(tx.rows, Append(tx.rows, e))
      BY <2>0, <2>2, AppendGood DEF OpenTx
    <3>2. /\ tx'.by = tx.by /\ tx'.rows = Append(tx.rows, e) /\ tx'.batch = Tail(tx.batch)
          /\ tx'.at = tx.at
          /\ tx' = [by |-> tx'.by, rows |-> tx'.rows, batch |-> tx'.batch, at |-> tx'.at]
      BY <2>0, <2>2, Zenon DEF OpenTx
    <3>3. log' = log /\ issued' = issued /\ heirs' = heirs
      BY <1>5 DEF AppendOne
    <3>4. Extends(log, Append(tx.rows, e))
      <4>1. Len(log) \in Nat /\ Len(tx.rows) \in Nat /\ DOMAIN log = 1..Len(log)
            /\ DOMAIN tx.rows = 1..Len(tx.rows) /\ Len(Append(tx.rows, e)) \in Nat
        BY <2>0, <3>1, RowsLen DEF Good, OpenTx
      <4> QED
        BY <2>0, <3>1, <4>1 DEF Extends, OpenTx
    <3>5. tx.at # 0 => /\ tx.at = Len(log)
                       /\ Tail(tx.batch) = <<>>
                       /\ Len(Append(tx.rows, e)) = tx.at + 1
      <4>1. SUFFICES ASSUME tx.at # 0
                     PROVE  /\ tx.at = Len(log)
                            /\ Tail(tx.batch) = <<>>
                            /\ Len(Append(tx.rows, e)) = tx.at + 1
        OBVIOUS
      <4>2. PICK x : tx.batch = <<x>>
        BY <2>0, <4>1 DEF OpenTx
      <4>3. tx.at = Len(log) /\ Len(tx.rows) = tx.at
        BY <2>0, <4>1, <4>2 DEF OpenTx
      <4>4. Tail(<<x>>) = <<>>
        OBVIOUS
      <4>5. PICK S : tx.rows \in Seq(S)
        BY <2>0 DEF OpenTx, Good, IsRows
      <4>6. Len(Append(tx.rows, e)) = Len(tx.rows) + 1
        BY <4>5
      <4> QED
        BY <4>2, <4>3, <4>4, <4>6
    <3>6. OpenTx'
      BY <3>1, <3>2, <3>3, <3>4, <3>5, Zenon DEF OpenTx
    <3>7. Good(log)' /\ CheckpointsHold' /\ DirectlyAfter' /\ Drafted'
      BY <2>2, <3>3 DEF CheckpointsHold, DirectlyAfter, Drafted
    <3> QED
      BY <3>6, <3>7
  <2> QED
    BY <1>5, <2>1, <2>2 DEF AppendOne
<1>6. ASSUME NEW w \in Writers, Commit(w)
      PROVE  LedgerInv'
  <2>1. Locked /\ tx.batch = <<>> /\ log' = tx.rows /\ issued' = issued /\ tx' = NoTx /\ Goto(w, Idle)
    BY <1>6 DEF Commit, Has, Locked, Rollback
  <2>2. Good(log)'
    BY <2>1 DEF OpenTx
  <2>3. OpenTx'
    BY <2>1 DEF OpenTx, Locked, NoTx
  <2>4. Drafted'
    BY <2>1, <1>0, DraftedStep
  <2>5. /\ Len(log) \in Nat /\ DOMAIN log = 1..Len(log)
        /\ Len(tx.rows) \in Nat /\ Extends(log, tx.rows)
    BY <2>1, RowsLen DEF Good, OpenTx
  <2>6. CheckpointsHold'
    BY <2>1, <2>5, CheckpointsSurvive DEF CheckpointsHold
  <2>7. tx.at # 0 => Len(tx.rows) = tx.at + 1
    BY <2>1 DEF OpenTx
  <2>8. DirectlyAfter'
    BY <1>6, <2>7 DEF Commit, DirectlyAfter
  <2> QED
    BY <2>2, <2>3, <2>4, <2>6, <2>8
<1>7. ASSUME NEW w \in Writers, NEW e \in Enrollments, BeginBind(w, e)
      PROVE  LedgerInv'
  BY <1>7, DraftedStep, MemoryStep DEF BeginBind
<1>8. ASSUME NEW w \in Writers, NEW e \in Enrollments, NEW c \in issued, BeginMigrate(w, e, c)
      PROVE  LedgerInv'
  BY <1>8, DraftedStep, MemoryStep DEF BeginMigrate
<1>9. ASSUME NEW w \in Writers, CreateTrust(w)
      PROVE  LedgerInv'
  <2>1. CASE Goto(w, [mem[w] EXCEPT !.step = "inserting"])
    <3>1. Drafted'
      <4> DEFINE m == [mem[w] EXCEPT !.step = "inserting"]
      <4>1. mem[w].step = "storing"
        BY <1>9 DEF CreateTrust
      <4>2. m.step # "drafted"
        BY <4>1
      <4>3. mem' = [mem EXCEPT ![w] = m]
        BY <2>1 DEF Goto
      <4> HIDE DEF m
      <4> QED
        BY <4>2, <4>3, Zenon DEF Drafted
    <3> QED
      BY <1>9, <3>1, MemoryStep DEF CreateTrust
  <2>2. CASE Goto(w, Idle)
    BY <2>2, <1>9, <1>0, DraftedStep, MemoryStep DEF CreateTrust
  <2> QED
    BY <1>9, <2>1, <2>2 DEF CreateTrust
<1>10. ASSUME NEW w \in Writers, InsertTrust(w)
       PROVE  LedgerInv'
  BY <1>10, <1>0, DraftedStep, MemoryStep DEF InsertTrust
<1>11. ASSUME NEW w \in Writers, Crash(w)
       PROVE  LedgerInv'
  <2>1. Drafted'
    BY <1>11, <1>0, DraftedStep DEF Crash
  <2> QED
    BY <1>11, <2>1, MemoryStep, RollbackStep DEF Crash
<1> QED
  BY <1>1, <1>2, <1>3, <1>4, <1>5, <1>6, <1>7, <1>8, <1>9, <1>10, <1>11, Zenon DEF LedgerNext

----------------------------------------------------------------------------
\* The inductive invariant holds in every reachable state of the ledger.
THEOREM LedgerInvariant == LedgerSpec => []LedgerInv
BY InitInv, NextInv, PTL DEF LedgerSpec

\* The ledger verifies after every transaction of any number of writers.
THEOREM LedgerAlwaysVerifies == LedgerSpec => []AlwaysVerifies
<1>1. LedgerInv => AlwaysVerifies
  BY DEF LedgerInv, Good, AlwaysVerifies
<1> QED
  BY <1>1, LedgerInvariant, PTL

\* Every checkpoint ever signed agrees with the ledger's first events.
THEOREM LedgerCheckpointsHold == LedgerSpec => []CheckpointsHold
<1>1. LedgerInv => CheckpointsHold
  BY DEF LedgerInv
<1> QED
  BY <1>1, LedgerInvariant, PTL

\* append_at_checkpoint puts its event directly after what the checkpoint covers.
THEOREM LedgerDirectlyAfter == LedgerSpec => []DirectlyAfter
<1>1. LedgerInv => DirectlyAfter
  BY DEF LedgerInv
<1> QED
  BY <1>1, LedgerInvariant, PTL

\* Committed events stay as and where they are.
THEOREM LedgerAppendOnly == LedgerSpec => AppendOnly
<1>1. LedgerInv /\ [LedgerNext]_ledgerVars => [Extends(log, log')]_ledgerVars
  <2> SUFFICES ASSUME LedgerInv, LedgerNext PROVE Extends(log, log')
    OBVIOUS
  <2>1. Extends(log, log)
    BY ExtendsRefl DEF LedgerInv, Good
  <2>2. ASSUME NEW w \in Writers, Commit(w)
        PROVE  Extends(log, log')
    BY <2>2 DEF Commit, Has, Locked, LedgerInv, OpenTx
  <2>3. CASE log' = log
    BY <2>1, <2>3
  <2> QED
    BY <2>2, <2>3, Zenon DEF LedgerNext, Checkpoint, Draft, Begin, AppendOne, BeginBind, BeginMigrate,
       CreateTrust, InsertTrust, Crash
<1> QED
  BY <1>1, LedgerInvariant, PTL DEF LedgerSpec, AppendOnly

----------------------------------------------------------------------------
(* Native trust: CREATE TABLE is the lock, at most one writer is past it.  *)

TrustInv ==
  /\ mem = [w \in Writers |-> mem[w]]
  /\ \A w \in Writers : mem[w].step = "inserting" => native = "empty"
  /\ \A v, w \in Writers : mem[v].step = "inserting" /\ mem[w].step = "inserting" => v = w

\* A writer turns to something else and the table stays as it is.
LEMMA TrustStep ==
  ASSUME TrustInv, NEW w \in Writers, NEW m, Goto(w, m), m.step # "inserting", UNCHANGED native
  PROVE  TrustInv'
BY DEF TrustInv, Goto

LEMMA TrustNext == TrustInv /\ [LedgerNext]_ledgerVars => TrustInv'
<1> SUFFICES ASSUME TrustInv, [LedgerNext]_ledgerVars PROVE TrustInv'
  OBVIOUS
<1>0. Idle.step = "idle"
  BY DEF Idle
<1>1. CASE UNCHANGED <<mem, native>>
  BY <1>1 DEF TrustInv
<1>2. ASSUME NEW w \in Writers, Draft(w)
      PROVE  TrustInv'
  <2>1. UNCHANGED native /\ \E m : m.step = "drafted" /\ Goto(w, m)
    BY <1>2, Zenon DEF Draft
  <2> QED
    BY <2>1, TrustStep
<1>3. ASSUME NEW w \in Writers, Begin(w)
      PROVE  TrustInv'
  BY <1>3, <1>0, TrustStep DEF Begin
<1>4. ASSUME NEW w \in Writers, AppendOne(w) \/ Commit(w)
      PROVE  TrustInv'
  BY <1>4, <1>0, <1>1, TrustStep DEF AppendOne, Commit, Rollback
<1>5. ASSUME NEW w \in Writers, NEW e \in Enrollments,
             BeginBind(w, e) \/ \E c \in issued : BeginMigrate(w, e, c)
      PROVE  TrustInv'
  BY <1>5, TrustStep DEF BeginBind, BeginMigrate
<1>6. ASSUME NEW w \in Writers, CreateTrust(w)
      PROVE  TrustInv'
  <2>1. CASE Goto(w, Idle) /\ UNCHANGED native
    BY <2>1, <1>0, TrustStep
  <2>2. CASE native = "absent" /\ native' = "empty" /\ Goto(w, [mem[w] EXCEPT !.step = "inserting"])
    <3>1. \A v \in Writers : mem[v].step # "inserting"
      BY <2>2 DEF TrustInv
    <3>2. \A v \in Writers \ {w} : mem'[v].step # "inserting"
      BY <2>2, <3>1 DEF Goto, TrustInv
    <3> QED
      BY <2>2, <3>2 DEF Goto, TrustInv
  <2> QED
    BY <1>6, <2>1, <2>2 DEF CreateTrust, TableMissing
<1>7. ASSUME NEW w \in Writers, InsertTrust(w)
      PROVE  TrustInv'
  <2>1. mem' = [mem EXCEPT ![w] = Idle] /\ mem[w].step = "inserting"
    BY <1>7 DEF InsertTrust, Goto
  <2>2. \A v \in Writers : mem'[v].step # "inserting"
    BY <2>1, <1>0 DEF TrustInv
  <2> QED
    BY <2>1, <2>2 DEF TrustInv
<1>8. ASSUME NEW w \in Writers, Crash(w)
      PROVE  TrustInv'
  BY <1>8, <1>0, TrustStep DEF Crash
<1>9. CASE Checkpoint \/ UNCHANGED ledgerVars
  BY <1>9, <1>1 DEF Checkpoint, ledgerVars
<1> QED
  BY <1>2, <1>3, <1>4, <1>5, <1>6, <1>7, <1>8, <1>9 DEF LedgerNext

\* No race or crash of binders replaces an enrollment that is in the table.
THEOREM LedgerBindingStable == LedgerSpec => BindingStable
<1>1. LedgerInit => TrustInv
  BY DEF LedgerInit, TrustInv, Idle
<1>2. TrustInv /\ [LedgerNext]_ledgerVars => [(native \in Enrollments) => (native' = native)]_ledgerVars
  <2> SUFFICES ASSUME TrustInv, LedgerNext, native \in Enrollments PROVE native' = native
    OBVIOUS
  <2>1. native # "empty" /\ native # "absent"
    BY EnrollmentsAssumption
  <2>2. \A w \in Writers : ~InsertTrust(w)
    BY <2>1 DEF InsertTrust, TrustInv
  <2>3. \A w \in Writers : CreateTrust(w) => native' = native
    BY <2>1 DEF CreateTrust, TableMissing
  <2> QED
    BY <2>2, <2>3, Zenon DEF LedgerNext, Checkpoint, Draft, Begin, AppendOne, Commit, BeginBind,
       BeginMigrate, Crash
<1> QED
  BY <1>1, <1>2, TrustNext, PTL DEF LedgerSpec, BindingStable

(***************************************************************************)
(* 3. Merkle                                                               *)
(*                                                                         *)
(* Each loop is unfolded first (LevelRounds, AscentRounds, VerifierRounds):*)
(* a function that satisfies its recursion exists, by the least length     *)
(* without one.  A path is then followed twice: down from the root, where  *)
(* the hash of two nodes is that of no others, so that every node on the   *)
(* way is the one of the tree; and up from the leaf.                       *)
(***************************************************************************)

\* Induction over the rounds of a loop, from the first round on and from the last one
\* back.
LEMMA RoundsUp ==
  ASSUME NEW N \in Nat, NEW T, 0 \in T, \A n \in 0..(N - 1) : n \in T => n + 1 \in T
  PROVE  \A n \in 0..N : n \in T
<1> DEFINE Bad == {n \in 0..N : n \notin T}
<1> SUFFICES ASSUME Bad # {} PROVE FALSE
  OBVIOUS
<1>1. Bad \subseteq Nat
  OBVIOUS
<1>2. PICK k \in Bad : \A m \in Bad : k <= m
  <2> HIDE DEF Bad
  <2> QED BY <1>1, LeastNat, Zenon
<1>3. k # 0 /\ k - 1 \in 0..(N - 1) /\ k - 1 \in T
  BY <1>2
<1>4. (k - 1) + 1 = k
  BY <1>2
<1> QED BY <1>2, <1>3, <1>4

LEMMA RoundsDown ==
  ASSUME NEW N \in Nat, NEW T, N \in T, \A n \in 0..(N - 1) : n + 1 \in T => n \in T
  PROVE  \A n \in 0..N : n \in T
<1> DEFINE U == {m \in 0..N : N - m \in T}
<1>1. 0 \in U
  OBVIOUS
<1>2. \A m \in 0..(N - 1) : m \in U => m + 1 \in U
  <2> SUFFICES ASSUME NEW m \in 0..(N - 1), N - m \in T PROVE N - (m + 1) \in T
    OBVIOUS
  <2>1. N - (m + 1) \in 0..(N - 1) /\ (N - (m + 1)) + 1 = N - m
    OBVIOUS
  <2> QED BY <2>1
<1>3. \A m \in 0..N : m \in U
  <2> HIDE DEF U
  <2> QED BY <1>1, <1>2, RoundsUp, Zenon
<1>4. \A n \in 0..N : N - n \in 0..N /\ N - (N - n) = n
  OBVIOUS
<1> QED BY <1>3, <1>4

\* The loop of merkle_root: one level after the other.
LEMMA LevelRounds ==
  ASSUME NEW digests, Len(digests) \in Nat
  PROVE  /\ Levels(digests)[0] = [k \in 1..Len(digests) |-> Leaf(digests[k])]
         /\ \A n \in 0..(Len(digests) - 1) : Levels(digests)[n + 1] = (IF Len(Levels(digests)[n]) <= 1 THEN Levels(digests)[n] ELSE Up(Levels(digests)[n]))
<1> DEFINE T(e, m) == (IF Len(e) <= 1 THEN e ELSE Up(e))
           init == [k \in 1..Len(digests) |-> Leaf(digests[k])]
           N == Len(digests)
           Runs(f, k) == f = [n \in 0..k |-> IF n = 0 THEN init ELSE T(f[n - 1], n)]
           Bad == {k \in Nat : ~\E f : Runs(f, k)}
           loop == Levels(digests)
<1>0. (\E f : Runs(f, N)) => Runs(loop, N)
  BY Zenon DEF Levels
<1>a. N \in Nat
  OBVIOUS
<1> HIDE DEF T, loop, init, N
<1>1. ASSUME NEW k \in Nat, k > 0 => \E f : Runs(f, k - 1) PROVE \E f : Runs(f, k)
  <2>1. CASE k = 0
    <3> DEFINE f == [n \in 0..0 |-> init]
    <3>1. f = [n \in 0..0 |-> IF n = 0 THEN init ELSE T(f[n - 1], n)]
      OBVIOUS
    <3> QED BY <2>1, <3>1, Zenon
  <2>2. CASE k > 0
    <3>1. PICK g : Runs(g, k - 1)
      BY <1>1, <2>2
    <3> DEFINE f == [n \in 0..k |-> IF n = k THEN T(g[k - 1], k) ELSE g[n]]
    <3>2. ASSUME NEW n \in 0..k PROVE f[n] = IF n = 0 THEN init ELSE T(f[n - 1], n)
      <4>1. CASE n = k
        BY <2>2, <4>1
      <4>2. CASE n # k
        <5>1. n \in 0..(k - 1) /\ f[n] = g[n]
          BY <4>2
        <5>2. n # 0 => f[n - 1] = g[n - 1]
          BY <5>1
        <5> QED BY <3>1, <5>1, <5>2
      <4> QED BY <4>1, <4>2
    <3>3. Runs(f, k)
      BY <3>2
    <3> QED BY <3>3, Zenon
  <2> QED BY <2>1, <2>2
<1> HIDE DEF Runs
<1>2. Bad = {}
  <2> SUFFICES ASSUME Bad # {} PROVE FALSE
    BY Zenon
  <2>1. PICK k \in Bad : \A m \in Bad : k <= m
    BY LeastNat, Zenon
  <2>2. k > 0 => \E f : Runs(f, k - 1)
    BY <2>1
  <2> QED BY <1>1, <2>1, <2>2
<1>3. Runs(loop, N)
  BY <1>0, <1>a, <1>2
<1>4. \A n \in 0..N : loop[n] = IF n = 0 THEN init ELSE T(loop[n - 1], n)
  BY <1>3, Zenon DEF Runs
<1>5. loop[0] = init
  BY <1>a, <1>4
<1>6. \A n \in 0..(N - 1) : loop[n + 1] = T(loop[n], n + 1)
  <2> SUFFICES ASSUME NEW n \in 0..(N - 1) PROVE loop[n + 1] = T(loop[n], n + 1)
    OBVIOUS
  <2>1. n + 1 \in 0..N /\ n + 1 # 0 /\ (n + 1) - 1 = n
    BY <1>a
  <2> QED BY <1>4, <2>1
<1> QED BY <1>5, <1>6, Zenon DEF loop, T, init, N

\* The loop of merkle_inclusion_path.
LEMMA AscentRounds ==
  ASSUME NEW digests, NEW j, Len(digests) \in Nat
  PROVE  /\ Ascent(digests, j)[0] = [index |-> j, path |-> <<>>]
         /\ \A n \in 0..(Len(digests) - 1) : Ascent(digests, j)[n + 1] = Ascend(Levels(digests)[n], Ascent(digests, j)[n])
<1> DEFINE T(e, m) == Ascend(Levels(digests)[m - 1], e)
           init == [index |-> j, path |-> <<>>]
           N == Len(digests)
           Runs(f, k) == f = [n \in 0..k |-> IF n = 0 THEN init ELSE T(f[n - 1], n)]
           Bad == {k \in Nat : ~\E f : Runs(f, k)}
           loop == Ascent(digests, j)
<1>0. (\E f : Runs(f, N)) => Runs(loop, N)
  BY Zenon DEF Ascent
<1>a. N \in Nat
  OBVIOUS
<1> HIDE DEF T, loop, init, N
<1>1. ASSUME NEW k \in Nat, k > 0 => \E f : Runs(f, k - 1) PROVE \E f : Runs(f, k)
  <2>1. CASE k = 0
    <3> DEFINE f == [n \in 0..0 |-> init]
    <3>1. f = [n \in 0..0 |-> IF n = 0 THEN init ELSE T(f[n - 1], n)]
      OBVIOUS
    <3> QED BY <2>1, <3>1, Zenon
  <2>2. CASE k > 0
    <3>1. PICK g : Runs(g, k - 1)
      BY <1>1, <2>2
    <3> DEFINE f == [n \in 0..k |-> IF n = k THEN T(g[k - 1], k) ELSE g[n]]
    <3>2. ASSUME NEW n \in 0..k PROVE f[n] = IF n = 0 THEN init ELSE T(f[n - 1], n)
      <4>1. CASE n = k
        BY <2>2, <4>1
      <4>2. CASE n # k
        <5>1. n \in 0..(k - 1) /\ f[n] = g[n]
          BY <4>2
        <5>2. n # 0 => f[n - 1] = g[n - 1]
          BY <5>1
        <5> QED BY <3>1, <5>1, <5>2
      <4> QED BY <4>1, <4>2
    <3>3. Runs(f, k)
      BY <3>2
    <3> QED BY <3>3, Zenon
  <2> QED BY <2>1, <2>2
<1> HIDE DEF Runs
<1>2. Bad = {}
  <2> SUFFICES ASSUME Bad # {} PROVE FALSE
    BY Zenon
  <2>1. PICK k \in Bad : \A m \in Bad : k <= m
    BY LeastNat, Zenon
  <2>2. k > 0 => \E f : Runs(f, k - 1)
    BY <2>1
  <2> QED BY <1>1, <2>1, <2>2
<1>3. Runs(loop, N)
  BY <1>0, <1>a, <1>2
<1>4. \A n \in 0..N : loop[n] = IF n = 0 THEN init ELSE T(loop[n - 1], n)
  BY <1>3, Zenon DEF Runs
<1>5. loop[0] = init
  BY <1>a, <1>4
<1>6. \A n \in 0..(N - 1) : loop[n + 1] = T(loop[n], n + 1)
  <2> SUFFICES ASSUME NEW n \in 0..(N - 1) PROVE loop[n + 1] = T(loop[n], n + 1)
    OBVIOUS
  <2>1. n + 1 \in 0..N /\ n + 1 # 0 /\ (n + 1) - 1 = n
    BY <1>a
  <2> QED BY <1>4, <2>1
<1>7. \A n \in 0..(N - 1) : T(loop[n], n + 1) = Ascend(Levels(digests)[n], loop[n])
  BY <1>a DEF T
<1> QED BY <1>5, <1>6, <1>7, Zenon DEF loop, init, N

\* The states of the loop of verify_merkle_inclusion_path.
Verifies(state, v, j, size, path) ==
  /\ state[0] = [pc |-> "loop", node |-> Leaf(v), used |-> 0, index |-> j, width |-> size]
  /\ \A n \in 0..(size - 1) : state[n + 1] = Step(state[n], path)

LEMMA VerifierRounds ==
  ASSUME NEW v, NEW j, NEW size \in Nat, NEW path
  PROVE  Verifies(Rounds(v, j, size, path), v, j, size, path)
<1> DEFINE T(e, m) == Step(e, path)
           init == [pc |-> "loop", node |-> Leaf(v), used |-> 0, index |-> j, width |-> size]
           N == size
           Runs(f, k) == f = [n \in 0..k |-> IF n = 0 THEN init ELSE T(f[n - 1], n)]
           Bad == {k \in Nat : ~\E f : Runs(f, k)}
           loop == Rounds(v, j, size, path)
<1>0. (\E f : Runs(f, N)) => Runs(loop, N)
  BY Zenon DEF Rounds
<1>a. N \in Nat
  OBVIOUS
<1> HIDE DEF T, loop, init, N
<1>1. ASSUME NEW k \in Nat, k > 0 => \E f : Runs(f, k - 1) PROVE \E f : Runs(f, k)
  <2>1. CASE k = 0
    <3> DEFINE f == [n \in 0..0 |-> init]
    <3>1. f = [n \in 0..0 |-> IF n = 0 THEN init ELSE T(f[n - 1], n)]
      OBVIOUS
    <3> QED BY <2>1, <3>1, Zenon
  <2>2. CASE k > 0
    <3>1. PICK g : Runs(g, k - 1)
      BY <1>1, <2>2
    <3> DEFINE f == [n \in 0..k |-> IF n = k THEN T(g[k - 1], k) ELSE g[n]]
    <3>2. ASSUME NEW n \in 0..k PROVE f[n] = IF n = 0 THEN init ELSE T(f[n - 1], n)
      <4>1. CASE n = k
        BY <2>2, <4>1
      <4>2. CASE n # k
        <5>1. n \in 0..(k - 1) /\ f[n] = g[n]
          BY <4>2
        <5>2. n # 0 => f[n - 1] = g[n - 1]
          BY <5>1
        <5> QED BY <3>1, <5>1, <5>2
      <4> QED BY <4>1, <4>2
    <3>3. Runs(f, k)
      BY <3>2
    <3> QED BY <3>3, Zenon
  <2> QED BY <2>1, <2>2
<1> HIDE DEF Runs
<1>2. Bad = {}
  <2> SUFFICES ASSUME Bad # {} PROVE FALSE
    BY Zenon
  <2>1. PICK k \in Bad : \A m \in Bad : k <= m
    BY LeastNat, Zenon
  <2>2. k > 0 => \E f : Runs(f, k - 1)
    BY <2>1
  <2> QED BY <1>1, <2>1, <2>2
<1>3. Runs(loop, N)
  BY <1>0, <1>a, <1>2
<1>4. \A n \in 0..N : loop[n] = IF n = 0 THEN init ELSE T(loop[n - 1], n)
  BY <1>3, Zenon DEF Runs
<1>5. loop[0] = init
  BY <1>a, <1>4
<1>6. \A n \in 0..(N - 1) : loop[n + 1] = T(loop[n], n + 1)
  <2> SUFFICES ASSUME NEW n \in 0..(N - 1) PROVE loop[n + 1] = T(loop[n], n + 1)
    OBVIOUS
  <2>1. n + 1 \in 0..N /\ n + 1 # 0 /\ (n + 1) - 1 = n
    BY <1>a
  <2> QED BY <1>4, <2>1
<1> QED BY <1>5, <1>6, Zenon DEF loop, T, init, N, Verifies

\* A function on 1..m is a sequence of length m.
LEMMA Listed ==
  ASSUME NEW m \in Nat, NEW x, x = [k \in 1..m |-> x[k]]
  PROVE  Len(x) = m /\ \E H : x \in Seq(H)
<1> DEFINE H == {x[k] : k \in 1..m}
<1>1. x \in [1..m -> H]
  OBVIOUS
<1>2. x \in Seq(H)
  BY <1>1
<1>3. Len(x) = m
  BY <1>1, <1>2
<1> QED BY <1>2, <1>3, Zenon

\* A number halved: what index //= 2 and index % 2 see of it.
LEMMA Halved ==
  ASSUME NEW i \in Nat
  PROVE  \E q \in Nat : /\ i \div 2 = q
                        /\ \/ i = 2 * q /\ i % 2 = 0
                           \/ i = 2 * q + 1 /\ i % 2 = 1
<1>1. PICK q \in Nat : q = i \div 2
  OBVIOUS
<1>2. 2 * (i \div 2) <= i /\ i <= 2 * (i \div 2) + 1
  OBVIOUS
<1>3. i = 2 * q \/ i = 2 * q + 1
  BY <1>1, <1>2
<1>4. (i = 2 * q => i % 2 = 0) /\ (i = 2 * q + 1 => i % 2 = 1)
  OBVIOUS
<1> QED BY <1>1, <1>3, <1>4

\* A level of a tree.
Level(level) == /\ \E H : level \in Seq(H)
                /\ Len(level) \in Nat
                /\ Len(level) > 0

\* The next level is half as wide, and is a level.
LEMMA UpHalves ==
  ASSUME NEW level, Level(level), Len(level) > 1
  PROVE  /\ Level(Up(level))
         /\ Len(Up(level)) = Ceil2(Len(level))
         /\ Ceil2(Len(level)) \in 1..(Len(level) - 1)
         /\ \A k \in 1..Ceil2(Len(level)) :
              Up(level)[k] = IF 2 * k > Len(level) THEN level[2 * k - 1]
                                                   ELSE Node(level[2 * k - 1], level[2 * k])
<1>1. PICK w \in Nat : w = Len(level)
  BY DEF Level
<1>2. PICK q \in Nat : (w + 1) \div 2 = q /\ (w + 1 = 2 * q \/ w + 1 = 2 * q + 1)
  <2>1. w + 1 \in Nat
    OBVIOUS
  <2> QED BY <2>1, Halved
<1>3. Ceil2(w) = q /\ q \in 1..(w - 1) /\ q \in Nat /\ q > 0
  BY <1>1, <1>2 DEF Ceil2
<1>4. PICK u : u = Up(level)
  OBVIOUS
<1>5. u = [k \in 1..q |-> IF 2 * k > w THEN level[2 * k - 1] ELSE Node(level[2 * k - 1], level[2 * k])]
  BY <1>1, <1>3, <1>4, Zenon DEF Up
<1>6. u = [k \in 1..q |-> u[k]]
  BY <1>5
<1>7. Len(u) = q /\ \E H : u \in Seq(H)
  BY <1>3, <1>6, Listed, Zenon
<1>8. Level(u)
  BY <1>3, <1>7 DEF Level
<1>9. \A k \in 1..q : u[k] = IF 2 * k > w THEN level[2 * k - 1] ELSE Node(level[2 * k - 1], level[2 * k])
  BY <1>5, Zenon
<1> QED BY <1>1, <1>3, <1>4, <1>7, <1>8, <1>9, Zenon

\* The levels of a tree: each narrower than the one before, down to a single node.
LEMMA LevelsNarrow ==
  ASSUME NEW D, NEW digests \in Seq(D), digests # <<>>
  PROVE  /\ \A n \in 0..Len(digests) : Level(Levels(digests)[n])
         /\ Len(Levels(digests)[Len(digests)]) = 1
<1> DEFINE L(n) == Levels(digests)[n]
           Narrows(n) == Level(L(n)) /\ (Len(L(n)) = 1 \/ Len(L(n)) + n <= Len(digests))
           T == {n \in 0..Len(digests) : Narrows(n)}
<1>1. PICK N \in Nat : N = Len(digests) /\ N > 0
  OBVIOUS
<1>2. /\ L(0) = [k \in 1..N |-> Leaf(digests[k])]
      /\ \A n \in 0..(N - 1) : L(n + 1) = IF Len(L(n)) <= 1 THEN L(n) ELSE Up(L(n))
  BY <1>1, LevelRounds, Zenon
<1> HIDE DEF L
<1>3. Narrows(0)
  <2>1. L(0) = [k \in 1..N |-> L(0)[k]]
    BY <1>2
  <2>2. Len(L(0)) = N /\ \E H : L(0) \in Seq(H)
    BY <2>1, Listed, Zenon
  <2> QED BY <1>1, <2>2 DEF Level
<1>4. ASSUME NEW n \in 0..(N - 1), Narrows(n) PROVE Narrows(n + 1)
  <2>1. PICK w \in Nat : w = Len(L(n)) /\ w > 0
    BY <1>4 DEF Level
  <2>2. CASE w <= 1
    <3>1. L(n + 1) = L(n)
      BY <1>2, <2>1, <2>2, Zenon
    <3>2. w = 1
      BY <2>1, <2>2
    <3> QED BY <1>4, <2>1, <3>1, <3>2, Zenon
  <2>3. CASE w > 1
    <3>1. L(n + 1) = Up(L(n))
      BY <1>2, <2>1, <2>3
    <3>2. Level(L(n + 1)) /\ Len(L(n + 1)) = Ceil2(w) /\ Ceil2(w) \in 1..(w - 1)
      BY <1>4, <2>1, <2>3, <3>1, UpHalves, Zenon
    <3>3. w = 1 \/ w + n <= N
      BY <1>1, <1>4, <2>1, Zenon
    <3>4. w + n <= N
      BY <2>3, <3>3
    <3> QED BY <1>1, <2>1, <3>2, <3>4
  <2> QED BY <2>1, <2>2, <2>3
<1>5. \A n \in 0..N : n \in T
  <2>1. 0 \in T /\ \A n \in 0..(N - 1) : n \in T => n + 1 \in T
    BY <1>1, <1>3, <1>4
  <2> HIDE DEF T
  <2> QED BY <2>1, RoundsUp, Zenon
<1>6. \A n \in 0..N : Narrows(n)
  BY <1>1, <1>5
<1>7. Len(L(N)) = 1
  BY <1>1, <1>6 DEF Level
<1> QED BY <1>1, <1>6, <1>7 DEF L

\* The node above a position is the node promoted, or it hashes the node and its
\* sibling on the side the verifier expects.
LEMMA Above ==
  ASSUME NEW level, Level(level), Len(level) > 1, NEW i \in 0..(Len(level) - 1)
  PROVE  LET side == ExpectedSide(i, Len(level))
             above == Up(level)[i \div 2 + 1]
         IN /\ i \div 2 \in 0..(Len(Up(level)) - 1)
            /\ side = "none" => above = level[i + 1]
            /\ side # "none" => /\ Sibling(level, i).side = side
                                /\ above = Combine(side, level[i + 1], Sibling(level, i).digest)
<1>1. PICK w \in Nat : w = Len(level)
  BY DEF Level
<1>2. PICK q \in Nat : i \div 2 = q /\ ((i = 2 * q /\ i % 2 = 0) \/ (i = 2 * q + 1 /\ i % 2 = 1))
  BY Halved
<1>3. PICK u : u = Up(level)
  OBVIOUS
<1>4. PICK c \in Nat : c = Ceil2(w)
  BY DEF Ceil2
<1>5. Len(u) = c /\ \A k \in 1..c : u[k] = IF 2 * k > w THEN level[2 * k - 1] ELSE Node(level[2 * k - 1], level[2 * k])
  BY <1>1, <1>3, <1>4, UpHalves, Zenon
<1>6. w <= 2 * c /\ i \in Nat /\ i < w
  <2>1. PICK p \in Nat : (w + 1) \div 2 = p /\ (w + 1 = 2 * p \/ w + 1 = 2 * p + 1)
    <3>1. w + 1 \in Nat
      OBVIOUS
    <3> QED BY <3>1, Halved
  <2>2. c = p
    BY <1>4, <2>1 DEF Ceil2
  <2> QED BY <1>1, <2>1, <2>2
<1>7. q \in 0..(c - 1) /\ q + 1 \in 1..c
  BY <1>2, <1>6
<1>8. u[q + 1] = IF 2 * (q + 1) > w THEN level[2 * (q + 1) - 1] ELSE Node(level[2 * (q + 1) - 1], level[2 * (q + 1)])
  BY <1>5, <1>7, Zenon
<1> DEFINE side == ExpectedSide(i, w)
<1>9. CASE i = 2 * q + 1 /\ i % 2 = 1
  <2>1. side = "left"
    BY <1>9 DEF ExpectedSide
  <2>2. Sibling(level, i).side = "left" /\ Sibling(level, i).digest = level[i]
    BY <1>9 DEF Sibling
  <2>3. ~(2 * (q + 1) > w) /\ 2 * (q + 1) - 1 = i /\ 2 * (q + 1) = i + 1
    BY <1>6, <1>9
  <2>4. u[q + 1] = Node(level[i], level[i + 1])
    BY <1>8, <2>3
  <2>5. u[q + 1] = Combine("left", level[i + 1], level[i])
    BY <2>4, Zenon DEF Combine
  <2> QED BY <1>1, <1>2, <1>3, <1>5, <1>7, <2>1, <2>2, <2>5
<1>10. CASE i = 2 * q /\ i % 2 = 0 /\ i + 1 < w
  <2>1. side = "right"
    BY <1>10 DEF ExpectedSide
  <2>2. Sibling(level, i).side = "right" /\ Sibling(level, i).digest = level[i + 2]
    BY <1>10 DEF Sibling
  <2>3. ~(2 * (q + 1) > w) /\ 2 * (q + 1) - 1 = i + 1 /\ 2 * (q + 1) = i + 2
    BY <1>6, <1>10
  <2>4. u[q + 1] = Node(level[i + 1], level[i + 2])
    BY <1>8, <2>3
  <2>5. u[q + 1] = Combine("right", level[i + 1], level[i + 2])
    BY <2>4 DEF Combine
  <2> QED BY <1>1, <1>2, <1>3, <1>5, <1>7, <2>1, <2>2, <2>5
<1>11. CASE i = 2 * q /\ i % 2 = 0 /\ ~(i + 1 < w)
  <2>1. side = "none"
    BY <1>11 DEF ExpectedSide
  <2>3. 2 * (q + 1) > w /\ 2 * (q + 1) - 1 = i + 1
    BY <1>6, <1>11
  <2>4. u[q + 1] = level[i + 1]
    BY <1>8, <2>3
  <2> QED BY <1>1, <1>2, <1>3, <1>5, <1>7, <2>1, <2>4
<1> QED BY <1>2, <1>9, <1>10, <1>11

\* A node is the hash of its two halves and of no others.
LEMMA OneNode ==
  ASSUME NEW side \in {"left", "right"}, NEW a, NEW b, NEW c, NEW d
  PROVE  Combine(side, a, b) = Combine(side, c, d) <=> a = c /\ b = d
<1>1. CASE side = "left"
  BY <1>1 DEF Combine, Node
<1>2. CASE side = "right"
  BY <1>2 DEF Combine, Node
<1> QED BY <1>1, <1>2

\* Facts on sequences.
LEMMA LengthNat ==
  ASSUME NEW S, NEW x \in Seq(S)
  PROVE  Len(x) \in Nat
OBVIOUS

LEMMA Lengthened ==
  ASSUME NEW S, NEW R, S \subseteq R, NEW x \in Seq(S), NEW y \in R
  PROVE  x \in Seq(R) /\ Append(x, y) \in Seq(R)
<1>1. x \in Seq(R)
  <2>1. Len(x) \in Nat /\ x \in [1..Len(x) -> S]
    OBVIOUS
  <2>2. x \in [1..Len(x) -> R]
    BY <2>1
  <2> QED BY <2>1, <2>2
<1> QED BY <1>1

LEMMA Appended ==
  ASSUME NEW R, NEW p \in Seq(R), NEW x, NEW q, q = Append(p, x)
  PROVE  Len(p) \in Nat /\ Len(q) = Len(p) + 1 /\ q[Len(p) + 1] = x /\ \A k \in 1..Len(p) : q[k] = p[k]
<1>1. p \in Seq(R \cup {x})
  BY Lengthened
<1> QED BY <1>1

LEMMA SameSequence ==
  ASSUME NEW R, NEW S, NEW p \in Seq(R), NEW q \in Seq(S), Len(q) = Len(p),
         \A k \in 1..Len(p) : p[k] = q[k]
  PROVE  p = q
<1>1. Len(p) \in Nat /\ p = [k \in 1..Len(p) |-> p[k]] /\ q = [k \in 1..Len(q) |-> q[k]]
  OBVIOUS
<1> QED BY <1>1

\* The steps of a path.
Steps(H) == [side: {"left", "right"}, digest: H]

\* The path of merkle_inclusion_path, round by round: a position of the level, and what
\* was noted of the levels below.
LEMMA AscentWalks ==
  ASSUME NEW D, NEW digests \in Seq(D), digests # <<>>, NEW j \in 0..(Len(digests) - 1)
  PROVE  \A n \in 0..Len(digests) :
           /\ Ascent(digests, j)[n].index \in 0..(Len(Levels(digests)[n]) - 1)
           /\ Len(Ascent(digests, j)[n].path) \in Nat
           /\ \E H : Ascent(digests, j)[n].path \in Seq(Steps(H))
<1> DEFINE L(n) == Levels(digests)[n]
           A(n) == Ascent(digests, j)[n]
           Walks(n) == /\ A(n).index \in 0..(Len(L(n)) - 1)
                       /\ Len(A(n).path) \in Nat
                       /\ \E H : A(n).path \in Seq(Steps(H))
           T == {n \in 0..Len(digests) : Walks(n)}
<1>1. PICK N \in Nat : N = Len(digests) /\ N > 0
  OBVIOUS
<1>2. /\ A(0) = [index |-> j, path |-> <<>>]
      /\ \A n \in 0..(N - 1) : A(n + 1) = Ascend(L(n), A(n))
  BY <1>1, AscentRounds, Zenon
<1>3. \A n \in 0..(N - 1) : L(n + 1) = IF Len(L(n)) <= 1 THEN L(n) ELSE Up(L(n))
  BY <1>1, LevelRounds, Zenon
<1>4. Len(L(0)) = N
  <2>1. L(0) = [k \in 1..N |-> Leaf(digests[k])]
    BY <1>1, LevelRounds, Zenon
  <2> HIDE DEF L
  <2>2. L(0) = [k \in 1..N |-> L(0)[k]]
    BY <2>1
  <2> QED BY <2>2, Listed, Zenon
<1>5. \A n \in 0..N : Level(L(n))
  BY <1>1, LevelsNarrow, Zenon
<1> HIDE DEF L, A
<1>6. Walks(0)
  <2>1. <<>> \in Seq(Steps({}))
    OBVIOUS
  <2>2. A(0).index = j /\ A(0).path = <<>> /\ Len(<<>>) = 0
    BY <1>2
  <2> QED BY <1>1, <1>4, <2>1, <2>2, Zenon
<1>7. ASSUME NEW n \in 0..(N - 1), Walks(n) PROVE Walks(n + 1)
  <2>1. PICK w \in Nat : w = Len(L(n)) /\ w > 0
    BY <1>5, <1>7 DEF Level
  <2>2. CASE w <= 1
    <3>1. L(n + 1) = L(n) /\ A(n + 1) = A(n)
      BY <1>2, <1>3, <2>1, <2>2, Zenon DEF Ascend
    <3> QED BY <1>7, <3>1, Zenon
  <2>3. CASE w > 1
    <3> DEFINE i == A(n).index
               p == A(n).path
               sib == Sibling(L(n), i)
               side == ExpectedSide(i, w)
    <3>1. L(n + 1) = Up(L(n)) /\ ~(w <= 1)
      BY <1>3, <2>1, <2>3
    <3>2. /\ A(n + 1).index = i \div 2
          /\ A(n + 1).path = IF side = "none" THEN p ELSE Append(p, sib)
      <4> DEFINE np == IF side = "none" THEN p ELSE Append(p, sib)
      <4>1. A(n + 1) = [index |-> i \div 2, path |-> np]
        BY <1>2, <2>1, <3>1, Zenon DEF Ascend
      <4> HIDE DEF np
      <4>2. A(n + 1).index = i \div 2 /\ A(n + 1).path = np
        BY <4>1
      <4> QED BY <4>2, Zenon DEF np
    <3>3. Level(L(n)) /\ i \in 0..(Len(L(n)) - 1)
      BY <1>5, <1>7
    <3>4. i \div 2 \in 0..(Len(L(n + 1)) - 1)
      BY <2>1, <2>3, <3>1, <3>3, Above, Zenon
    <3>5. PICK H : p \in Seq(Steps(H))
      BY <1>7
    <3>6. sib \in Steps({sib.digest})
      BY DEF Sibling, Steps
    <3>7. Steps({sib.digest}) \subseteq Steps(H \cup {sib.digest}) /\ Steps(H) \subseteq Steps(H \cup {sib.digest})
      BY DEF Steps
    <3> HIDE DEF i, p, sib, side
    <3>8. p \in Seq(Steps(H \cup {sib.digest})) /\ Append(p, sib) \in Seq(Steps(H \cup {sib.digest}))
      BY <3>5, <3>6, <3>7, Lengthened, Zenon
    <3>9. A(n + 1).path \in Seq(Steps(H \cup {sib.digest}))
      BY <3>2, <3>8, Zenon
    <3>10. Len(A(n + 1).path) \in Nat
      BY <3>9, LengthNat, Zenon
    <3> QED BY <3>2, <3>4, <3>9, <3>10, Zenon DEF i
  <2> QED BY <2>1, <2>2, <2>3
<1>8. \A n \in 0..N : n \in T
  <2>1. 0 \in T /\ \A n \in 0..(N - 1) : n \in T => n + 1 \in T
    BY <1>1, <1>6, <1>7
  <2> HIDE DEF T
  <2> QED BY <2>1, RoundsUp, Zenon
<1> QED BY <1>1, <1>8 DEF L, A

\* A round of the verifier, from s to t, seen from the level it works on: it arrives at
\* the node of the next level exactly when it left the node of this one and took its
\* sibling.
Advances(level, i, path, s, t) ==
  LET due == ExpectedSide(i, Len(level)) # "none"
      taken == s.used < Len(path) /\ path[s.used + 1] = Sibling(level, i)
  IN /\ t.pc = "loop" => /\ t.index = i \div 2
                         /\ t.width = Len(Up(level))
                         /\ t.used \in 0..Len(path)
                         /\ t.used = IF due THEN s.used + 1 ELSE s.used
     /\ (t.pc = "loop" /\ t.node = Up(level)[i \div 2 + 1])
          <=> (s.node = level[i + 1] /\ (due => taken))

LEMMA OneRound ==
  ASSUME NEW level, Level(level), Len(level) > 1, NEW i \in 0..(Len(level) - 1),
         NEW H, NEW path \in Seq(Steps(H)),
         NEW s, s.pc = "loop", s.index = i, s.width = Len(level), s.used \in 0..Len(path)
  PROVE  Advances(level, i, path, s, Step(s, path))
<1>1. PICK w \in Nat : w = Len(level) /\ w > 1
  BY DEF Level
<1>2. PICK side : side = ExpectedSide(i, w)
  BY Zenon
<1>3. PICK above : above = Up(level)[i \div 2 + 1]
  BY Zenon
<1>4. PICK sib : sib = Sibling(level, i)
  BY Zenon
<1>5. PICK t : t = Step(s, path)
  BY Zenon
<1>6. side \in {"left", "right", "none"}
  BY <1>2 DEF ExpectedSide
<1>7. /\ side = "none" => above = level[i + 1]
      /\ side # "none" => sib.side = side /\ above = Combine(side, level[i + 1], sib.digest)
  BY <1>1, <1>2, <1>3, <1>4, Above, Zenon
<1>8. Len(Up(level)) = Ceil2(w)
  BY <1>1, UpHalves, Zenon
<1>9. Len(path) \in Nat /\ s.used \in Nat /\ s.used <= Len(path)
  BY LengthNat
<1>10. ~(s.pc # "loop" \/ s.width <= 1)
  BY <1>1
<1> DEFINE taken == s.used < Len(path) /\ path[s.used + 1] = sib
<1>11. /\ t.pc = "loop" => /\ t.index = i \div 2
                  /\ t.width = Ceil2(w)
                  /\ t.used \in 0..Len(path)
                  /\ t.used = IF side # "none" THEN s.used + 1 ELSE s.used
       /\ (t.pc = "loop" /\ t.node = above) <=> (s.node = level[i + 1] /\ (side # "none" => taken))
  <2>1. CASE side = "none"
    <3>1. t = MoveUp(s, s.node, s.used)
      BY <1>1, <1>2, <1>5, <1>10, <2>1, Zenon DEF Step
    <3>2. /\ t.pc = "loop" /\ t.node = s.node /\ t.used = s.used
          /\ t.index = i \div 2 /\ t.width = Ceil2(w)
      BY <1>1, <3>1 DEF MoveUp
    <3> QED BY <1>7, <2>1, <3>2, Zenon
  <2>2. CASE side # "none" /\ (s.used >= Len(path) \/ path[s.used + 1].side # side)
    <3>1. t = Raised
      BY <1>1, <1>2, <1>5, <1>10, <2>2, Zenon DEF Step
    <3>2. t.pc # "loop"
      BY <3>1 DEF Raised
    <3>3. ~taken
      <4>1. s.used >= Len(path) => ~(s.used < Len(path))
        BY <1>9
      <4> QED BY <1>7, <2>2, <4>1, Zenon
    <3> QED BY <2>2, <3>2, <3>3, Zenon
  <2>3. CASE side # "none" /\ ~(s.used >= Len(path) \/ path[s.used + 1].side # side)
    <3>1. PICK step : step = path[s.used + 1]
      BY Zenon
    <3>2. t = MoveUp(s, Combine(side, s.node, step.digest), s.used + 1)
      BY <1>1, <1>2, <1>5, <1>10, <2>3, <3>1, Zenon DEF Step
    <3>3. /\ t.pc = "loop" /\ t.node = Combine(side, s.node, step.digest) /\ t.used = s.used + 1
          /\ t.index = i \div 2 /\ t.width = Ceil2(w)
      BY <1>1, <3>2 DEF MoveUp
    <3>4. s.used < Len(path) /\ s.used + 1 \in 1..Len(path) /\ s.used + 1 \in 0..Len(path)
      BY <1>9, <2>3
    <3>5. step \in Steps(H)
      BY <3>1, <3>4
    <3>6. step.side = side /\ sib.side = side
      BY <1>7, <2>3, <3>1, Zenon
    <3>7. step = sib <=> step.digest = sib.digest
      <4>1. step = [side |-> step.side, digest |-> step.digest]
        BY <3>5 DEF Steps
      <4>2. sib = [side |-> sib.side, digest |-> sib.digest]
        BY <1>4 DEF Sibling
      <4> QED BY <3>6, <4>1, <4>2, Zenon
    <3>8. t.node = above <=> s.node = level[i + 1] /\ step.digest = sib.digest
      <4>1. side \in {"left", "right"}
        BY <1>6, <2>3
      <4>2. above = Combine(side, level[i + 1], sib.digest)
        BY <1>7, <2>3, Zenon
      <4>3. Combine(side, s.node, step.digest) = Combine(side, level[i + 1], sib.digest)
              <=> s.node = level[i + 1] /\ step.digest = sib.digest
        BY <4>1, OneNode
      <4> QED BY <3>3, <4>2, <4>3
    <3>9. taken <=> step = sib
      BY <3>1, <3>4, Zenon
    <3>10. (t.pc = "loop" /\ t.node = above) <=> (s.node = level[i + 1] /\ (side # "none" => taken))
      <4> HIDE DEF taken
      <4> QED BY <2>3, <3>3, <3>7, <3>8, <3>9, Zenon
    <3> QED BY <2>3, <3>3, <3>4, <3>10, Zenon
  <2> QED BY <2>1, <2>2, <2>3
<1> QED BY <1>1, <1>2, <1>3, <1>4, <1>5, <1>8, <1>11, Zenon DEF Advances

\* verify_merkle_inclusion_path against the root of a ledger accepts the event that is at
\* the claimed position with the path that merkle_inclusion_path builds for it, and
\* nothing else: no other value, and no other path, shorter, longer or of other hashes.
\* For ledgers of every length, ragged trees included.
THEOREM InclusionExact ==
  ASSUME NEW D, NEW digests \in Seq(D), digests # <<>>, NEW j \in 0..(Len(digests) - 1),
         NEW v, NEW H, NEW path \in Seq(Steps(H))
  PROVE  PathProves(digests, j, v, path)
<1> DEFINE L(n) == Levels(digests)[n]
           A(n) == Ascent(digests, j)[n]
           S(n) == Rounds(v, j, Len(digests), path)[n]
           Due(n) == Len(L(n)) > 1 /\ ExpectedSide(A(n).index, Len(L(n))) # "none"
           Sib(n) == Sibling(L(n), A(n).index)
           Takes(n) == Due(n) => S(n).used < Len(path) /\ path[S(n).used + 1] = Sib(n)
           Meets(n) == S(n).pc = "loop" /\ S(n).node = L(n)[A(n).index + 1]
           Tracks(n) == S(n).pc = "loop" => /\ S(n).index = A(n).index
                                   /\ S(n).width = Len(L(n))
                                   /\ S(n).used \in 0..Len(path)
           Begins(n) == /\ Len(A(n).path) <= Len(path)
                        /\ \A k \in 1..Len(A(n).path) : path[k] = A(n).path[k]
           Agrees(n) == Meets(n) /\ S(n).used = Len(A(n).path) /\ Begins(n)
<1>1. PICK N \in Nat : N = Len(digests) /\ N > 0
  OBVIOUS
<1>2. /\ L(0) = [k \in 1..N |-> Leaf(digests[k])]
      /\ \A n \in 0..(N - 1) : L(n + 1) = IF Len(L(n)) <= 1 THEN L(n) ELSE Up(L(n))
  BY <1>1, LevelRounds, Zenon
<1>3. /\ A(0) = [index |-> j, path |-> <<>>]
      /\ \A n \in 0..(N - 1) : A(n + 1) = Ascend(L(n), A(n))
  BY <1>1, AscentRounds, Zenon
<1>4. /\ S(0) = [pc |-> "loop", node |-> Leaf(v), used |-> 0, index |-> j, width |-> N]
      /\ \A n \in 0..(N - 1) : S(n + 1) = Step(S(n), path)
  <2>1. Verifies(Rounds(v, j, N, path), v, j, N, path)
    BY VerifierRounds, Zenon
  <2> QED BY <1>1, <2>1, Zenon DEF Verifies
<1>5. (\A n \in 0..N : Level(L(n))) /\ Len(L(N)) = 1
  BY <1>1, LevelsNarrow, Zenon
<1>6. \A n \in 0..N : /\ A(n).index \in 0..(Len(L(n)) - 1)
                      /\ Len(A(n).path) \in Nat
                      /\ \E G : A(n).path \in Seq(Steps(G))
  BY <1>1, AscentWalks, Zenon
<1>7. Len(path) \in Nat
  BY LengthNat
<1>8. VerifyInclusion(v, j, Len(digests), path, MerkleRoot(digests))
        <=> S(N).pc = "loop" /\ S(N).used = Len(path) /\ S(N).node = L(N)[1]
  <2>1. j < N
    BY <1>1
  <2> QED BY <1>1, <2>1, Zenon DEF VerifyInclusion, MerkleRoot
<1>9. InclusionPath(digests, j) = A(N).path
  BY <1>1, Zenon DEF InclusionPath
<1> HIDE DEF L, A, S
<1>10. ASSUME NEW n \in 0..(N - 1), Tracks(n)
       PROVE  /\ Tracks(n + 1)
              /\ Meets(n + 1) <=> Meets(n) /\ Takes(n)
              /\ S(n + 1).pc = "loop" => S(n + 1).used = IF Due(n) THEN S(n).used + 1 ELSE S(n).used
  <2>1. PICK w \in Nat : w = Len(L(n)) /\ w > 0
    BY <1>1, <1>5 DEF Level
  <2>2. S(n + 1) = Step(S(n), path)
    BY <1>4
  <2>3. CASE w <= 1
    <3>1. L(n + 1) = L(n)
      BY <1>2, <2>1, <2>3, Zenon
    <3>2. A(n + 1) = A(n)
      BY <1>3, <2>1, <2>3, Zenon DEF Ascend
    <3>3. S(n).pc = "loop" => S(n).width <= 1
      BY <1>10, <2>1, <2>3, Zenon
    <3>4. S(n + 1) = S(n)
      BY <2>2, <3>3, Zenon DEF Step
    <3>5. ~Due(n)
      BY <2>1, <2>3
    <3> QED BY <1>10, <3>1, <3>2, <3>4, <3>5, Zenon
  <2>4. CASE w > 1 /\ S(n).pc # "loop"
    <3>1. S(n + 1) = S(n)
      BY <2>2, <2>4, Zenon DEF Step
    <3> QED BY <2>4, <3>1, Zenon
  <2>5. CASE w > 1 /\ S(n).pc = "loop"
    <3>1. L(n + 1) = Up(L(n))
      BY <1>2, <2>1, <2>5
    <3>2. A(n + 1).index = A(n).index \div 2
      <4> DEFINE np == IF ExpectedSide(A(n).index, Len(L(n))) = "none" THEN A(n).path
                       ELSE Append(A(n).path, Sib(n))
      <4>1. ~(Len(L(n)) <= 1)
        BY <2>1, <2>5
      <4>2. A(n + 1) = [index |-> A(n).index \div 2, path |-> np]
        BY <1>3, <4>1, Zenon DEF Ascend
      <4> HIDE DEF np
      <4> QED BY <4>2
    <3>3. Level(L(n)) /\ Len(L(n)) > 1 /\ A(n).index \in 0..(Len(L(n)) - 1)
      BY <1>1, <1>5, <1>6, <2>1, <2>5
    <3>4. /\ S(n).index = A(n).index /\ S(n).width = Len(L(n)) /\ S(n).used \in 0..Len(path)
      BY <1>10, <2>5, Zenon
    <3>5. /\ S(n + 1).pc = "loop" => /\ S(n + 1).index = A(n).index \div 2
                            /\ S(n + 1).width = Len(L(n + 1))
                            /\ S(n + 1).used \in 0..Len(path)
                            /\ S(n + 1).used = IF Due(n) THEN S(n).used + 1 ELSE S(n).used
          /\ (S(n + 1).pc = "loop" /\ S(n + 1).node = L(n + 1)[A(n).index \div 2 + 1])
               <=> (S(n).node = L(n)[A(n).index + 1] /\ Takes(n))
      <4>1. Due(n) <=> ExpectedSide(A(n).index, Len(L(n))) # "none"
        BY <3>3, Zenon
      <4>2. PICK level, i, s : level = L(n) /\ i = A(n).index /\ s = S(n)
        BY Zenon
      <4>3. /\ Level(level) /\ Len(level) > 1 /\ i \in 0..(Len(level) - 1)
            /\ s.pc = "loop" /\ s.index = i /\ s.width = Len(level) /\ s.used \in 0..Len(path)
        BY <2>5, <3>3, <3>4, <4>2, Zenon
      <4>4. Advances(level, i, path, s, Step(s, path))
        BY <4>3, OneRound, Zenon
      <4> QED BY <2>2, <3>1, <4>1, <4>2, <4>4, Zenon DEF Advances
    <3> QED BY <2>5, <3>2, <3>5, Zenon
  <2>6. w <= 1 \/ w > 1
    BY <2>1
  <2> QED BY <2>3, <2>4, <2>5, <2>6, Zenon
<1>11. \A n \in 0..(N - 1) : A(n + 1).path = IF Due(n) THEN Append(A(n).path, Sib(n)) ELSE A(n).path
  <2> SUFFICES ASSUME NEW n \in 0..(N - 1)
               PROVE  A(n + 1).path = IF Due(n) THEN Append(A(n).path, Sib(n)) ELSE A(n).path
    BY Zenon
  <2>1. PICK w \in Nat : w = Len(L(n)) /\ w > 0
    BY <1>1, <1>5 DEF Level
  <2>2. CASE w <= 1
    <3>1. A(n + 1) = A(n)
      BY <1>3, <2>1, <2>2, Zenon DEF Ascend
    <3>2. ~Due(n)
      BY <2>1, <2>2
    <3> QED BY <3>1, <3>2, Zenon
  <2>3. CASE w > 1
    <3> DEFINE np == IF ExpectedSide(A(n).index, Len(L(n))) = "none" THEN A(n).path
                     ELSE Append(A(n).path, Sib(n))
    <3>1. Len(L(n)) > 1 /\ ~(Len(L(n)) <= 1)
      BY <2>1, <2>3
    <3>2. A(n + 1) = [index |-> A(n).index \div 2, path |-> np]
      BY <1>3, <3>1, Zenon DEF Ascend
    <3>3. np = IF Due(n) THEN Append(A(n).path, Sib(n)) ELSE A(n).path
      BY <3>1, Zenon
    <3> HIDE DEF np
    <3>4. A(n + 1).path = np
      BY <3>2
    <3> QED BY <3>3, <3>4, Zenon
  <2> QED BY <2>1, <2>2, <2>3
<1>12. Tracks(0) /\ A(0).index = j /\ A(0).path = <<>> /\ L(0)[j + 1] = Leaf(digests[j + 1])
  <2>1. A(0).index = j /\ A(0).path = <<>>
    BY <1>3
  <2>2. S(0).index = j /\ S(0).width = N /\ S(0).used = 0
    BY <1>4
  <2>3. Len(L(0)) = N
    <3>1. L(0) = [k \in 1..N |-> L(0)[k]]
      BY <1>2
    <3> QED BY <3>1, Listed, Zenon
  <2>4. j + 1 \in 1..N
    BY <1>1
  <2>5. L(0)[j + 1] = Leaf(digests[j + 1])
    BY <1>2, <2>4
  <2>6. 0 \in 0..Len(path)
    BY <1>7
  <2> QED BY <2>1, <2>2, <2>3, <2>5, <2>6, Zenon
<1>13. \A n \in 0..N : Tracks(n)
  <2> DEFINE T == {n \in 0..N : Tracks(n)}
  <2>1. 0 \in T
    BY <1>12
  <2>2. \A n \in 0..(N - 1) : n \in T => n + 1 \in T
    <3>1. \A n \in 0..(N - 1) : n + 1 \in 0..N
      OBVIOUS
    <3> QED BY <1>10, <3>1, Zenon
  <2>3. \A n \in 0..N : n \in T
    <3> HIDE DEF T
    <3> QED BY <2>1, <2>2, RoundsUp, Zenon
  <2> QED BY <2>3, Zenon
<1> HIDE DEF Tracks
<1>14. ASSUME NEW n \in 0..(N - 1)
       PROVE  /\ Meets(n + 1) <=> Meets(n) /\ Takes(n)
              /\ S(n + 1).pc = "loop" => S(n + 1).used = IF Due(n) THEN S(n).used + 1 ELSE S(n).used
  <2>1. n \in 0..N
    OBVIOUS
  <2> QED BY <1>10, <1>13, <2>1, Zenon
<1>15. Meets(0) <=> digests[j + 1] = v
  <2>1. S(0).pc = "loop" /\ S(0).node = Leaf(v)
    BY <1>4
  <2>2. Leaf(v) = Leaf(digests[j + 1]) <=> digests[j + 1] = v
    BY DEF Leaf
  <2> QED BY <1>12, <2>1, <2>2, Zenon
<1>16. ASSUME NEW n \in 0..(N - 1), Due(n)
       PROVE  /\ Len(A(n).path) \in Nat
              /\ Len(A(n + 1).path) = Len(A(n).path) + 1
              /\ A(n + 1).path[Len(A(n).path) + 1] = Sib(n)
              /\ \A k \in 1..Len(A(n).path) : A(n + 1).path[k] = A(n).path[k]
  <2>1. n \in 0..N
    OBVIOUS
  <2>2. PICK G : A(n).path \in Seq(Steps(G))
    BY <1>6, <2>1
  <2>3. PICK p, q, x : p = A(n).path /\ q = A(n + 1).path /\ x = Sib(n)
    BY Zenon
  <2>4. p \in Seq(Steps(G)) /\ q = Append(p, x)
    BY <1>11, <1>16, <2>2, <2>3, Zenon
  <2>5. PICK R : p \in Seq(R)
    BY <2>4
  <2>6. Len(p) \in Nat /\ Len(q) = Len(p) + 1 /\ q[Len(p) + 1] = x /\ \A k \in 1..Len(p) : q[k] = p[k]
    BY <2>4, <2>5, Appended
  <2> QED BY <2>3, <2>6, Zenon
<1> HIDE DEF Due, Sib
<1>17. ASSUME NEW n \in 0..(N - 1), Agrees(n), Takes(n) PROVE Agrees(n + 1)
  <2>1. Meets(n + 1)
    BY <1>14, <1>17, Zenon
  <2>2. CASE ~Due(n)
    <3>1. A(n + 1).path = A(n).path /\ S(n + 1).used = S(n).used
      BY <1>11, <1>14, <2>1, <2>2, Zenon
    <3> QED BY <1>17, <2>1, <3>1, Zenon
  <2>3. CASE Due(n)
    <3>1. PICK l \in Nat : l = Len(A(n).path)
      BY <1>16, <2>3
    <3>2. S(n + 1).used = S(n).used + 1
      BY <1>14, <2>1, <2>3, Zenon
    <3>3. /\ S(n).used = l /\ l < Len(path) /\ path[l + 1] = Sib(n)
          /\ \A k \in 1..l : path[k] = A(n).path[k]
      BY <1>17, <2>3, <3>1, Zenon
    <3>4. /\ Len(A(n + 1).path) = l + 1 /\ A(n + 1).path[l + 1] = Sib(n)
          /\ \A k \in 1..l : A(n + 1).path[k] = A(n).path[k]
      BY <1>16, <2>3, <3>1, Zenon
    <3>5. l + 1 <= Len(path) /\ \A k \in 1..(l + 1) : k = l + 1 \/ k \in 1..l
      BY <1>7, <3>3
    <3>6. \A k \in 1..(l + 1) : path[k] = A(n + 1).path[k]
      BY <3>3, <3>4, <3>5, Zenon
    <3> QED BY <2>1, <3>2, <3>3, <3>4, <3>5, <3>6, Zenon
  <2> QED BY <2>2, <2>3
<1>18. Meets(0) => Agrees(0)
  <2>1. S(0).used = 0 /\ Len(<<>>) = 0 /\ 0 <= Len(path) /\ \A k \in 1..0 : FALSE
    BY <1>4, <1>7
  <2> QED BY <1>12, <2>1, Zenon
<1>19. L(N)[1] = L(N)[A(N).index + 1]
  <2>1. N \in 0..N
    OBVIOUS
  <2>2. A(N).index \in 0..(1 - 1)
    BY <1>5, <1>6, <2>1, Zenon
  <2>3. A(N).index + 1 = 1
    BY <2>2
  <2> QED BY <2>3, Zenon
<1>20. ASSUME S(N).pc = "loop", S(N).used = Len(path), S(N).node = L(N)[1]
       PROVE  digests[j + 1] = v /\ path = A(N).path
  <2> DEFINE T == {n \in 0..N : Meets(n)}
             U == {n \in 0..N : Agrees(n)}
  <2>1. N \in T
    <3>1. N \in 0..N
      OBVIOUS
    <3> QED BY <1>19, <1>20, <3>1, Zenon
  <2>2. \A n \in 0..(N - 1) : n + 1 \in T => n \in T
    <3>1. \A n \in 0..(N - 1) : n \in 0..N
      OBVIOUS
    <3> QED BY <1>14, <3>1, Zenon
  <2>3. \A n \in 0..N : n \in T
    <3> HIDE DEF T
    <3> QED BY <2>1, <2>2, RoundsDown, Zenon
  <2>4. \A n \in 0..(N - 1) : n + 1 \in 0..N
    OBVIOUS
  <2>5. \A n \in 0..(N - 1) : Takes(n)
    BY <1>14, <2>3, <2>4, Zenon
  <2>6. 0 \in 0..N /\ N \in 0..N
    OBVIOUS
  <2>7. Agrees(0)
    BY <1>18, <2>3, <2>6, Zenon
  <2>8. \A n \in 0..(N - 1) : n \in U => n + 1 \in U
    BY <1>17, <2>4, <2>5, Zenon
  <2>9. \A n \in 0..N : n \in U
    <3>1. 0 \in U
      BY <2>6, <2>7, Zenon
    <3> HIDE DEF U
    <3> QED BY <2>8, <3>1, RoundsUp, Zenon
  <2>10. Agrees(N)
    BY <2>6, <2>9, Zenon
  <2>11. Len(A(N).path) = Len(path) /\ \A k \in 1..Len(path) : path[k] = A(N).path[k]
    BY <1>20, <2>10, Zenon
  <2>12. PICK G : A(N).path \in Seq(Steps(G))
    BY <1>6, <2>6, Zenon
  <2>13. path = A(N).path
    BY <2>11, <2>12, SameSequence, Zenon
  <2> QED BY <1>15, <2>3, <2>6, <2>13, Zenon
<1>21. ASSUME digests[j + 1] = v, path = A(N).path
       PROVE  S(N).pc = "loop" /\ S(N).used = Len(path) /\ S(N).node = L(N)[1]
  <2> DEFINE T == {n \in 0..N : Begins(n)}
             U == {n \in 0..N : Agrees(n)}
  <2>1. 0 \in 0..N /\ N \in 0..N /\ \A n \in 0..(N - 1) : n \in 0..N /\ n + 1 \in 0..N
    OBVIOUS
  <2>2. N \in T
    BY <1>7, <1>21, <2>1
  <2>3. \A n \in 0..(N - 1) : n + 1 \in T => n \in T
    <3> SUFFICES ASSUME NEW n \in 0..(N - 1), Begins(n + 1) PROVE Begins(n)
      BY <2>1, Zenon
    <3>1. CASE ~Due(n)
      BY <1>11, <3>1, Zenon
    <3>2. CASE Due(n)
      <4>1. PICK l \in Nat : l = Len(A(n).path)
        BY <1>16, <3>2
      <4>2. /\ Len(A(n + 1).path) = l + 1
            /\ \A k \in 1..l : A(n + 1).path[k] = A(n).path[k]
        BY <1>16, <3>2, <4>1, Zenon
      <4>3. l + 1 <= Len(path) /\ \A k \in 1..(l + 1) : path[k] = A(n + 1).path[k]
        BY <4>2, Zenon
      <4>4. l <= Len(path) /\ \A k \in 1..l : k \in 1..(l + 1)
        BY <1>7, <4>3
      <4> QED BY <4>1, <4>2, <4>3, <4>4, Zenon
    <3> QED BY <3>1, <3>2
  <2>4. \A n \in 0..N : n \in T
    <3> HIDE DEF T
    <3> QED BY <2>2, <2>3, RoundsDown, Zenon
  <2>5. ASSUME NEW n \in 0..(N - 1), Agrees(n) PROVE Agrees(n + 1)
    <3>1. Begins(n + 1)
      BY <2>1, <2>4, Zenon
    <3>2. ASSUME Due(n) PROVE S(n).used < Len(path) /\ path[S(n).used + 1] = Sib(n)
      <4>1. PICK l \in Nat : l = Len(A(n).path)
        BY <1>16, <3>2
      <4>2. Len(A(n + 1).path) = l + 1 /\ A(n + 1).path[l + 1] = Sib(n)
        BY <1>16, <3>2, <4>1, Zenon
      <4>3. l + 1 <= Len(path) /\ \A k \in 1..(l + 1) : path[k] = A(n + 1).path[k]
        BY <3>1, <4>2, Zenon
      <4>4. l < Len(path) /\ l + 1 \in 1..(l + 1)
        BY <1>7, <4>3
      <4>5. S(n).used = l
        BY <2>5, <4>1, Zenon
      <4> QED BY <4>2, <4>3, <4>4, <4>5, Zenon
    <3> QED BY <1>17, <2>5, <3>2, Zenon
  <2>6. \A n \in 0..N : n \in U
    <3>1. 0 \in U
      BY <1>15, <1>18, <1>21, <2>1, Zenon
    <3>2. \A n \in 0..(N - 1) : n \in U => n + 1 \in U
      BY <2>1, <2>5, Zenon
    <3> HIDE DEF U
    <3> QED BY <3>1, <3>2, RoundsUp, Zenon
  <2>7. Agrees(N)
    BY <2>1, <2>6, Zenon
  <2> QED BY <1>19, <1>21, <2>7, Zenon
<1> QED BY <1>8, <1>9, <1>20, <1>21, Zenon DEF PathProves

\* Every event of a ledger can be proved to be in it: what merkle_inclusion_path builds is
\* accepted by verify_merkle_inclusion_path.
THEOREM EveryEventProvable ==
  ASSUME NEW D, NEW digests \in Seq(D), digests # <<>>, NEW j \in 0..(Len(digests) - 1)
  PROVE  VerifyInclusion(digests[j + 1], j, Len(digests), InclusionPath(digests, j), MerkleRoot(digests))
<1>1. Len(digests) \in 0..Len(digests)
  OBVIOUS
<1>2. PICK H : InclusionPath(digests, j) \in Seq(Steps(H))
  BY <1>1, AscentWalks, Zenon DEF InclusionPath
<1>3. PICK path \in Seq(Steps(H)) : path = InclusionPath(digests, j)
  BY <1>2, Zenon
<1>4. PICK v : v = digests[j + 1]
  BY Zenon
<1> QED BY <1>3, <1>4, InclusionExact, Zenon DEF PathProves

\* merkle_root binds a ledger: two ledgers of the same length with the same root are the
\* same, event by event.
THEOREM RootBinds ==
  ASSUME NEW D, NEW a \in Seq(D), NEW b \in Seq(D), a # <<>>, Len(a) = Len(b),
         MerkleRoot(a) = MerkleRoot(b)
  PROVE  a = b
<1>1. b # <<>>
  OBVIOUS
<1>2. ASSUME NEW j \in 0..(Len(a) - 1) PROVE b[j + 1] = a[j + 1]
  <2>1. Len(a) \in 0..Len(a)
    OBVIOUS
  <2>2. PICK H : InclusionPath(a, j) \in Seq(Steps(H))
    BY <2>1, AscentWalks, Zenon DEF InclusionPath
  <2>3. PICK path \in Seq(Steps(H)) : path = InclusionPath(a, j)
    BY <2>2, Zenon
  <2>4. PICK v : v = a[j + 1]
    BY Zenon
  <2>5. VerifyInclusion(v, j, Len(a), path, MerkleRoot(a))
    BY <2>3, <2>4, EveryEventProvable, Zenon
  <2>6. VerifyInclusion(v, j, Len(b), path, MerkleRoot(b)) /\ j \in 0..(Len(b) - 1)
    BY <2>5, Zenon
  <2>7. b[j + 1] = v
    BY <1>1, <2>6, InclusionExact, Zenon DEF PathProves
  <2> QED BY <2>4, <2>7
<1>3. \A k \in 1..Len(a) : k - 1 \in 0..(Len(a) - 1) /\ (k - 1) + 1 = k
  OBVIOUS
<1>4. \A k \in 1..Len(a) : a[k] = b[k]
  BY <1>2, <1>3, Zenon
<1> QED BY <1>4, SameSequence, Zenon

=============================================================================
