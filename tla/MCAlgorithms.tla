---------------------------- MODULE MCAlgorithms ----------------------------
(***************************************************************************)
(* The pure algorithms, each against what it is for: the overlap of two    *)
(* resources (BlastRadius), the Merkle tree of a ledger (Merkle) and the   *)
(* report on the changes a plan announced (Reconciler).  The states are    *)
(* their inputs, written segment by segment, event by event, observation   *)
(* by observation.                                                         *)
(***************************************************************************)
EXTENDS BlastRadius, Merkle

Report == INSTANCE Reconciler

CONSTANTS
  MaxSegments,   \* bound: segments of a resource's value
  MaxLeaves,     \* bound: events of a tree
  MaxSeen        \* bound: observations in a report

VARIABLE input

----------------------------------------------------------------------------
(* Inputs.                                                                 *)

MCKinds == {"file", "host"}
MCSegments == {"a", "A", "b"}
MCCasefold == [s \in MCSegments |-> IF s = "A" THEN "a" ELSE s]

Typed == MCSegments \cup {NoName, ".."}

Resources == {[kind |-> k, value |-> <<s>>] : k \in MCKinds, s \in Typed}

EventDigests == {"x", "y"}

Change(s) == [slot |-> s, diff |-> "planned"]

Plans ==
  [ expected:      {<<Change("s")>>, <<Change("s"), Change("t")>>, <<Change("s"), Change("s")>>},
    scope:         {{"s", "t"}},
    created:       {0, 2},
    from:          {1},
    until:         {2},
    retrospective: BOOLEAN ]

Perfect == [here |-> TRUE, complete |-> TRUE, slot |-> "s", diff |-> "planned",
            at |-> 2, post |-> "PASS"]

Deltas ==
  [ here: {TRUE}, complete: {TRUE}, slot: {"s", "t", "u"}, diff: {"planned", "other"},
    at: 0..3, post: {"PASS", "FAIL", "PENDING"} ]
  \cup {[Perfect EXCEPT !.here = FALSE], [Perfect EXCEPT !.complete = FALSE]}

InputInit ==
  \/ \E l, r \in Resources : input = [of |-> "overlap", left |-> l, right |-> r]
  \/ \E d \in EventDigests : input = [of |-> "tree", digests |-> <<d>>]
  \/ \E p \in Plans : Report!Verified(p) /\ input = [of |-> "report", plan |-> p, seen |-> <<>>]

Write ==
  /\ input.of = "overlap"
  /\ \E s \in Typed :
       \/ /\ Len(input.left.value) < MaxSegments
          /\ input' = [input EXCEPT !.left.value = Append(@, s)]
       \/ /\ Len(input.right.value) < MaxSegments
          /\ input' = [input EXCEPT !.right.value = Append(@, s)]

Grow ==
  /\ input.of = "tree"
  /\ Len(input.digests) < MaxLeaves
  /\ \E d \in EventDigests : input' = [input EXCEPT !.digests = Append(@, d)]

Observe ==
  /\ input.of = "report"
  /\ Len(input.seen) < MaxSeen
  /\ \E delta \in Deltas : input' = [input EXCEPT !.seen = Append(@, delta)]

InputNext == Write \/ Grow \/ Observe

----------------------------------------------------------------------------
(* Overlap.                                                                *)

\* The places a resource covers: everything at or below it, where a place is a
\* path without empty segments, absolute or relative, in folded case.
Absolute(v) == Len(v) > 1 /\ Head(v) = NoName

Names(v) ==
  LET Named(s) == s # NoName
      named == SelectSeq(v, Named)
  IN [k \in DOMAIN named |-> Fold(named[k])]

Paths == UNION {[1..n -> {"a", "b"}] : n \in 0..MaxSegments}

Covers(r) ==
  {[kind |-> r.kind, absolute |-> Absolute(r.value), path |-> p] :
     p \in {q \in Paths : /\ Len(Names(r.value)) <= Len(q)
                          /\ SubSeq(q, 1, Len(Names(r.value))) = Names(r.value)}}

Normalized(r) == [kind |-> r.kind, value |-> Normalize(r.value)]

\* resources_overlap on normalized resources answers exactly the question it is
\* asked: whether some place lies in both, in whatever spelling (letter case,
\* doubled and trailing slashes, the root itself) the two were written.
OverlapIsSharedPlace ==
  (input.of = "overlap" /\ Accepts(input.left.value) /\ Accepts(input.right.value))
    => (ResourcesOverlap(Normalized(input.left), Normalized(input.right))
          <=> Covers(input.left) \cap Covers(input.right) # {})

----------------------------------------------------------------------------
(* The Merkle tree.                                                        *)

Positions == 0..(Len(input.digests) - 1)
Root == MerkleRoot(input.digests)

\* The paths of the tree itself, and what is left of them when a step is dropped or
\* doubled or changes sides.
Flip(step) == [step EXCEPT !.side = IF @ = "left" THEN "right" ELSE "left"]
Variants(path) ==
  {path, Append(path, [side |-> "left", digest |-> Root])}
    \cup {[path EXCEPT ![k] = Flip(path[k])] : k \in DOMAIN path}
    \cup {SubSeq(path, 1, k - 1) \o SubSeq(path, k + 1, Len(path)) : k \in DOMAIN path}

\* Every event of a ledger has a path (merkle_inclusion_path) that
\* verify_merkle_inclusion_path accepts, also where the tree is ragged; and an accepted
\* path proves the event at the claimed position: with the size and the root of the
\* checkpoint, no path made for one event vouches for another value, and no damaged
\* path is accepted.
PathsProve ==
  input.of = "tree" =>
    \A i, j \in Positions, v \in EventDigests :
      \A path \in Variants(InclusionPath(input.digests, i)) : PathProves(input.digests, j, v, path)

----------------------------------------------------------------------------
(* The report on a plan.                                                   *)

\* A report of reconcile is all authorized_success exactly when the plan was carried
\* out, so that no blemish is hidden by another delta and none is invented; and every
\* observed delta and every expected change has its place in it, once.
ReportTruthful ==
  input.of = "report" => Report!Truthful(input.plan, input.seen)
=============================================================================
