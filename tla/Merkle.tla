------------------------------- MODULE Merkle -------------------------------
(***************************************************************************)
(* The Merkle tree of ledger.py: merkle_root, merkle_inclusion_path and    *)
(* verify_merkle_inclusion_path.  A node without a sibling is promoted to  *)
(* the next level as it is.                                                *)
(*                                                                         *)
(* SHA-256 is taken as injective, with leaves and nodes in separate        *)
(* domains: a hash is the tuple of what was hashed.                        *)
(***************************************************************************)
EXTENDS Naturals, Sequences

Leaf(digest) == <<"leaf", digest>>

Node(left, right) == <<"node", left, right>>

Ceil2(n) == (n + 1) \div 2

\* One round of the loop: the next level.
Up(level) ==
  [k \in 1..Ceil2(Len(level)) |->
     IF 2 * k > Len(level) THEN level[2 * k - 1] ELSE Node(level[2 * k - 1], level[2 * k])]

\* The levels of a tree: [n] is the level after n rounds of the loop, which ends with a
\* level of one node.
Levels(digests) ==
  LET Round(level) == IF Len(level) <= 1 THEN level ELSE Up(level)
      lv[n \in 0..Len(digests)] ==
        IF n = 0 THEN [k \in 1..Len(digests) |-> Leaf(digests[k])] ELSE Round(lv[n - 1])
  IN lv

\* merkle_root, for a ledger that is not empty.
MerkleRoot(digests) == Levels(digests)[Len(digests)][1]

(***************************************************************************)
(* Positions count from 0, as in the code.                                 *)
(***************************************************************************)
\* The side the sibling of a position is on, or none for a node that is promoted.
ExpectedSide(index, width) ==
  IF index % 2 = 1 THEN "left" ELSE IF index + 1 < width THEN "right" ELSE "none"

Sibling(level, index) ==
  IF index % 2 = 1 THEN [side |-> "left", digest |-> level[index]]
                   ELSE [side |-> "right", digest |-> level[index + 2]]

\* One round of merkle_inclusion_path: note the sibling, if there is one, and move up.
Ascend(level, w) ==
  IF Len(level) <= 1 THEN w
  ELSE [index |-> w.index \div 2,
        path  |-> IF ExpectedSide(w.index, Len(level)) = "none" THEN w.path
                  ELSE Append(w.path, Sibling(level, w.index))]

Ascent(digests, leafIndex) ==
  LET walk[n \in 0..Len(digests)] ==
        IF n = 0 THEN [index |-> leafIndex, path |-> <<>>]
        ELSE Ascend(Levels(digests)[n - 1], walk[n - 1])
  IN walk

\* merkle_inclusion_path
InclusionPath(digests, leafIndex) == Ascent(digests, leafIndex)[Len(digests)].path

(***************************************************************************)
(* verify_merkle_inclusion_path.  used is its path_index, and pc turns     *)
(* "raised" where it raises.                                               *)
(***************************************************************************)
Combine(side, node, sibling) ==
  IF side = "left" THEN Node(sibling, node) ELSE Node(node, sibling)

Raised == [pc |-> "raised"]

MoveUp(s, node, used) ==
  [pc |-> "loop", node |-> node, used |-> used, index |-> s.index \div 2, width |-> Ceil2(s.width)]

\* Mutated form: the side of a step is taken from the path, not from the position.
StepUnsided(s, path) ==
  LET step == path[s.used + 1]
  IN IF s.pc # "loop" \/ s.width <= 1 THEN s
     ELSE IF ExpectedSide(s.index, s.width) = "none" THEN MoveUp(s, s.node, s.used)
     ELSE IF s.used >= Len(path) THEN Raised
     ELSE MoveUp(s, Combine(step.side, s.node, step.digest), s.used + 1)

\* One round of the loop.
Step(s, path) ==
  LET side == ExpectedSide(s.index, s.width)
      step == path[s.used + 1]
  IN IF s.pc # "loop" \/ s.width <= 1 THEN s
     ELSE IF side = "none" THEN MoveUp(s, s.node, s.used)
     ELSE IF s.used >= Len(path) \/ step.side # side THEN Raised
     ELSE MoveUp(s, Combine(side, s.node, step.digest), s.used + 1)

Rounds(digest, leafIndex, size, path) ==
  LET state[n \in 0..size] ==
        IF n = 0 THEN [pc |-> "loop", node |-> Leaf(digest), used |-> 0, index |-> leafIndex,
                       width |-> size]
        ELSE Step(state[n - 1], path)
  IN state

\* TRUE when verify_merkle_inclusion_path returns, FALSE when it raises.
VerifyInclusion(digest, leafIndex, size, path, root) ==
  LET end == Rounds(digest, leafIndex, size, path)[size]
  IN /\ leafIndex < size
     /\ end.pc = "loop"
     /\ end.used = Len(path)
     /\ end.node = root

\* What a path is for: verify_merkle_inclusion_path accepts path for value v at position j,
\* against the size and the root of the ledger, exactly when v is the event there and path
\* is the one merkle_inclusion_path builds.
PathProves(digests, j, v, path) ==
  VerifyInclusion(v, j, Len(digests), path, MerkleRoot(digests))
    <=> digests[j + 1] = v /\ path = InclusionPath(digests, j)
=============================================================================
