------------------------------ MODULE MCStores ------------------------------
(***************************************************************************)
(* The two stores that everybody shares, and the pure algorithms they and  *)
(* the reports on changes rest on.  Each behaviour lives in one of these   *)
(* worlds, and nothing happens in the others.                              *)
(*                                                                         *)
(* claims: three agents, a directory and two files in it, three claims.    *)
(* ledger: two writers, two sources, three events.                         *)
(* trust: two writers that append one event and bind two enrollments.      *)
(* inputs: the inputs of MCAlgorithms.                                     *)
(***************************************************************************)
EXTENDS WorkClaims, Ledger, MCAlgorithms, TLC

VARIABLE world

Repo == [kind |-> "file", value |-> <<NoName, "a">>]
X == [kind |-> "file", value |-> <<NoName, "a", "a">>]
Y == [kind |-> "file", value |-> <<NoName, "a", "b">>]

MCRadii == {{Repo}, {X}, {Y}}
MCTtls == {1}

mcVars == <<vars, ledgerVars, input, world>>

Storing == \E w \in Writers : mem'[w].step \in {"storing", "inserting"}

LedgerWorld ==
  /\ LedgerNext
  /\ \/ world = "ledger" /\ ~Storing
     \/ world = "trust" /\ Len(tx'.rows) <= 1
  /\ UNCHANGED <<vars, input>>

MCInit ==
  /\ Init /\ LedgerInit
  /\ \/ world \in {"claims", "ledger", "trust"} /\ input = [of |-> "nothing"]
     \/ world = "inputs" /\ InputInit

MCNext ==
  /\ \/ world = "claims" /\ Next /\ UNCHANGED <<ledgerVars, input>>
     \/ world \in {"ledger", "trust"} /\ LedgerWorld
     \/ world = "inputs" /\ InputNext /\ UNCHANGED <<vars, ledgerVars>>
  /\ UNCHANGED world

MCSpec == MCInit /\ [][MCNext]_mcVars

Symmetry == Permutations(Agents) \cup Permutations(Writers) \cup Permutations(Sources)
=============================================================================
