------------------------------- MODULE OneUse -------------------------------
(***************************************************************************)
(* What a one-use authorization promises, whatever store keeps it: it is   *)
(* spent before it is used, used at most once, and never comes back.  It   *)
(* is closed at most once, and may be closed before its use has happened   *)
(* (somebody gave up on a user that was only slow) or without any use.     *)
(***************************************************************************)
EXTENDS Naturals

CONSTANT Ids   \* the authorizations

VARIABLES
  phase,   \* phase[i]: unused, spent or closed
  uses     \* uses[i]: how often i was acted on

oneUseVars == <<phase, uses>>

Init ==
  /\ phase = [i \in Ids |-> "unused"]
  /\ uses = [i \in Ids |-> 0]

Spend(i) ==
  /\ phase[i] = "unused"
  /\ phase' = [phase EXCEPT ![i] = "spent"]
  /\ UNCHANGED uses

Use(i) ==
  /\ phase[i] # "unused"
  /\ uses[i] = 0
  /\ uses' = [uses EXCEPT ![i] = 1]
  /\ UNCHANGED phase

Close(i) ==
  /\ phase[i] = "spent"
  /\ phase' = [phase EXCEPT ![i] = "closed"]
  /\ UNCHANGED uses

Next == \E i \in Ids : Spend(i) \/ Use(i) \/ Close(i)

Spec == Init /\ [][Next]_oneUseVars
=============================================================================
