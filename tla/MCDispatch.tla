----------------------------- MODULE MCDispatch -----------------------------
(***************************************************************************)
(* Four ways in which something is done outside that must not be done      *)
(* twice, or be lost track of.  Each behaviour plays in one of these       *)
(* scenes, and nothing happens in the others.                              *)
(*                                                                         *)
(* adapter: two processes, two envelopes, three journals.                  *)
(* custody: three processes and two signed intents that share their        *)
(* intent_id and differ in their window.                                   *)
(* recovery: two clients deliver one operation, which is sent twice.       *)
(* runs: two runners, four requests for two Claude Code sessions.          *)
(*                                                                         *)
(* Clients and runners are the same interchangeable model values as the    *)
(* dispatchers, and the holders of intents the same as the paths: the      *)
(* scenes do not mix.  Behaviours end: paths, attempts and intents run     *)
(* out.                                                                    *)
(***************************************************************************)
EXTENDS AdapterDispatch, IntentCustody, OperationRecovery, RunLedger, TLC

VARIABLE scene

Intent(id, until) ==
  [id |-> id, expected |-> <<[slot |-> "s", diff |-> "planned"]>>, scope |-> {"s"},
   created |-> 0, from |-> 0, until |-> until, retrospective |-> FALSE]

MCIntents == {Intent("i", 0), Intent("i", 1)}

MCRequests == {"new", "again", "other", "resume"}
MCSessionOf(r) == IF r = "other" THEN "t" ELSE "s"
MCModeOf(r) == IF r \in {"new", "other"} THEN "new" ELSE "resume"

mcVars == <<adapterVars, vars, opVars, runVars, scene>>

MCInit ==
  /\ AdapterInit /\ Init /\ OpInit /\ RunInit
  /\ scene \in {"adapter", "custody", "recovery", "runs"}

MCNext ==
  /\ \/ scene = "adapter" /\ AdapterNext /\ UNCHANGED <<vars, opVars, runVars>>
     \/ scene = "custody" /\ Next /\ UNCHANGED <<adapterVars, opVars, runVars>>
     \/ scene = "recovery" /\ OpNext /\ UNCHANGED <<adapterVars, vars, runVars>>
     \/ scene = "runs" /\ RunNext /\ UNCHANGED <<adapterVars, vars, opVars>>
  /\ UNCHANGED scene

MCSpec == MCInit /\ [][MCNext]_mcVars

Symmetry == Permutations(Dispatchers) \cup Permutations(Paths)
=============================================================================
