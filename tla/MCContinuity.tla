---------------------------- MODULE MCContinuity ----------------------------
(***************************************************************************)
(* Who goes on with the work.  Each behaviour lives in one of these        *)
(* worlds, and nothing happens in the others.                              *)
(*                                                                         *)
(* lease: two agents hand over the lead of a module.                       *)
(* chain: a dialogue about one work item with a chain of wakes.            *)
(* wide: a dialogue about two work items, with one recipient and one       *)
(* scheduler, and wakes that are good for one continuation.                *)
(* task: one continuation that two drivers deliver as a Codex task.        *)
(* alarms: three alarms that are routed and handed to an executor.         *)
(* cut: two alarms at once, and an append that fails in a live process.    *)
(***************************************************************************)
EXTENDS LeaseCustody, DialogueTransport, AtlasRuntime, TLC

CONSTANTS w1, w2, a1, s1, s2
VARIABLE world

MCSchedulerId(s) == "scheduler"
MCBatons == 1..3

Signal(alarm, tier, ready) == [incident |-> "i", alarm |-> alarm, tier |-> tier, ready |-> ready]
MCSignals == {Signal("x", 1, TRUE), Signal("x", 2, TRUE), Signal("y", 1, FALSE)}

mcVars == <<vars, dialogueVars, transportVars, atlasVars, world>>

MCInit ==
  /\ Init /\ DialogueInit /\ TransportInit /\ AtlasInit
  /\ world \in {"lease", "chain", "wide", "task", "alarms", "cut"}

Plain(b) == wake'[b].status # "NONE" => wake'[b].budget <= 1 /\ ~wake'[b].auth

Chain == DialogueNext /\ work'[w2].status = "NONE" /\ UNCHANGED transportVars

Wide == /\ DialogueNext /\ UNCHANGED transportVars
        /\ lease'[s2] = NoLease /\ expired' = 0
        /\ \A b \in Batons : Plain(b) /\ (baton'[b].status # "NONE" => baton'[b].agent = a1)

Task == /\ TransportNext
        /\ work'[w2].status = "NONE" /\ lease'[s2] = NoLease /\ expired' = 0 /\ sealed' = {}
        /\ \A b \in Batons :
             /\ Plain(b)
             /\ baton'[b].status # "NONE" => baton'[b].agent = a1 /\ b <= 2

DialogueWorld ==
  /\ \/ world = "chain" /\ Chain
     \/ world = "wide" /\ Wide
     \/ world = "task" /\ Task
  /\ UNCHANGED <<vars, atlasVars>>

AtlasWorld ==
  /\ AtlasNext
  /\ \/ world = "alarms" /\ faults' = 0
     \/ /\ world = "cut"
        /\ LET alarms == {k \in DOMAIN file' : file'[k].rec.kind = "alarm"}
           IN Cardinality(alarms) <= 2 /\ \A k \in alarms : file'[k].rec.at = 0
  /\ UNCHANGED <<vars, dialogueVars, transportVars>>

MCNext ==
  /\ \/ world = "lease" /\ Next /\ UNCHANGED <<dialogueVars, transportVars, atlasVars>>
     \/ world \in {"chain", "wide", "task"} /\ DialogueWorld
     \/ world \in {"alarms", "cut"} /\ AtlasWorld
  /\ UNCHANGED world

MCSpec == MCInit /\ [][MCNext]_mcVars

Symmetry == Permutations(Agents) \cup Permutations(Subjects)
=============================================================================
