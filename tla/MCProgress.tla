---------------------------- MODULE MCProgress -----------------------------
(***************************************************************************)
(* What must go on: agents that wait for a claim, writers under a fence,   *)
(* and commands under the eyes of a watcher.  Each behaviour lives in one  *)
(* of these worlds, and nothing happens in the others.                     *)
(*                                                                         *)
(* agents: three agents contend for one directory, and any may crash.      *)
(* writers: two agents contend for a directory and a file in it.           *)
(* second, edit, stdin: a bridge that serves one command and next to it    *)
(* another command, an edit of a file, or input for the command; the last  *)
(* with a second thread, which the launch lock would keep out elsewhere,   *)
(* and without a restart.                                                  *)
(***************************************************************************)
EXTENDS WorkClaimAgents, WorkClaimWriters, ExecutionBridge

CONSTANTS a1, a2, a3, t2
VARIABLE world

MCAgents == {a1, a2, a3}
MCKinds == {"file"}
MCSegments == {"repo", "x"}
MCCasefold == [s \in MCSegments |-> s]

Repo == [kind |-> "file", value |-> <<"", "repo">>]
X == [kind |-> "file", value |-> <<"", "repo", "x">>]

MCRadii == {{Repo}, {X}}
MCTtls == {1, 2}

MCOperations == {"first", "second", "edit", "stdin"}
MCKindOf(o) == CASE o = "edit" -> "replace" [] o = "stdin" -> "write" [] OTHER -> "start"
MCJobOf(o) == "first"

Bridged == {"second", "edit", "stdin"}

mcVars == <<agentVars, cleared, late, bridgeVars, world>>

MCInit ==
  /\ AgentInit /\ WriterInit /\ BridgeInit
  /\ world \in {"agents", "writers"} \cup Bridged

\* The claims that are made in a world: by whom, for what and for how long.
Made(agents, radii, ttl) ==
  \A c \in 1..db'.last : LET row == db'.rows[c]
                         IN row.agent \in agents /\ row.radius \in radii /\ row.ttl = ttl

\* Agents are interchangeable, so they are named in the order of their first claims.
Named ==
  /\ db'.last >= 1 => db'.rows[1].agent = a1
  /\ db'.last >= 2 => db'.rows[2].agent \in {a1, a2}

AgentWorld ==
  /\ AgentNext
  /\ Made(MCAgents, {{Repo}}, 2) /\ Named
  /\ UNCHANGED <<cleared, late, bridgeVars>>

WriterWorld ==
  /\ WriterNext
  /\ Made({a1, a2}, MCRadii, 1)
  /\ UNCHANGED <<known, bridgeVars>>

BridgeWorld ==
  /\ BridgeNext
  /\ \A t \in Threads : serving'[t].op \in {"none", "first", world}
  /\ IF world = "stdin" THEN bridge'.restarts = 0 ELSE serving'[t2] = Unserved
  /\ UNCHANGED <<agentVars, cleared, late>>

MCNext ==
  /\ \/ world = "agents" /\ AgentWorld
     \/ world = "writers" /\ WriterWorld
     \/ world \in Bridged /\ BridgeWorld
  /\ UNCHANGED world

MCSpec ==
  /\ MCInit /\ [][MCNext]_mcVars
  /\ WF_agentVars(world = "agents" /\ AgentTick)
  /\ \A c \in Claims : WF_agentVars(world = "agents" /\ Attend(c))
  /\ BridgeFairness
=============================================================================
