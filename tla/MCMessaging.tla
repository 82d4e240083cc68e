----------------------------- MODULE MCMessaging ----------------------------
(***************************************************************************)
(* How messages get to the agents of the LLM bus.  Each behaviour lives in *)
(* one of these worlds, and nothing happens in the others.                 *)
(*                                                                         *)
(* pointers: a relay, restarted once, points a Codex thread to two         *)
(* messages that its hook may hand over.                                   *)
(* backlog: a relay that goes on, and more messages than a batch holds.    *)
(* crowded: a relay that goes on, and more pointers for a busy turn than a *)
(* steer file holds.                                                       *)
(* outbox: the thread answers a message in its final text, while it        *)
(* answers the same from its shell.                                        *)
(* damaged: the thread's transcript may be cut or have too long a record.  *)
(* replies: messages and replies that are written as files.                *)
(* rows: a reply as a file to a message of the table.                      *)
(* unwieldy: a reply too long for a note, next to an ordinary file.        *)
(* hook: two hook processes of a Claude session, and its routes.           *)
(***************************************************************************)
EXTENDS BusRelay, FileBridge, ClaudeHook

VARIABLE world

Msg(id, from, to, parent, mode) ==
  [id |-> id, from |-> from, to |-> to, body |-> "plain", parent |-> parent, mode |-> mode]

M1 == <<"m1">>
M2 == <<"m2">>
M3 == <<"m3">>
M4 == <<"m4">>
R1 == <<"r1">>
R2 == <<"r2">>

\* Codex answers M2 from its shell as R1, and again as its final answer, with another
\* body or as R2.
MCMail ==
  {Msg(M1, "claude", "codex", NoId, "steer"), Msg(M2, "claude", "codex", NoId, "queue"),
   Msg(M3, "claude", "codex", NoId, "steer"), Msg(M4, "claude", "codex", NoId, "steer"),
   Msg(R1, "codex", "claude", M2, "steer")}

MCFrames ==
  {Msg(R1, "codex", "claude", M2, "queue"), Msg(R2, "codex", "claude", M2, "steer")}

MCAgents == {"codex", "claude", "grok"}

File(id, from, to, parent, big) ==
  [id |-> id, from |-> from, to |-> to, parent |-> parent, big |-> big, mirror |-> NoId]

T == <<"t">>
X == <<"x">>
Y == <<"y">>
Z == <<"z">>

MCFileMail ==
  {File(X, "claude", "all", NoId, FALSE), File(Y, "grok", "claude", X, FALSE),
   File(Z, "grok", "codex", FileId(T), FALSE), File(Z, "grok", "claude", FileId(T), TRUE),
   File(Y, "grok", "grok", NoId, FALSE)}

MCTableMail == {Msg(T, "codex", "grok", NoId, "steer")}

MCAddressOf(s) == s

MCHookMail ==
  {Msg(M1, "codex", "s", NoId, "steer"), Msg(M2, "codex", "claude", NoId, "steer"),
   Msg(R1, "codex", "claude", NoId, "steer")}

mcVars == <<storeVars, processVars, threadVars, bridgeState, hookState, world>>

Ids == {r.msg.id : r \in table'}

FileIds == {f.id : f \in files'}

AllLive == \A row \in table' : row.live

AckedOnly(ids) == \A row \in table' : row.status = "acked" => row.msg.id \in ids

\* No relay runs with --once, which has no outbox.
Watching == \A r \in Relays : relay'[r].pc \notin {"off", "loaded"} => relay'[r].watch

\* One start, with --watch, and no end.
Steady == starts' <= 1 /\ Watching /\ \A r \in Relays : starts' > 0 => relay'[r].pc # "off"

\* The transcript only grows, by records that poll can read.
Sound == /\ Len(transcript') >= Len(transcript)
         /\ \A k \in DOMAIN transcript' : transcript'[k].size = "fits"

RelayWorld ==
  /\ RelayNext
  /\ \/ /\ world = "pointers" /\ transcript' = <<>> /\ AllLive
        /\ Ids \subseteq {M1, M3} /\ lastSeq' <= 2
     \/ /\ world = "backlog" /\ transcript' = <<>> /\ AllLive /\ Steady
        /\ Ids \in {{}, {M1}, {M1, M2}, {M1, M2, M3}} /\ AckedOnly({M1})
     \/ /\ world = "crowded" /\ transcript' = <<>> /\ AllLive /\ Steady
        /\ Ids \in {{}, {M1}, {M1, M3}, {M1, M3, M4}} /\ AckedOnly({})
     \/ /\ world = "outbox" /\ Watching
        /\ \A row \in table' : row.msg.id = M2 \/ row.live
        /\ Ids \subseteq {M2, R1, R2} /\ AckedOnly({}) /\ Sound
     \/ /\ world = "damaged" /\ Watching /\ AllLive
        /\ Ids \subseteq {M2, R2} /\ \A k \in DOMAIN transcript' : transcript'[k].frame.id = R2
  /\ UNCHANGED <<bridgeState, hookState>>

Relaying == {"pointers", "backlog", "crowded", "outbox", "damaged"}

Mirroring == {"replies", "rows", "unwieldy"}

BridgeWorld ==
  /\ MirrorNext
  /\ \/ world = "replies" /\ FileIds \subseteq {X, Y} /\ T \notin Ids
     \/ world = "rows" /\ FileIds \subseteq {FileId(T), Z} /\ \A f \in files' : ~f.big
     \/ world = "unwieldy" /\ FileIds \subseteq {FileId(T), X, Z} /\ \A f \in files' : f.id = Z => f.big
  /\ UNCHANGED <<processVars, threadVars, hookState>>

HookWorld ==
  /\ HookNext
  /\ lastSeq' <= 2 /\ \A r \in table' : r.live
  /\ \A h \in Hooks : hook'[h].session # "t"
  /\ UNCHANGED <<processVars, threadVars, bridgeState>>

MCInit ==
  /\ RelayInit /\ MirrorInit /\ HookInit
  /\ world \in Relaying \cup Mirroring \cup {"hook"}

MCNext ==
  /\ \/ world \in Relaying /\ RelayWorld
     \/ world \in Mirroring /\ BridgeWorld
     \/ world = "hook" /\ HookWorld
  /\ UNCHANGED world

MCSpec ==
  /\ MCInit /\ [][MCNext]_mcVars
  /\ \A r \in Relays : WF_relayVars(world \in Relaying /\ Works(r))
  /\ WF_mirrorVars(world \in Mirroring /\ Pass)
=============================================================================
