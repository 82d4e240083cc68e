----------------------------- MODULE FileBridge -----------------------------
(***************************************************************************)
(* The mirror between a directory of message files and the message table   *)
(* (file_bridge.py).                                                       *)
(*                                                                         *)
(* A file is [id, from, to, parent, big, mirror]: parent is its reply_to   *)
(* or NoId, mirror the table's id when the bridge wrote it ("via":         *)
(* "bridge") and else NoId.  The row made of file <<x>> for agent a is     *)
(* <<"f", x, a>>, and the file made of row <<m>> is <<"s", m>>: ids are    *)
(* taken from the alphabet that safe leaves alone, and short enough.  A    *)
(* big body leaves no room for the note "[reply_to file:...]".             *)
(***************************************************************************)
EXTENDS MessageStore, Sequences

CONSTANTS
  AGENTS,       \* the agents the bridge mirrors for
  FileMail,     \* messages that agents write as files
  TableMail,    \* messages that agents post to the table
  MaxCrashes    \* bound: crashes of the bridge

\* The ids agents choose are not of the two forms the bridge makes, and no agent uses
\* an id at both sides.
ASSUME MailAssumption ==
  /\ \A m \in FileMail \cup TableMail :
       m.id \in Seq(STRING) /\ m.id # NoId /\ Head(m.id) \notin {"f", "s"}
  /\ \A f \in FileMail : f.mirror = NoId /\ \A m \in TableMail : f.id # m.id

VARIABLES
  files,        \* the messages directory
  saved,        \* bridge.json: [done, seq]
  bridge,       \* the memory of a pass
  imported,     \* ids of the rows the bridge posted, or found there
  crashes

bridgeState == <<files, saved, bridge, imported, crashes>>
mirrorVars == <<storeVars, bridgeState>>

NoPass == [pc |-> "rest", done |-> {}, seq |-> 0, rows |-> {}, listing |-> {}, pushed |-> {}]

MirrorInit ==
  /\ StoreInit
  /\ files = {} /\ saved = [done |-> {}, seq |-> 0] /\ bridge = NoPass
  /\ imported = {} /\ crashes = 0

Doing(pc) == bridge.pc = pc

FromFile(id) == id # NoId /\ Head(id) = "f"

RowId(fileId, agent) == <<"f">> \o fileId \o <<agent>>

FileId(rowId) == <<"s">> \o rowId

\* The file-side name of a row: a row that came from a file is that file.
FileSide(rowId) ==
  IF rowId = NoId THEN NoId
  ELSE IF FromFile(rowId) THEN SubSeq(rowId, 2, Len(rowId) - 1)
  ELSE FileId(rowId)

----------------------------------------------------------------------------
(* one_pass: first the rows that are new, then the files that are.         *)

\* load_state, and the rows beyond the saved seq.
BeginPass ==
  /\ Doing("rest")
  /\ bridge' = [NoPass EXCEPT !.pc = "out", !.done = saved.done, !.seq = saved.seq,
                               !.rows = {r \in table : r.seq > saved.seq}]
  /\ UNCHANGED <<storeVars, files, saved, imported, crashes>>

Mirror(m) ==
  [id |-> FileId(m.id), from |-> m.from, to |-> m.to, parent |-> FileSide(m.parent),
   big |-> FALSE, mirror |-> m.id]

\* sqlite_to_file, one row; write_file_msg leaves a file that is there.
Export ==
  /\ Doing("out")
  /\ \E r \in bridge.rows :
       /\ \A q \in bridge.rows : r.seq <= q.seq
       /\ bridge' = [bridge EXCEPT !.seq = r.seq, !.rows = @ \ {r}]
       /\ files' = IF FromFile(r.msg.id) \/ \E f \in files : f.id = FileId(r.msg.id)
                   THEN files ELSE files \cup {Mirror(r.msg)}
  /\ UNCHANGED <<storeVars, saved, imported, crashes>>

\* file_messages
List ==
  /\ Doing("out")
  /\ bridge.rows = {}
  /\ bridge' = [bridge EXCEPT !.pc = "in", !.listing = files]
  /\ UNCHANGED <<storeVars, files, saved, imported, crashes>>

Targets(f) ==
  IF f.to = "all" THEN AGENTS \ {f.from} ELSE {f.to} \cap (AGENTS \ {f.from})

Todo == {f \in bridge.listing : f.id \notin bridge.done}

\* A mirror, or a file without an addressee.
Skip ==
  /\ Doing("in")
  /\ \E f \in Todo : /\ f.mirror # NoId \/ Targets(f) = {}
                     /\ bridge' = [bridge EXCEPT !.done = @ \cup {f.id}]
  /\ UNCHANGED <<storeVars, files, saved, imported, crashes>>

\* Mutated form: a reply is looked for as the addressee's message.
ParentOfTarget(f, target) == IF f.parent = NoId THEN NoId ELSE RowId(f.parent, target)

\* What the table calls the message a file replies to.
ParentOf(f, target) ==
  LET mirrors == {g \in bridge.listing : g.id = f.parent /\ g.mirror # NoId}
  IN IF f.parent = NoId THEN NoId
     ELSE IF mirrors # {} THEN (CHOOSE g \in mirrors : TRUE).mirror
     ELSE IF WithId(table, f.parent) # {} THEN f.parent
     ELSE RowId(f.parent, f.from)

Message(f, target) ==
  [id |-> RowId(f.id, target), from |-> f.from, to |-> target, body |-> "plain",
   parent |-> ParentOf(f, target), mode |-> "steer"]

Noted(m) == [m EXCEPT !.parent = NoId, !.body = "noted"]

\* file_to_sqlite, one addressee of one file.  A reply the table refuses is posted
\* again with a note; when the note does not fit, the exception ends the pass, and
\* bridge.json keeps what it said before.
Push ==
  /\ Doing("in")
  /\ \E f \in Todo : \E target \in Targets(f) :
       LET m == Message(f, target)
           sent == IF Outcome(m) = "invalid" THEN Noted(m) ELSE m
           left == {t \in Targets(f) : <<f.id, t>> \notin bridge.pushed} \ {target}
       IN /\ f.mirror = NoId
          /\ <<f.id, target>> \notin bridge.pushed
          /\ \A p \in bridge.pushed : p[1] \in bridge.done \cup {f.id}
          /\ \/ /\ Outcome(m) = "invalid" /\ f.big
                /\ bridge' = NoPass
                /\ UNCHANGED <<storeVars, imported>>
             \/ /\ ~(Outcome(m) = "invalid" /\ f.big)
                /\ Post(sent)
                /\ imported' = imported \cup {sent.id}
                /\ bridge' = [bridge EXCEPT
                                !.pushed = @ \cup {<<f.id, target>>},
                                !.done = IF left = {} THEN @ \cup {f.id} ELSE @]
  /\ UNCHANGED <<files, saved, crashes>>

\* Mutated form: every file of the directory is taken for done.
SaveAll ==
  /\ Doing("in")
  /\ Todo = {}
  /\ saved' = [done |-> {f.id : f \in files}, seq |-> bridge.seq]
  /\ bridge' = NoPass
  /\ UNCHANGED <<storeVars, files, imported, crashes>>

\* save_state
Save ==
  /\ Doing("in")
  /\ Todo = {}
  /\ saved' = [done |-> bridge.done, seq |-> bridge.seq]
  /\ bridge' = NoPass
  /\ UNCHANGED <<storeVars, files, imported, crashes>>

Pass == BeginPass \/ Export \/ List \/ Skip \/ Push \/ Save

CrashBridge ==
  /\ ~Doing("rest")
  /\ crashes < MaxCrashes
  /\ crashes' = crashes + 1
  /\ bridge' = NoPass
  /\ UNCHANGED <<storeVars, files, saved, imported>>

----------------------------------------------------------------------------
(* Agents at either side.                                                  *)

Write ==
  /\ \E f \in FileMail :
       /\ \A g \in files : g.id # f.id
       /\ f.parent = NoId \/ \E g \in files : g.id = f.parent
       /\ files' = files \cup {f}
  /\ UNCHANGED <<storeVars, saved, bridge, imported, crashes>>

TableTraffic == Traffic(TableMail) /\ UNCHANGED bridgeState

MirrorNext == Pass \/ CrashBridge \/ Write \/ TableTraffic

----------------------------------------------------------------------------
(* Properties.                                                             *)

\* The table's name for what a file-side id means to the agent that replies to it.
Names(id, fileId, agent) ==
  IF Head(fileId) = "s" THEN id = Tail(fileId) ELSE id = RowId(fileId, agent)

\* A conversation keeps its thread across the bridge: a reply written as a file is in
\* the table a reply to the very message it answers whenever the table has it, and
\* otherwise it says in a note what it replied to.
Threaded ==
  \A r \in table, f \in files :
    (r.msg.id = RowId(f.id, r.msg.to) /\ f.parent # NoId) =>
      /\ r.msg.parent = NoId => r.msg.body = "noted"
      /\ r.msg.parent # NoId => Names(r.msg.parent, f.parent, f.from)
      /\ \A q \in table :
           (/\ q.seq < r.seq /\ Names(q.msg.id, f.parent, f.from)
            /\ q.msg.from = r.msg.to /\ q.msg.to = r.msg.from) => r.msg.parent = q.msg.id

\* A reply that cannot be noted in its body.
Unwieldy == \E f \in files : f.big /\ f.parent # NoId

\* Each side gets what is written at the other, across crashes of the bridge and while
\* files are written during a pass: a file reaches every addressee, and a row that
\* stays in the table has its file.
ReachesTable(f, target) == (f \in files) ~> (RowId(f.id, target) \in imported)

ReachesFiles(m) ==
  (WithId(table, m.id) # {}) ~> (WithId(table, m.id) = {} \/ \E g \in files : g.mirror = m.id)

Mirrored ==
  []~Unwieldy => /\ \A f \in FileMail : \A target \in Targets(f) : ReachesTable(f, target)
                 /\ \A m \in TableMail : ReachesFiles(m)

\* "Keep running; record and back off" (main): a message that cannot be mirrored does
\* not keep the others from reaching the agents at the other side.
BridgeGoesOn ==
  \A f \in FileMail : \A target \in Targets(f) : ~f.big => ReachesTable(f, target)
=============================================================================
