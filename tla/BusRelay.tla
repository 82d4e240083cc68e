------------------------------ MODULE BusRelay ------------------------------
(***************************************************************************)
(* The notification relay of the LLM bus (relay.py) for one Codex thread,  *)
(* with the pointers it stages for a busy turn (codex_steer.py), the hook  *)
(* that hands them over (codex_steer_hook.py), and the outbox that carries *)
(* the thread's final answers back into the message table                  *)
(* (codex_outbox.py).                                                      *)
(*                                                                         *)
(* The key of a batch is made of its ids, so a batch is known by the set   *)
(* of them.  A record of the transcript is one reply frame, which fits     *)
(* into MAX_LINE or is too long; fate notes what became of it.  A grok     *)
(* target differs in its sender only, whose outcomes are those of the      *)
(* queue.                                                                  *)
(***************************************************************************)
EXTENDS MessageStore, Sequences

CONSTANTS
  Relays,       \* processes that run relay.py
  Mail,         \* messages that are posted by others, and by Codex from its shell
  Frames,       \* replies the thread may give as its final answer
  MaxBatch,     \* messages in a batch (12)
  MaxEntries,   \* entries in a steer file (50)
  MaxStarts     \* bound: starts of a relay; the last one to start goes on

ASSUME EntriesAssumption == MaxEntries \in Nat

VARIABLES
  journal,      \* relay-journal.json: the set of batches [ids, state]
  lock,         \* who has relay.lock, or Nobody
  relay,        \* [Relays -> the memory of the process]
  starts,       \* how often a relay was started
  steer,        \* codex-steer/<thread>.json: the sequence of entries [key, state]
  busy,         \* a turn of the thread is active
  transcript,   \* the sequence of [frame, size, fate]
  shrunk,       \* the transcript was cut to less than the outbox has read of it
  cursor,       \* codex-outbox-cursor.json: <<>>, or <<the offset>>
  handed        \* how often the pointer to a message was handed to the thread

processVars == <<journal, lock, relay, starts, cursor>>
threadVars == <<steer, busy, transcript, shrunk, handed>>
relayVars == <<storeVars, processVars, threadVars>>

Nobody == "nobody"
Codex == "codex"

Off == [pc |-> "off", watch |-> FALSE, journal |-> {}, batch |-> {}, steers |-> FALSE,
        result |-> "none", offset |-> 0, sweep |-> {}]

MailIds == {m.id : m \in Mail}

RelayInit ==
  /\ StoreInit
  /\ journal = {} /\ lock = Nobody /\ starts = 0 /\ cursor = <<>>
  /\ relay = [r \in Relays |-> Off]
  /\ steer = <<>> /\ busy = FALSE /\ transcript = <<>> /\ shrunk = FALSE
  /\ handed = [id \in MailIds |-> 0]

At(r, pc) == relay[r].pc = pc

Quit(r) ==
  /\ relay' = [relay EXCEPT ![r] = Off]
  /\ lock' = IF lock = r THEN Nobody ELSE lock

\* The pointer to every message of a batch is handed over, or it is not.
Hand(ids, told) == handed' = [id \in MailIds |-> IF told /\ id \in ids THEN handed[id] + 1
                                                                       ELSE handed[id]]

----------------------------------------------------------------------------
(* The process: main of relay.py.                                          *)

\* The journal is read when the Relay is made, which is before the lock is asked for.
Load(r) ==
  /\ At(r, "off")
  /\ starts < MaxStarts
  /\ starts' = starts + 1
  /\ relay' = [relay EXCEPT ![r] = [Off EXCEPT !.pc = "loaded", !.journal = journal]]
  /\ UNCHANGED <<storeVars, threadVars, journal, lock, cursor>>

\* exclusive_lock with --watch, and CodexOutbox: without a cursor the transcript so far
\* is passed over.
Watch(r) ==
  /\ At(r, "loaded")
  /\ lock = Nobody
  /\ lock' = r
  /\ LET offset == IF cursor = <<>> THEN Len(transcript) ELSE Head(cursor)
     IN /\ relay' = [relay EXCEPT ![r].pc = "idle", ![r].watch = TRUE, ![r].offset = offset]
        /\ cursor' = <<offset>>
  /\ transcript' = [k \in DOMAIN transcript |->
                      IF cursor = <<>> THEN [transcript[k] EXCEPT !.fate = "skipped"]
                                       ELSE transcript[k]]
  /\ UNCHANGED <<storeVars, journal, starts, steer, busy, shrunk, handed>>

\* exclusive_lock with --once, which has no outbox.
Once(r) ==
  /\ At(r, "loaded")
  /\ lock = Nobody
  /\ starts < MaxStarts
  /\ lock' = r
  /\ relay' = [relay EXCEPT ![r].pc = "idle"]
  /\ UNCHANGED <<storeVars, threadVars, journal, starts, cursor>>

\* Another process has the lock: the process ends.
LockedOut(r) ==
  /\ At(r, "loaded")
  /\ lock # Nobody
  /\ Quit(r)
  /\ UNCHANGED <<storeVars, threadVars, journal, starts, cursor>>

\* --baseline: what is pending now is not to be notified.
Baseline(r) ==
  /\ At(r, "loaded")
  /\ lock = Nobody
  /\ starts < MaxStarts
  /\ LET ids == {row.msg.id : row \in Pending(Codex)}
     IN journal' = relay[r].journal \cup {[ids |-> ids, state |-> "baseline"]}
  /\ Inbox
  /\ Quit(r)
  /\ UNCHANGED <<threadVars, starts, cursor>>

\* --once is done, or RELAY_STOP was found.
Leave(r) ==
  /\ At(r, "idle")
  /\ starts < MaxStarts
  /\ Quit(r)
  /\ UNCHANGED <<storeVars, threadVars, journal, starts, cursor>>

Crash(r) ==
  /\ ~At(r, "off")
  /\ starts < MaxStarts
  /\ Quit(r)
  /\ UNCHANGED <<storeVars, threadVars, journal, starts, cursor>>

----------------------------------------------------------------------------
(* Relay.once.                                                             *)

Attempted(batches) == UNION {b.ids : b \in batches}

Before(rows, r) == {q \in rows : q.seq < r.seq}

\* The first rows of one mode, at most MaxBatch.
FirstOf(rows) ==
  {r \in rows : /\ Cardinality(Before(rows, r)) < MaxBatch
                /\ \A q \in Before(rows, r) : q.msg.mode = r.msg.mode}

\* Mutated form: what was attempted is taken out after the limit.
CandidatesOfInbox(batches, only) ==
  {r \in FirstOf(Pending(Codex)) : r.msg.id \in only \ Attempted(batches)}

Candidates(batches, only) ==
  FirstOf({r \in Pending(Codex) : r.msg.id \in only \ Attempted(batches)})

\* --only-ids goes with --once.
OnlyIds(r) == IF relay[r].watch THEN {MailIds} ELSE SUBSET MailIds

\* The batch is chosen, its size in bytes may cut it short, and it is journaled before
\* it is sent.
Dispatch(r) ==
  /\ At(r, "idle")
  /\ \E only \in OnlyIds(r) : \E last \in Candidates(relay[r].journal, only) :
       LET rows == {q \in Candidates(relay[r].journal, only) : q.seq <= last.seq}
           ids == {q.msg.id : q \in rows}
       IN /\ journal' = relay[r].journal \cup {[ids |-> ids, state |-> "sending"]}
          /\ relay' = [relay EXCEPT ![r].pc = "sending",
                                    ![r].journal = journal',
                                    ![r].batch = ids,
                                    ![r].steers = last.msg.mode = "steer"]
  /\ UNCHANGED <<storeVars, threadVars, lock, starts, cursor>>

LastOf(s, n) == IF Len(s) > n THEN SubSeq(s, Len(s) - n + 1, Len(s)) ELSE s

\* codex_steer.stage: a key is staged once, and _save keeps the last entries.
Staged(ids) ==
  IF \E k \in DOMAIN steer : steer[k].key = ids THEN steer
  ELSE LastOf(Append(steer, [key |-> ids, state |-> "staged"]), MaxEntries)

\* send_codex for a turn that is active, or not known to be idle.
Stage(r) ==
  /\ At(r, "sending")
  /\ relay[r].steers
  /\ \/ steer' = Staged(relay[r].batch) /\ relay' = [relay EXCEPT ![r].pc = "sent",
                                                                  ![r].result = "accepted"]
     \/ steer' = steer /\ relay' = [relay EXCEPT ![r].pc = "sent", ![r].result = "unknown"]
  /\ UNCHANGED <<storeVars, journal, lock, starts, cursor, busy, transcript, shrunk, handed>>

\* send_codex through codex queue, which may fail or time out after it took the pointer.
Queue(r) ==
  /\ At(r, "sending")
  /\ relay[r].steers => ~busy
  /\ \E told \in BOOLEAN, result \in {"accepted", "unknown", "rejected"} :
       /\ result = "accepted" => told
       /\ result = "rejected" => ~told
       /\ Hand(relay[r].batch, told)
       /\ relay' = [relay EXCEPT ![r].pc = "sent", ![r].result = result]
  /\ UNCHANGED <<storeVars, journal, lock, starts, cursor, steer, busy, transcript, shrunk>>

\* The outcome is journaled.
Record(r) ==
  /\ At(r, "sent")
  /\ journal' = {IF b.ids = relay[r].batch THEN [b EXCEPT !.state = relay[r].result] ELSE b :
                   b \in relay[r].journal}
  /\ relay' = [relay EXCEPT ![r].pc = "idle", ![r].journal = journal', ![r].batch = {},
                            ![r].steers = FALSE, ![r].result = "none"]
  /\ UNCHANGED <<storeVars, threadVars, lock, starts, cursor>>

----------------------------------------------------------------------------
(* sweep_codex_steer, and the hook it races with.                          *)

IsStaged(key) == \E k \in DOMAIN steer : steer[k].key = key /\ steer[k].state = "staged"

StagedKeys == {steer[k].key : k \in {k \in DOMAIN steer : steer[k].state = "staged"}}

Moved(keys, state) ==
  [k \in DOMAIN steer |-> IF steer[k].key \in keys THEN [steer[k] EXCEPT !.state = state]
                                                   ELSE steer[k]]

BeginSweep(r) ==
  /\ At(r, "idle")
  /\ ~busy
  /\ StagedKeys # {}
  /\ relay' = [relay EXCEPT ![r].pc = "sweeping", ![r].sweep = StagedKeys]
  /\ UNCHANGED <<storeVars, threadVars, journal, lock, starts, cursor>>

Swept(rest) == IF rest = {} THEN "idle" ELSE "sweeping"

\* Mutated form: the entry is taken as it was when the sweep began.
TakeForQueueUnchecked(r) ==
  /\ At(r, "sweeping")
  /\ \E key \in relay[r].sweep :
       /\ steer' = Moved({key}, "queued")
       /\ relay' = [relay EXCEPT ![r].pc = "taken", ![r].batch = key, ![r].sweep = @ \ {key}]
  /\ UNCHANGED <<storeVars, journal, lock, starts, cursor, busy, transcript, shrunk, handed>>

\* take_for_queue, unless the hook took the entry meanwhile.
TakeForQueue(r) ==
  /\ At(r, "sweeping")
  /\ \E key \in relay[r].sweep :
       LET rest == relay[r].sweep \ {key}
       IN \/ /\ IsStaged(key)
             /\ steer' = Moved({key}, "queued")
             /\ relay' = [relay EXCEPT ![r].pc = "taken", ![r].batch = key, ![r].sweep = rest]
          \/ /\ ~IsStaged(key)
             /\ relay' = [relay EXCEPT ![r].pc = Swept(rest), ![r].sweep = rest]
             /\ UNCHANGED steer
  /\ UNCHANGED <<storeVars, journal, lock, starts, cursor, busy, transcript, shrunk, handed>>

QueueTaken(r) ==
  /\ At(r, "taken")
  /\ \E told \in BOOLEAN : Hand(relay[r].batch, told)
  /\ relay' = [relay EXCEPT ![r].pc = Swept(relay[r].sweep), ![r].batch = {}]
  /\ UNCHANGED <<storeVars, journal, lock, starts, cursor, steer, busy, transcript, shrunk>>

\* take_for_hook after a tool call: everything staged is marked, then printed.  The
\* hook fails open, so what it prints may be lost.
Hook ==
  /\ busy
  /\ StagedKeys # {}
  /\ steer' = Moved(StagedKeys, "steered")
  /\ \E told \in BOOLEAN : Hand(UNION StagedKeys, told)
  /\ UNCHANGED <<storeVars, processVars, busy, transcript, shrunk>>

----------------------------------------------------------------------------
(* CodexOutbox.poll.                                                       *)

\* The ids a frame may reply to: those of the batches this process saw accepted.
Notified(r) == Attempted({b \in relay[r].journal : b.state = "accepted"})

Fated(k, fate) == transcript' = [transcript EXCEPT ![k].fate = fate]

\* The next record.  A frame that is refused is passed over for good.  Three exceptions
\* are not caught and end the process: the transcript is shorter than what was read of
\* it (looked at before the first record), a record is over MAX_LINE, and the id of a
\* frame is taken.
Poll(r) ==
  LET k == relay[r].offset + 1
      frame == transcript[k].frame
      Moves == relay' = [relay EXCEPT ![r].pc = "polled", ![r].offset = k]
      Refuse == Fated(k, "refused") /\ Moves /\ UNCHANGED <<storeVars, lock>>
      Raise == Quit(r) /\ UNCHANGED <<storeVars, transcript>>
      allowed == /\ frame.parent \in Notified(r)
                 /\ \E row \in WithId(table, frame.parent) : row.msg.to = Codex
  IN /\ relay[r].watch
     /\ \/ At(r, "idle") /\ relay[r].offset > Len(transcript) /\ Raise
        \/ /\ relay[r].pc \in {"idle", "polled"} /\ k <= Len(transcript)
           /\ \/ transcript[k].size = "long" /\ Raise
              \/ /\ transcript[k].size = "fits"
                 /\ \/ ~allowed /\ Refuse
                    \/ allowed /\ Outcome(frame) = "invalid" /\ Refuse
                    \/ /\ allowed /\ Outcome(frame) \in {"posted", "duplicate"}
                       /\ Post(frame) /\ Fated(k, "posted") /\ Moves /\ UNCHANGED lock
                    \/ allowed /\ Outcome(frame) = "conflict" /\ Raise
     /\ UNCHANGED <<journal, starts, cursor, steer, busy, shrunk, handed>>

\* Mutated form: the cursor is moved to the end of the file.
SaveCursorAtEnd(r) ==
  /\ At(r, "polled")
  /\ cursor' = <<Len(transcript)>>
  /\ relay' = [relay EXCEPT ![r].pc = "idle", ![r].offset = Len(transcript)]
  /\ UNCHANGED <<storeVars, threadVars, journal, lock, starts>>

SaveCursor(r) ==
  /\ At(r, "polled")
  /\ cursor' = <<relay[r].offset>>
  /\ relay' = [relay EXCEPT ![r].pc = "idle"]
  /\ UNCHANGED <<storeVars, threadVars, journal, lock, starts>>

----------------------------------------------------------------------------
(* What goes on around the relay.                                          *)

BeginTurn ==
  /\ ~busy /\ busy' = TRUE
  /\ UNCHANGED <<storeVars, processVars, steer, transcript, shrunk, handed>>

\* A turn ends, with a reply frame as its final answer or without.  A record that is too
\* long may be any record: nothing of it is looked at.
EndTurn ==
  /\ busy /\ busy' = FALSE
  /\ \/ UNCHANGED transcript
     \/ \E f \in Frames, size \in {"fits", "long"} :
          /\ \A k \in DOMAIN transcript : transcript[k].frame # f
          /\ transcript' = Append(transcript, [frame |-> f, size |-> size, fate |-> "new"])
  /\ UNCHANGED <<storeVars, processVars, steer, shrunk, handed>>

Offsets == {relay[r].offset : r \in Relays} \cup {cursor[k] : k \in DOMAIN cursor}

\* The transcript is not the relay's: it may lose its last records.
Truncate ==
  /\ \E n \in 0..Len(transcript) - 1 :
       /\ transcript' = SubSeq(transcript, 1, n)
       /\ shrunk' = (shrunk \/ \E m \in Offsets : m > n)
  /\ UNCHANGED <<storeVars, processVars, steer, busy, handed>>

RelayTraffic == Traffic(Mail) /\ UNCHANGED <<processVars, threadVars>>

Works(r) ==
  \/ Load(r) \/ Watch(r) \/ Dispatch(r) \/ Stage(r) \/ Queue(r) \/ Record(r)
  \/ BeginSweep(r) \/ TakeForQueue(r) \/ QueueTaken(r) \/ Poll(r) \/ SaveCursor(r)

RelayNext ==
  \/ \E r \in Relays : Works(r) \/ LockedOut(r) \/ Once(r) \/ Baseline(r) \/ Leave(r) \/ Crash(r)
  \/ Hook \/ BeginTurn \/ EndTurn \/ Truncate \/ RelayTraffic

----------------------------------------------------------------------------
(* Properties.                                                             *)

\* "Never ... retries an ambiguous send" (relay.py): wherever a relay dies, and whoever
\* takes a staged pointer, hook or sweep, the thread is pointed to a message once at
\* most.
NeverReplayed == \A id \in MailIds : handed[id] <= 1

\* The saved cursor never passes a frame that was neither posted nor refused: no reply
\* of the thread is lost when the relay dies between its post and the cursor.  Poll
\* compares sizes, so this says nothing of a transcript that was cut and has grown
\* again.
FramesDealt ==
  cursor # <<>> /\ ~shrunk => \A k \in 1..Head(cursor) : transcript[k].fate # "new"

Waits(id) == \E row \in Pending(Codex) : row.msg.id = id

\* The relay did with a message what it will ever do: its pointer left the steer file,
\* or the send failed, or was cut off by a crash.
Settled(id) ==
  \/ handed[id] > 0
  \/ \E k \in DOMAIN steer : id \in steer[k].key /\ steer[k].state # "staged"
  \/ \E b \in journal : /\ id \in b.ids
                        /\ \/ b.state \in {"unknown", "rejected", "baseline"}
                           \/ b.state = "sending" /\ \A r \in Relays : relay[r].batch # b.ids

\* Its pointer was staged and then pushed out of a full steer file, unread, by others.
PushedOut(id) ==
  /\ Len(steer) = MaxEntries
  /\ \A k \in DOMAIN steer : id \notin steer[k].key
  /\ \E b \in journal : id \in b.ids /\ b.state = "accepted"

\* Poll ends this relay and each later one, before they look for messages: there is a
\* record it does not get past, or the transcript shrank.
Barred ==
  \/ shrunk
  \/ \E k \in DOMAIN transcript :
       /\ transcript[k].fate # "skipped"
       /\ \/ transcript[k].size = "long"
          \/ \E row \in table : row.msg.id = transcript[k].frame.id /\ row.msg # transcript[k].frame

\* New messages are not starved by old ones that are never acknowledged, nor by a
\* restart: once the thread stays idle, every message that waits is dealt with, unless
\* poll is barred, or more pointers were staged for a busy turn than a steer file holds.
PointersFlow ==
  (<>[]~busy /\ []~Barred) =>
    \A id \in MailIds : Waits(id) ~> (~Waits(id) \/ Settled(id) \/ PushedOut(id))
=============================================================================
