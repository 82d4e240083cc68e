--------------------------- MODULE DeliveryProofs ---------------------------
(***************************************************************************)
(* Proofs about how messages get to agents: the relay and its outbox       *)
(* (BusRelay), for any number of messages, frames, starts and crashes, and *)
(* the hook of a session (ClaudeHook), for any number of sessions, hook    *)
(* processes and messages.                                                 *)
(***************************************************************************)
EXTENDS ClaudeHook, BusRelay, TLAPS

(***************************************************************************)
(* 1. BusRelay                                                             *)
(*                                                                         *)
(* One relay, however often it is stopped, killed and started again, never *)
(* points the thread to a message twice.  (Two relays can: each reads the  *)
(* journal before it asks for the lock.)                                   *)
(***************************************************************************)
RelaySpec == RelayInit /\ [][RelayNext]_relayVars

\* One process at a time runs relay.py.
Alone == \A r, q \in Relays : r = q

----------------------------------------------------------------------------
(* The inductive invariant.                                                *)

IsMemory(m) == {"pc", "journal", "batch"} \subseteq DOMAIN m

Entry == [key: SUBSET MailIds, state: {"staged", "queued", "steered"}]

RelayType ==
  /\ relay = [r \in Relays |-> relay[r]]
  /\ \A r \in Relays : IsMemory(relay[r]) /\ relay[r].batch \subseteq MailIds
  /\ \A b \in journal : b = [ids |-> b.ids, state |-> b.state]
  /\ steer \in Seq(Entry)
  /\ handed \in [MailIds -> Nat]

\* What a process knows of the journal is what the file holds.
UpToDate == \A r \in Relays : ~At(r, "off") => relay[r].journal = journal

\* Ways in which a message is about to be handed over: a process has its batch in hand,
\* or the pointer waits in the steer file.
InHand(r, id) == relay[r].pc \in {"sending", "taken"} /\ id \in relay[r].batch
Waiting(k, id) == steer[k].state = "staged" /\ id \in steer[k].key

\* Nothing gets that far without being journaled.
Journaled ==
  \A id \in MailIds :
    \/ handed[id] > 0
    \/ \E r \in Relays : InHand(r, id)
    \/ \E k \in DOMAIN steer : Waiting(k, id)
    => id \in Attempted(journal)

\* A message is in one of these places at most, and in none once it was handed over.
OnePlace ==
  \A id \in MailIds :
    /\ handed[id] <= 1
    /\ \A r \in Relays : InHand(r, id) => handed[id] = 0
    /\ \A k \in DOMAIN steer : Waiting(k, id) =>
         /\ handed[id] = 0
         /\ \A r \in Relays : ~InHand(r, id)
         /\ \A j \in DOMAIN steer : Waiting(j, id) => j = k

RelayInv == RelayType /\ UpToDate /\ Journaled /\ OnePlace

----------------------------------------------------------------------------
(* Lemmas.                                                                 *)

\* What LastOf keeps of a sequence: entries of it, in the same order.
LEMMA LastOfKeeps ==
  ASSUME NEW S, NEW s \in Seq(S), NEW n \in Nat
  PROVE  /\ LastOf(s, n) \in Seq(S)
         /\ \E d \in Nat : \A k \in DOMAIN LastOf(s, n) :
              k + d \in DOMAIN s /\ LastOf(s, n)[k] = s[k + d]
<1>1. CASE Len(s) > n
  <2> DEFINE d == Len(s) - n
  <2>1. d \in Nat /\ LastOf(s, n) = SubSeq(s, d + 1, Len(s))
    BY <1>1 DEF LastOf
  <2>2. /\ SubSeq(s, d + 1, Len(s)) \in Seq(S)
        /\ Len(SubSeq(s, d + 1, Len(s))) = n
        /\ \A k \in 1..n : SubSeq(s, d + 1, Len(s))[k] = s[k + d]
    <3>1. \A k \in (d + 1)..Len(s) : s[k] \in S
      BY <2>1
    <3> HIDE DEF d
    <3>2. /\ SubSeq(s, d + 1, Len(s)) \in Seq(S)
          /\ Len(SubSeq(s, d + 1, Len(s))) = IF d + 1 <= Len(s) THEN Len(s) - (d + 1) + 1 ELSE 0
          /\ \A k \in 1..(Len(s) - (d + 1) + 1) : SubSeq(s, d + 1, Len(s))[k] = s[(d + 1) + k - 1]
      BY <2>1, <3>1
    <3>3. d = Len(s) - n /\ d \in Nat /\ Len(s) \in Nat
      BY <2>1 DEF d
    <3>4. /\ (IF d + 1 <= Len(s) THEN Len(s) - (d + 1) + 1 ELSE 0) = n
          /\ Len(s) - (d + 1) + 1 = n
      BY <3>3
    <3>5. \A k \in 1..n : (d + 1) + k - 1 = k + d
      BY <3>3
    <3> QED BY <3>2, <3>4, <3>5, Zenon
  <2>3. \A k \in 1..n : k + d \in DOMAIN s
    BY <2>1
  <2>4. DOMAIN LastOf(s, n) = 1..n
    BY <2>1, <2>2
  <2> HIDE DEF d
  <2>5. \A k \in DOMAIN LastOf(s, n) : k + d \in DOMAIN s /\ LastOf(s, n)[k] = s[k + d]
    BY <2>1, <2>2, <2>3, <2>4, Zenon
  <2> QED BY <2>1, <2>2, <2>5, Zenon
<1>2. CASE ~(Len(s) > n)
  <2>1. LastOf(s, n) = s
    BY <1>2 DEF LastOf
  <2>2. \A k \in DOMAIN s : k + 0 \in DOMAIN s /\ s[k] = s[k + 0]
    OBVIOUS
  <2> QED BY <2>1, <2>2, Zenon
<1> QED BY <1>1, <1>2

\* Marking entries of the steer file leaves their keys.
LEMMA MovedKeeps ==
  ASSUME steer \in Seq(Entry), NEW keys, NEW st \in {"queued", "steered"}
  PROVE  /\ Moved(keys, st) \in Seq(Entry)
         /\ DOMAIN Moved(keys, st) = DOMAIN steer
         /\ \A k \in DOMAIN steer :
              /\ Moved(keys, st)[k].key = steer[k].key
              /\ Moved(keys, st)[k].state =
                   IF steer[k].key \in keys THEN st ELSE steer[k].state
<1>1. Len(steer) \in Nat /\ DOMAIN steer = 1..Len(steer) /\ \A k \in DOMAIN steer : steer[k] \in Entry
  OBVIOUS
<1>2. \A k \in DOMAIN steer : Moved(keys, st)[k] \in Entry
  BY <1>1 DEF Moved, Entry
<1>3. Moved(keys, st) = [k \in 1..Len(steer) |-> Moved(keys, st)[k]]
  BY <1>1 DEF Moved
<1>4. Moved(keys, st) \in Seq(Entry)
  BY <1>1, <1>2, <1>3
<1> QED BY <1>1, <1>4 DEF Moved, Entry

\* The memory of the relay changes.
LEMMA MemoryChanges ==
  ASSUME RelayInv, Alone, NEW r \in Relays,
         relay' = [q \in Relays |-> relay'[q]],
         IsMemory(relay'[r]), relay'[r].batch \subseteq MailIds,
         relay'[r].pc # "off" => relay'[r].journal = journal',
         \A b \in journal' : b = [ids |-> b.ids, state |-> b.state],
         steer' \in Seq(Entry), handed' \in [MailIds -> Nat]
  PROVE  RelayType' /\ UpToDate'
<1>1. \A q \in Relays : q = r
  BY DEF Alone
<1> QED BY <1>1 DEF RelayType, UpToDate, At

\* A step that hands over nothing and takes nothing in hand.
LEMMA HandsNothing ==
  ASSUME RelayInv, RelayType', UpToDate', Attempted(journal) \subseteq Attempted(journal)',
         UNCHANGED <<steer, handed>>,
         \A r \in Relays, id \in MailIds : InHand(r, id)' => InHand(r, id)
  PROVE  RelayInv'
<1>1. \A k, id : Waiting(k, id)' <=> Waiting(k, id)
  BY DEF Waiting
<1>2. Journaled'
  BY <1>1 DEF RelayInv, Journaled
<1>3. OnePlace'
  BY <1>1 DEF RelayInv, OnePlace
<1> QED BY <1>2, <1>3 DEF RelayInv

----------------------------------------------------------------------------
(* The steps, one by one.                                                  *)

\* The relay goes on, or ends, with nothing in hand.
LEMMA Idles ==
  ASSUME RelayInv, Alone, NEW r \in Relays, UNCHANGED <<journal, steer, handed>>,
         relay' = [q \in Relays |-> relay'[q]],
         IsMemory(relay'[r]), relay'[r].batch \in {{}, relay[r].batch},
         relay'[r].pc # "off" => relay'[r].journal = journal,
         relay'[r].pc \notin {"sending", "taken"}
  PROVE  RelayInv'
<1>1. RelayType' /\ UpToDate'
  <2>1. relay'[r].batch \subseteq MailIds
    BY DEF RelayInv, RelayType
  <2>2. /\ \A b \in journal' : b = [ids |-> b.ids, state |-> b.state]
        /\ steer' \in Seq(Entry) /\ handed' \in [MailIds -> Nat]
    BY DEF RelayInv, RelayType
  <2> QED BY <2>1, <2>2, MemoryChanges
<1>2. \A q \in Relays, id \in MailIds : ~InHand(q, id)'
  BY DEF InHand, Alone
<1>3. Attempted(journal) \subseteq Attempted(journal)'
  BY DEF Attempted
<1> QED BY <1>1, <1>2, <1>3, HandsNothing

\* What Quit does to the memory.
LEMMA QuitStep ==
  ASSUME RelayInv, NEW r \in Relays, Quit(r)
  PROVE  /\ relay' = [q \in Relays |-> relay'[q]]
         /\ IsMemory(relay'[r]) /\ relay'[r].batch = {} /\ relay'[r].pc = "off"
<1>1. relay = [q \in Relays |-> relay[q]]
  BY DEF RelayInv, RelayType
<1>2. relay' = [relay EXCEPT ![r] = Off]
  BY DEF Quit
<1>3. relay'[r] = Off /\ relay' = [q \in Relays |-> relay'[q]]
  BY <1>1, <1>2
<1> QED BY <1>3 DEF IsMemory, Off

LEMMA ProcessSteps ==
  ASSUME RelayInv, Alone, NEW r \in Relays,
         Load(r) \/ Watch(r) \/ Once(r) \/ LockedOut(r) \/ Leave(r) \/ Crash(r)
  PROVE  RelayInv'
<1>0. /\ relay = [q \in Relays |-> relay[q]] /\ IsMemory(relay[r])
      /\ relay[r].pc # "off" => relay[r].journal = journal
  BY DEF RelayInv, RelayType, UpToDate, At
<1>1. CASE Load(r)
  <2>1. /\ relay' = [relay EXCEPT ![r] = [Off EXCEPT !.pc = "loaded", !.journal = journal]]
        /\ UNCHANGED <<journal, steer, handed>>
    BY <1>1 DEF Load, threadVars
  <2>2. /\ relay' = [q \in Relays |-> relay'[q]]
        /\ relay'[r] = [Off EXCEPT !.pc = "loaded", !.journal = journal]
    BY <1>0, <2>1
  <2>3. /\ IsMemory(relay'[r]) /\ relay'[r].batch = {}
        /\ relay'[r].pc = "loaded" /\ relay'[r].journal = journal
    BY <2>2 DEF IsMemory, Off
  <2> QED BY <2>1, <2>2, <2>3, Idles, Zenon
<1>2. CASE Watch(r)
  <2>1. relay[r].pc = "loaded" /\ UNCHANGED <<journal, steer, handed>>
    BY <1>2 DEF Watch, At
  <2>2. PICK offset : relay' = [relay EXCEPT ![r].pc = "idle", ![r].watch = TRUE,
                                             ![r].offset = offset]
    BY <1>2, Zenon DEF Watch
  <2>3. relay' = [q \in Relays |-> relay'[q]]
    BY <1>0, <2>2, Zenon
  <2>4. relay'[r] = [[[relay[r] EXCEPT !.pc = "idle"] EXCEPT !.watch = TRUE] EXCEPT !.offset = offset]
    BY <1>0, <2>2
  <2>5. /\ IsMemory(relay'[r]) /\ relay'[r].batch = relay[r].batch
        /\ relay'[r].pc = "idle" /\ relay'[r].journal = relay[r].journal
    BY <1>0, <2>4 DEF IsMemory
  <2> QED BY <1>0, <2>1, <2>3, <2>5, Idles, Zenon
<1>3. CASE Once(r)
  <2>1. /\ relay[r].pc = "loaded" /\ UNCHANGED <<journal, steer, handed>>
        /\ relay' = [relay EXCEPT ![r].pc = "idle"]
    BY <1>3 DEF Once, threadVars, At
  <2>2. /\ relay' = [q \in Relays |-> relay'[q]]
        /\ IsMemory(relay'[r]) /\ relay'[r].batch = relay[r].batch
        /\ relay'[r].pc = "idle" /\ relay'[r].journal = relay[r].journal
    BY <1>0, <2>1 DEF IsMemory
  <2> QED BY <1>0, <2>1, <2>2, Idles, Zenon
<1>4. CASE LockedOut(r) \/ Leave(r) \/ Crash(r)
  <2>1. Quit(r) /\ UNCHANGED <<journal, steer, handed>>
    BY <1>4 DEF LockedOut, Leave, Crash, threadVars
  <2> QED BY <2>1, QuitStep, Idles
<1> QED BY <1>1, <1>2, <1>3, <1>4

LEMMA SweepAndPollSteps ==
  ASSUME RelayInv, Alone, NEW r \in Relays, BeginSweep(r) \/ SaveCursor(r) \/ Poll(r)
  PROVE  RelayInv'
<1>0. /\ relay = [q \in Relays |-> relay[q]] /\ IsMemory(relay[r])
      /\ relay[r].pc # "off" => relay[r].journal = journal
  BY DEF RelayInv, RelayType, UpToDate, At
<1>1. /\ relay[r].pc # "off" /\ UNCHANGED <<journal, steer, handed>>
      /\ \/ Quit(r)
         \/ \E sweep : relay' = [relay EXCEPT ![r].pc = "sweeping", ![r].sweep = sweep]
         \/ relay' = [relay EXCEPT ![r].pc = "idle"]
         \/ \E k : relay' = [relay EXCEPT ![r].pc = "polled", ![r].offset = k]
  <2>1. CASE BeginSweep(r)
    BY <2>1, Zenon DEF BeginSweep, threadVars, At
  <2>2. CASE SaveCursor(r)
    BY <2>2 DEF SaveCursor, threadVars, At
  <2>3. CASE Poll(r)
    <3>1. relay[r].pc # "off" /\ UNCHANGED <<journal, steer, handed>>
      BY <2>3, Zenon DEF Poll, At
    <3>2. Quit(r) \/ relay' = [relay EXCEPT ![r].pc = "polled", ![r].offset = relay[r].offset + 1]
      BY <2>3, Zenon DEF Poll
    <3> QED BY <3>1, <3>2
  <2> QED BY <2>1, <2>2, <2>3, Zenon
<1>2. CASE Quit(r)
  BY <1>1, <1>2, QuitStep, Idles
<1>3. CASE ~Quit(r)
  <2>1. /\ relay' = [q \in Relays |-> relay'[q]]
        /\ IsMemory(relay'[r]) /\ relay'[r].batch = relay[r].batch
        /\ relay'[r].pc \in {"sweeping", "idle", "polled"} /\ relay'[r].journal = relay[r].journal
    BY <1>0, <1>1, <1>3, ZenonT(30) DEF IsMemory
  <2> QED BY Zenon, <1>0, <1>1, <2>1, Idles
<1> QED BY <1>2, <1>3

\* Baseline enters a batch that is never sent.
LEMMA BaselineStep ==
  ASSUME RelayInv, Alone, NEW r \in Relays, Baseline(r)
  PROVE  RelayInv'
<1>1. PICK ids : journal' = relay[r].journal \cup {[ids |-> ids, state |-> "baseline"]}
  BY Zenon DEF Baseline
<1>2. Quit(r) /\ relay[r].journal = journal /\ UNCHANGED <<steer, handed>>
  BY DEF Baseline, At, threadVars, RelayInv, UpToDate
<1>3. RelayType' /\ UpToDate'
  <2>1. /\ \A b \in journal' : b = [ids |-> b.ids, state |-> b.state]
        /\ steer' \in Seq(Entry) /\ handed' \in [MailIds -> Nat]
    BY <1>1, <1>2 DEF RelayInv, RelayType
  <2> QED BY <1>2, <2>1, QuitStep, MemoryChanges, Zenon
<1>4. Attempted(journal) \subseteq Attempted(journal)'
  BY <1>1, <1>2 DEF Attempted
<1>5. \A q \in Relays, id \in MailIds : ~InHand(q, id)'
  BY <1>2, QuitStep DEF InHand, Alone
<1> QED BY <1>2, <1>3, <1>4, <1>5, HandsNothing

\* A batch is chosen among what was never journaled.
LEMMA DispatchStep ==
  ASSUME RelayInv, Alone, NEW r \in Relays, Dispatch(r)
  PROVE  RelayInv'
<1>0. /\ relay = [q \in Relays |-> relay[q]] /\ IsMemory(relay[r])
      /\ relay[r].pc = "idle" /\ relay[r].journal = journal
      /\ UNCHANGED <<steer, handed>>
  BY Zenon DEF RelayInv, RelayType, UpToDate, At, Dispatch, threadVars
<1>1. PICK ids, st :
        /\ ids \subseteq MailIds /\ ids \cap Attempted(journal) = {}
        /\ journal' = journal \cup {[ids |-> ids, state |-> "sending"]}
        /\ relay' = [relay EXCEPT ![r].pc = "sending", ![r].journal = journal',
                                  ![r].batch = ids, ![r].steers = st]
  <2>0. PICK only \in OnlyIds(r) : \E last \in Candidates(relay[r].journal, only) :
          LET rows == {q \in Candidates(relay[r].journal, only) : q.seq <= last.seq}
              chosen == {q.msg.id : q \in rows}
          IN /\ journal' = relay[r].journal \cup {[ids |-> chosen, state |-> "sending"]}
             /\ relay' = [relay EXCEPT ![r].pc = "sending", ![r].journal = journal',
                                       ![r].batch = chosen,
                                       ![r].steers = last.msg.mode = "steer"]
    BY Zenon DEF Dispatch
  <2>1. PICK last \in Candidates(relay[r].journal, only) :
          LET rows == {q \in Candidates(relay[r].journal, only) : q.seq <= last.seq}
              chosen == {q.msg.id : q \in rows}
          IN /\ journal' = relay[r].journal \cup {[ids |-> chosen, state |-> "sending"]}
             /\ relay' = [relay EXCEPT ![r].pc = "sending", ![r].journal = journal',
                                       ![r].batch = chosen,
                                       ![r].steers = last.msg.mode = "steer"]
    BY <2>0, Zenon
  <2> DEFINE chosen == {q.msg.id : q \in {q \in Candidates(relay[r].journal, only) : q.seq <= last.seq}}
             st == last.msg.mode = "steer"
  <2>2. /\ journal' = relay[r].journal \cup {[ids |-> chosen, state |-> "sending"]}
        /\ relay' = [relay EXCEPT ![r].pc = "sending", ![r].journal = journal',
                                  ![r].batch = chosen, ![r].steers = st]
    BY <2>1, Zenon
  <2>3. only \subseteq MailIds
    BY DEF OnlyIds
  <2>4. \A q \in Candidates(relay[r].journal, only) : q.msg.id \in only \ Attempted(journal)
    BY <1>0, Zenon DEF Candidates, FirstOf
  <2>5. chosen \subseteq MailIds /\ chosen \cap Attempted(journal) = {}
    BY <2>3, <2>4
  <2> HIDE DEF chosen, st
  <2> QED BY <1>0, <2>2, <2>5, Zenon
<1>2. /\ relay' = [q \in Relays |-> relay'[q]] /\ IsMemory(relay'[r])
      /\ relay'[r].pc = "sending" /\ relay'[r].journal = journal' /\ relay'[r].batch = ids
  BY <1>0, <1>1, Zenon DEF IsMemory
<1>3. RelayType' /\ UpToDate'
  <2>1. /\ \A b \in journal' : b = [ids |-> b.ids, state |-> b.state]
        /\ steer' \in Seq(Entry) /\ handed' \in [MailIds -> Nat]
    BY <1>0, <1>1 DEF RelayInv, RelayType
  <2> QED BY <1>1, <1>2, <2>1, MemoryChanges, Zenon
<1>4. Attempted(journal)' = Attempted(journal) \cup ids
  <2> DEFINE new == [ids |-> ids, state |-> "sending"]
  <2>1. journal' = journal \cup {new} /\ new.ids = ids
    BY <1>1
  <2> HIDE DEF new
  <2> QED BY <2>1 DEF Attempted
<1>5. \A q \in Relays, id \in MailIds : InHand(q, id)' <=> id \in ids
  BY <1>2 DEF InHand, Alone
<1>6. \A k, id : Waiting(k, id)' <=> Waiting(k, id)
  BY <1>0 DEF Waiting
<1>7. Journaled'
  BY <1>0, <1>4, <1>5, <1>6 DEF RelayInv, Journaled
<1>8. \A id \in ids : handed[id] = 0 /\ \A k \in DOMAIN steer : ~Waiting(k, id)
  BY <1>1 DEF RelayInv, RelayType, Journaled
<1>9. OnePlace'
  BY <1>0, <1>5, <1>6, <1>8 DEF RelayInv, OnePlace
<1> QED BY <1>3, <1>7, <1>9 DEF RelayInv

\* A batch in hand becomes an entry of the steer file, unless it is lost.
LEMMA StageStep ==
  ASSUME RelayInv, Alone, NEW r \in Relays, Stage(r)
  PROVE  RelayInv'
<1>0. /\ relay = [q \in Relays |-> relay[q]] /\ IsMemory(relay[r])
      /\ relay[r].pc = "sending" /\ relay[r].journal = journal
      /\ relay[r].batch \subseteq MailIds /\ steer \in Seq(Entry)
      /\ UNCHANGED <<journal, handed>>
  BY DEF RelayInv, RelayType, UpToDate, At, Stage
<1>1. /\ relay' = [q \in Relays |-> relay'[q]] /\ IsMemory(relay'[r])
      /\ relay'[r].pc = "sent" /\ relay'[r].journal = journal /\ relay'[r].batch = relay[r].batch
  <2>1. \E result : relay' = [relay EXCEPT ![r].pc = "sent", ![r].result = result]
    BY DEF Stage
  <2> QED BY <1>0, <2>1 DEF IsMemory
<1>2. CASE steer' = steer
  BY <1>0, <1>1, <1>2, Idles
<1>3. CASE steer' # steer
  <2> DEFINE e == [key |-> relay[r].batch, state |-> "staged"]
             s == Append(steer, e)
  <2>1. steer' = LastOf(s, MaxEntries)
    BY <1>3 DEF Stage, Staged
  <2>2. /\ s \in Seq(Entry) /\ DOMAIN s = 1..(Len(steer) + 1) /\ Len(steer) \in Nat
        /\ DOMAIN steer = 1..Len(steer)
        /\ \A k \in DOMAIN steer : s[k] = steer[k]
        /\ s[Len(steer) + 1] = e
    BY <1>0 DEF Entry
  <2>3. e.key = relay[r].batch /\ e.state = "staged"
    OBVIOUS
  <2> HIDE DEF s, e
  <2>4. PICK d \in Nat : \A k \in DOMAIN steer' : k + d \in DOMAIN s /\ steer'[k] = s[k + d]
    <3> DEFINE Shifted(t) == \E d \in Nat : \A k \in DOMAIN LastOf(t, MaxEntries) :
                               k + d \in DOMAIN t /\ LastOf(t, MaxEntries)[k] = t[k + d]
    <3>1. \A t \in Seq(Entry) : Shifted(t)
      <4> TAKE t \in Seq(Entry)
      <4> QED BY LastOfKeeps, EntriesAssumption, Zenon
    <3> HIDE DEF Shifted
    <3>2. Shifted(s)
      BY <2>2, <3>1
    <3> QED BY <2>1, <3>2, Zenon DEF Shifted
  <2>5. steer' \in Seq(Entry)
    BY <2>1, <2>2, LastOfKeeps, EntriesAssumption
  <2>6. RelayType' /\ UpToDate'
    <3>1. /\ \A b \in journal' : b = [ids |-> b.ids, state |-> b.state]
          /\ handed' \in [MailIds -> Nat]
      BY <1>0 DEF RelayInv, RelayType
    <3> QED BY <1>0, <1>1, <2>5, <3>1, MemoryChanges, Zenon
  <2>7. \A q \in Relays, id \in MailIds : ~InHand(q, id)'
    BY <1>1 DEF InHand, Alone
  <2>8. \A k \in DOMAIN steer' : k \in Nat
    BY <2>5
  <2>9. \A k \in DOMAIN steer' : \A id \in MailIds : Waiting(k, id)' =>
          \/ k + d \in DOMAIN steer /\ Waiting(k + d, id)
          \/ k + d = Len(steer) + 1 /\ InHand(r, id)
    <3> SUFFICES ASSUME NEW k \in DOMAIN steer', NEW id \in MailIds, Waiting(k, id)'
                 PROVE  \/ k + d \in DOMAIN steer /\ Waiting(k + d, id)
                        \/ k + d = Len(steer) + 1 /\ InHand(r, id)
      OBVIOUS
    <3>1. steer'[k] = s[k + d] /\ steer'[k].state = "staged" /\ id \in steer'[k].key
      BY <2>4 DEF Waiting
    <3>2. CASE k + d \in DOMAIN steer
      BY <2>2, <3>1, <3>2 DEF Waiting
    <3>3. CASE k + d \notin DOMAIN steer
      <4>1. k + d = Len(steer) + 1
        BY <2>2, <2>4, <2>8, <3>3
      <4> QED BY <1>0, <2>2, <2>3, <3>1, <4>1, Zenon DEF InHand
    <3> QED BY <3>2, <3>3
  <2>10. Journaled'
    BY <1>0, <2>7, <2>9 DEF RelayInv, Journaled
  <2>11. OnePlace'
    <3> SUFFICES ASSUME NEW id \in MailIds
                 PROVE  /\ handed[id] <= 1
                        /\ \A k \in DOMAIN steer' : Waiting(k, id)' =>
                             /\ handed[id] = 0
                             /\ \A j \in DOMAIN steer' : Waiting(j, id)' => j = k
      BY <1>0, <2>7 DEF OnePlace
    <3>1. handed[id] <= 1
      BY DEF RelayInv, OnePlace
    <3>2. ASSUME NEW k \in DOMAIN steer', Waiting(k, id)'
          PROVE  handed[id] = 0
      BY <2>9, <3>2 DEF RelayInv, OnePlace
    <3>3. ASSUME NEW k \in DOMAIN steer', NEW j \in DOMAIN steer', Waiting(k, id)', Waiting(j, id)'
          PROVE  j = k
      <4>1. j + d = k + d
        BY <2>9, <3>3 DEF RelayInv, OnePlace
      <4> QED BY <2>8, <4>1
    <3> QED BY <3>1, <3>2, <3>3
  <2> QED BY <2>6, <2>10, <2>11 DEF RelayInv
<1> QED BY <1>2, <1>3

\* What Hand does.
LEMMA HandCounts ==
  ASSUME RelayInv, NEW ids, NEW told \in BOOLEAN, Hand(ids, told)
  PROVE  /\ handed' \in [MailIds -> Nat]
         /\ \A id \in MailIds : handed'[id] = IF told /\ id \in ids THEN handed[id] + 1
                                                                    ELSE handed[id]
BY DEF RelayInv, RelayType, Hand

\* The batch in hand is handed over, or lost.
LEMMA HandedOver ==
  ASSUME RelayInv, Alone, NEW r \in Relays, relay[r].pc \in {"sending", "taken"},
         NEW told \in BOOLEAN, Hand(relay[r].batch, told),
         relay' = [q \in Relays |-> relay'[q]],
         IsMemory(relay'[r]), relay'[r].batch \in {{}, relay[r].batch},
         relay'[r].pc \notin {"sending", "taken"}, relay'[r].journal = journal,
         UNCHANGED <<journal, steer>>
  PROVE  RelayInv'
<1>1. handed' \in [MailIds -> Nat]
  BY HandCounts
<1>2. \A id \in MailIds : \/ handed'[id] = handed[id]
                          \/ handed'[id] = handed[id] + 1 /\ InHand(r, id)
  BY HandCounts DEF InHand
<1>3. RelayType' /\ UpToDate'
  <2>1. /\ \A b \in journal' : b = [ids |-> b.ids, state |-> b.state]
        /\ steer' \in Seq(Entry) /\ relay'[r].batch \subseteq MailIds
    BY DEF RelayInv, RelayType
  <2> QED BY <1>1, <2>1, MemoryChanges, Zenon
<1>4. \A q \in Relays, id \in MailIds : ~InHand(q, id)'
  BY DEF InHand, Alone
<1>5. \A k, id : Waiting(k, id)' <=> Waiting(k, id)
  BY DEF Waiting
<1>6. \A id \in MailIds : handed[id] \in Nat
  BY DEF RelayInv, RelayType
<1>7. Journaled'
  BY <1>2, <1>4, <1>5, <1>6, Zenon DEF RelayInv, Journaled
<1>8. OnePlace'
  BY <1>2, <1>4, <1>5, <1>6 DEF RelayInv, OnePlace
<1> QED BY <1>3, <1>7, <1>8 DEF RelayInv

LEMMA QueueSteps ==
  ASSUME RelayInv, Alone, NEW r \in Relays, Queue(r) \/ QueueTaken(r)
  PROVE  RelayInv'
<1>0. /\ relay = [q \in Relays |-> relay[q]] /\ IsMemory(relay[r])
      /\ relay[r].pc \in {"sending", "taken"} /\ relay[r].journal = journal
      /\ UNCHANGED <<journal, steer>>
  BY Zenon DEF RelayInv, RelayType, UpToDate, At, Queue, QueueTaken
<1>1. CASE Queue(r)
  <2>1. PICK told \in BOOLEAN, result \in {"accepted", "unknown", "rejected"} :
          /\ Hand(relay[r].batch, told)
          /\ relay' = [relay EXCEPT ![r].pc = "sent", ![r].result = result]
    BY <1>1, Zenon DEF Queue
  <2>2. /\ relay' = [q \in Relays |-> relay'[q]] /\ IsMemory(relay'[r])
        /\ relay'[r].pc = "sent" /\ relay'[r].journal = journal /\ relay'[r].batch = relay[r].batch
    BY <1>0, <2>1 DEF IsMemory
  <2> QED BY <1>0, <2>1, <2>2, HandedOver, Zenon
<1>2. CASE QueueTaken(r)
  <2>1. PICK told \in BOOLEAN : Hand(relay[r].batch, told)
    BY <1>2 DEF QueueTaken
  <2>2. PICK pc \in {"idle", "sweeping"} : relay' = [relay EXCEPT ![r].pc = pc, ![r].batch = {}]
    BY <1>2, Zenon DEF QueueTaken, Swept
  <2>3. /\ relay' = [q \in Relays |-> relay'[q]] /\ IsMemory(relay'[r])
        /\ relay'[r].pc = pc /\ relay'[r].journal = journal /\ relay'[r].batch = {}
    BY <1>0, <2>2, Zenon DEF IsMemory
  <2> QED BY <1>0, <2>1, <2>2, <2>3, HandedOver
<1> QED BY <1>1, <1>2

\* Recording an outcome leaves the ids of the batches.
LEMMA RecordStep ==
  ASSUME RelayInv, Alone, NEW r \in Relays, Record(r)
  PROVE  RelayInv'
<1>0. /\ relay = [q \in Relays |-> relay[q]] /\ IsMemory(relay[r])
      /\ relay[r].journal = journal /\ UNCHANGED <<steer, handed>>
  BY Zenon DEF RelayInv, RelayType, UpToDate, At, Record, threadVars
<1> DEFINE New(b) == IF b.ids = relay[r].batch THEN [b EXCEPT !.state = relay[r].result] ELSE b
<1>1. journal' = {New(b) : b \in journal}
  BY <1>0, Zenon DEF Record
<1>2. \A b \in journal : New(b) = [ids |-> b.ids, state |-> New(b).state] /\ New(b).ids = b.ids
  BY DEF RelayInv, RelayType
<1> HIDE DEF New
<1>3. /\ relay' = [q \in Relays |-> relay'[q]] /\ IsMemory(relay'[r])
      /\ relay'[r].pc = "idle" /\ relay'[r].journal = journal' /\ relay'[r].batch = {}
  <2>1. relay' = [relay EXCEPT ![r].pc = "idle", ![r].journal = journal', ![r].batch = {},
                               ![r].steers = FALSE, ![r].result = "none"]
    BY Zenon DEF Record
  <2> QED BY <1>0, <2>1, Zenon DEF IsMemory
<1>4. RelayType' /\ UpToDate'
  <2>1. /\ \A b \in journal' : b = [ids |-> b.ids, state |-> b.state]
        /\ steer' \in Seq(Entry) /\ handed' \in [MailIds -> Nat]
    BY <1>0, <1>1, <1>2 DEF RelayInv, RelayType
  <2> QED BY <1>3, <2>1, MemoryChanges
<1>5. Attempted(journal) \subseteq Attempted(journal)'
  BY <1>1, <1>2 DEF Attempted
<1>6. \A q \in Relays, id \in MailIds : ~InHand(q, id)'
  BY <1>3 DEF InHand, Alone
<1> QED BY <1>0, <1>4, <1>5, <1>6, HandsNothing

\* Only an entry that is staged is taken, and it is no longer staged then.
LEMMA TakeStep ==
  ASSUME RelayInv, Alone, NEW r \in Relays, TakeForQueue(r)
  PROVE  RelayInv'
<1>0. /\ relay = [q \in Relays |-> relay[q]] /\ IsMemory(relay[r])
      /\ relay[r].pc = "sweeping" /\ relay[r].journal = journal
      /\ steer \in Seq(Entry) /\ UNCHANGED <<journal, handed>>
  BY DEF RelayInv, RelayType, UpToDate, At, TakeForQueue
<1>1. PICK key \in relay[r].sweep :
        \/ /\ IsStaged(key)
           /\ steer' = Moved({key}, "queued")
           /\ relay' = [relay EXCEPT ![r].pc = "taken", ![r].batch = key,
                                     ![r].sweep = relay[r].sweep \ {key}]
        \/ /\ UNCHANGED steer
           /\ relay' = [relay EXCEPT ![r].pc = Swept(relay[r].sweep \ {key}),
                                     ![r].sweep = relay[r].sweep \ {key}]
  BY Zenon DEF TakeForQueue
<1>2. CASE UNCHANGED steer /\ relay' = [relay EXCEPT ![r].pc = Swept(relay[r].sweep \ {key}),
                                                     ![r].sweep = relay[r].sweep \ {key}]
  <2>1. /\ relay' = [q \in Relays |-> relay'[q]] /\ IsMemory(relay'[r])
        /\ relay'[r].pc \in {"idle", "sweeping"} /\ relay'[r].journal = journal
        /\ relay'[r].batch = relay[r].batch
    BY <1>0, <1>2, Zenon DEF IsMemory, Swept
  <2> QED BY <1>0, <1>2, <2>1, Idles, Zenon
<1>3. CASE /\ IsStaged(key)
           /\ steer' = Moved({key}, "queued")
           /\ relay' = [relay EXCEPT ![r].pc = "taken", ![r].batch = key,
                                     ![r].sweep = relay[r].sweep \ {key}]
  <2>1. /\ relay' = [q \in Relays |-> relay'[q]] /\ IsMemory(relay'[r])
        /\ relay'[r].pc = "taken" /\ relay'[r].journal = journal /\ relay'[r].batch = key
    BY <1>0, <1>3, Zenon DEF IsMemory
  <2>2. /\ steer' \in Seq(Entry) /\ DOMAIN steer' = DOMAIN steer
        /\ \A k \in DOMAIN steer : /\ steer'[k].key = steer[k].key
                                   /\ steer'[k].state = IF steer[k].key \in {key} THEN "queued"
                                                                                  ELSE steer[k].state
    BY <1>0, <1>3, MovedKeeps
  <2>3. PICK n \in DOMAIN steer : steer[n].key = key /\ steer[n].state = "staged"
    BY <1>3 DEF IsStaged
  <2>4. key \subseteq MailIds
    <3>1. steer[n] \in Entry
      BY <1>0
    <3> QED BY <2>3, <3>1 DEF Entry
  <2>5. RelayType' /\ UpToDate'
    <3>1. /\ \A b \in journal' : b = [ids |-> b.ids, state |-> b.state]
          /\ handed' \in [MailIds -> Nat]
      BY <1>0 DEF RelayInv, RelayType
    <3> QED BY <1>0, <2>1, <2>2, <2>4, <3>1, MemoryChanges, Zenon
  <2>6. \A q \in Relays, id \in MailIds : InHand(q, id)' <=> id \in key
    BY <2>1 DEF InHand, Alone
  <2>7. \A k \in DOMAIN steer, id \in MailIds :
          Waiting(k, id)' => Waiting(k, id) /\ steer[k].key # key
    BY <2>2 DEF Waiting
  <2>8. \A id \in MailIds : id \in key => Waiting(n, id)
    BY <2>3 DEF Waiting
  <2>9. Journaled'
    BY <1>0, <2>2, <2>6, <2>7, <2>8 DEF RelayInv, Journaled
  <2>10. OnePlace'
    BY <1>0, <2>2, <2>3, <2>6, <2>7, <2>8 DEF RelayInv, OnePlace
  <2> QED BY <2>5, <2>9, <2>10 DEF RelayInv
<1> QED BY <1>1, <1>2, <1>3, Zenon

\* The hook marks what it hands over.
LEMMA HookStep ==
  ASSUME RelayInv, Alone, Hook
  PROVE  RelayInv'
<1>0. UNCHANGED <<journal, relay>> /\ steer \in Seq(Entry) /\ steer' = Moved(StagedKeys, "steered")
  BY DEF RelayInv, RelayType, Hook, processVars
<1>1. PICK told \in BOOLEAN : Hand(UNION StagedKeys, told)
  BY DEF Hook
<1>2. /\ steer' \in Seq(Entry) /\ DOMAIN steer' = DOMAIN steer
      /\ \A k \in DOMAIN steer : /\ steer'[k].key = steer[k].key
                                 /\ steer'[k].state = IF steer[k].key \in StagedKeys
                                                      THEN "steered" ELSE steer[k].state
  BY <1>0, MovedKeeps
<1>3. \A k \in DOMAIN steer', id \in MailIds : ~Waiting(k, id)'
  BY <1>2 DEF Waiting, StagedKeys
<1>4. handed' \in [MailIds -> Nat] /\ \A id \in MailIds : handed[id] \in Nat
  BY <1>1, HandCounts DEF RelayInv, RelayType
<1>5. \A id \in MailIds : \/ handed'[id] = handed[id]
                          \/ /\ handed'[id] = handed[id] + 1
                             /\ \E k \in DOMAIN steer : Waiting(k, id)
  BY <1>1, HandCounts DEF Waiting, StagedKeys
<1>6. \A r \in Relays, id \in MailIds : InHand(r, id)' <=> InHand(r, id)
  BY <1>0 DEF InHand
<1>7. RelayType' /\ UpToDate'
  BY <1>0, <1>2, <1>4, Zenon DEF RelayInv, RelayType, UpToDate, At
<1>8. Journaled'
  BY <1>0, <1>3, <1>4, <1>5, <1>6, Zenon DEF RelayInv, Journaled
<1>9. OnePlace'
  BY <1>0, <1>3, <1>4, <1>5, <1>6 DEF RelayInv, OnePlace
<1> QED BY <1>7, <1>8, <1>9 DEF RelayInv

LEMMA OutsideStep ==
  ASSUME RelayInv, UNCHANGED <<journal, relay, steer, handed>>
  PROVE  RelayInv'
<1>1. RelayType' /\ UpToDate'
  BY DEF RelayInv, RelayType, UpToDate, At
<1>2. \A r \in Relays, id \in MailIds : InHand(r, id)' => InHand(r, id)
  BY DEF InHand
<1>3. Attempted(journal) \subseteq Attempted(journal)'
  BY DEF Attempted
<1> QED BY <1>1, <1>2, <1>3, HandsNothing

----------------------------------------------------------------------------
\* The inductive invariant holds in every state of one relay (relay.py): every message
\* that is about to be handed over, or was, is in the journal, and in one place only.
THEOREM RelayInvariant ==
  ASSUME Alone
  PROVE  RelaySpec => []RelayInv
<1>1. RelayInit => RelayInv
  <2> SUFFICES ASSUME RelayInit PROVE RelayInv
    OBVIOUS
  <2>1. RelayType
    BY DEF RelayInit, RelayType, IsMemory, Off
  <2>2. UpToDate /\ Journaled /\ OnePlace
    BY DEF RelayInit, UpToDate, Journaled, OnePlace, At, InHand, Waiting, Off
  <2> QED BY <2>1, <2>2 DEF RelayInv
<1>2. RelayInv /\ [RelayNext]_relayVars => RelayInv'
  <2> SUFFICES ASSUME RelayInv, [RelayNext]_relayVars PROVE RelayInv'
    OBVIOUS
  <2>1. ASSUME NEW r \in Relays, Works(r) \/ LockedOut(r) \/ Once(r) \/ Baseline(r) \/ Leave(r) \/ Crash(r)
        PROVE  RelayInv'
    BY <2>1, ProcessSteps, SweepAndPollSteps, BaselineStep, DispatchStep, StageStep,
       QueueSteps, RecordStep, TakeStep, Zenon DEF Works
  <2>2. CASE Hook
    BY <2>2, HookStep
  <2>3. CASE BeginTurn \/ EndTurn \/ Truncate \/ RelayTraffic
    BY <2>3, OutsideStep DEF BeginTurn, EndTurn, Truncate, RelayTraffic, processVars, threadVars
  <2>4. CASE UNCHANGED relayVars
    BY <2>4, OutsideStep DEF relayVars, processVars, threadVars
  <2> QED BY <2>1, <2>2, <2>3, <2>4 DEF RelayNext
<1> QED BY <1>1, <1>2, PTL DEF RelaySpec

\* "Never ... retries an ambiguous send" (relay.py): as long as one process at a time
\* runs it, a relay points the thread to a message once at most, wherever it is killed
\* and whoever takes a staged pointer, the hook or its own sweep.
THEOREM RelayNeverReplays ==
  ASSUME Alone
  PROVE  RelaySpec => []NeverReplayed
<1>1. RelayInv => NeverReplayed
  BY DEF RelayInv, OnePlace, NeverReplayed
<1> QED BY <1>1, RelayInvariant, PTL

----------------------------------------------------------------------------
(* The cursor of the outbox, for any number of relays.                     *)

FrameRecord ==
  [frame: Frames, size: {"fits", "long"}, fate: {"new", "skipped", "refused", "posted"}]

\* The frames up to n are there, and something became of each.
Dealt(n) == n \in 0..Len(transcript) /\ \A k \in 1..n : transcript[k].fate # "new"

\* No process is further than the frames it has dealt with, and neither is the cursor.
FrameInv ==
  /\ transcript \in Seq(FrameRecord)
  /\ relay = [r \in Relays |-> relay[r]]
  /\ \A r \in Relays : "offset" \in DOMAIN relay[r] /\ Dealt(relay[r].offset)
  /\ cursor = <<>> \/ \E n \in Nat : cursor = <<n>> /\ Dealt(n)

\* Records are added, and none is new again.
Grows ==
  /\ transcript' \in Seq(FrameRecord)
  /\ Len(transcript) <= Len(transcript')
  /\ \A k \in 1..Len(transcript) : transcript[k].fate # "new" => transcript'[k].fate # "new"

LEMMA DealtStays ==
  ASSUME FrameInv, Grows, NEW n, Dealt(n)
  PROVE  n \in 0..Len(transcript') /\ \A k \in 1..n : transcript'[k].fate # "new"
<1>1. Len(transcript) \in Nat /\ Len(transcript') \in Nat
  BY DEF FrameInv, Grows
<1> QED BY <1>1 DEF Dealt, Grows

LEMMA FrameStep ==
  ASSUME FrameInv, Grows, relay' = [q \in Relays |-> relay'[q]],
         \A q \in Relays : /\ "offset" \in DOMAIN relay'[q]
                           /\ relay'[q].offset = relay[q].offset \/ Dealt(relay[q].offset)',
         cursor' = cursor \/ \E n \in Nat : cursor' = <<n>> /\ Dealt(n)'
  PROVE  FrameInv'
<1>1. \A n : Dealt(n) => Dealt(n)'
  BY DealtStays DEF Dealt
<1>2. ASSUME NEW q \in Relays PROVE Dealt(relay[q].offset)'
  <2>1. PICK n : n = relay[q].offset
    OBVIOUS
  <2>2. Dealt(n)'
    BY <1>1, <2>1 DEF FrameInv
  <2>3. CASE relay'[q].offset = relay[q].offset
    BY <2>1, <2>2, <2>3, Zenon DEF Dealt
  <2> QED BY <2>3
<1>3. cursor' = <<>> \/ \E n \in Nat : cursor' = <<n>> /\ Dealt(n)'
  BY <1>1 DEF FrameInv
<1> QED BY <1>2, <1>3 DEF FrameInv, Grows

LEMMA SameTranscript ==
  ASSUME FrameInv, transcript' = transcript
  PROVE  Grows
BY DEF FrameInv, Grows

LEMMA OffOffset == "offset" \in DOMAIN Off /\ Off.offset = 0
BY DEF Off

\* A process ends, or starts again from nothing.
LEMMA ResetKeeps ==
  ASSUME FrameInv, NEW r \in Relays, NEW m, "offset" \in DOMAIN m, m.offset = 0,
         relay' = [relay EXCEPT ![r] = m], UNCHANGED <<transcript, cursor>>
  PROVE  FrameInv'
<1>1. Grows
  BY SameTranscript
<1>2. relay' = [q \in Relays |-> relay'[q]] /\ relay'[r] = m /\ \A q \in Relays : q # r => relay'[q] = relay[q]
  BY DEF FrameInv
<1>3. Dealt(relay[r].offset)'
  BY <1>1, <1>2 DEF Dealt, Grows
<1>4. \A q \in Relays : /\ "offset" \in DOMAIN relay'[q]
                        /\ relay'[q].offset = relay[q].offset \/ Dealt(relay[q].offset)'
  BY <1>2, <1>3 DEF FrameInv
<1> QED BY <1>1, <1>2, <1>4, FrameStep

\* Steps of a process that read no frame.
LEMMA OtherSteps ==
  ASSUME FrameInv, NEW r \in Relays, UNCHANGED <<transcript, cursor>>,
         \/ Load(r) \/ LockedOut(r) \/ Once(r) \/ Baseline(r) \/ Leave(r) \/ Crash(r) \/ Dispatch(r)
         \/ Stage(r) \/ Queue(r) \/ Record(r) \/ BeginSweep(r) \/ TakeForQueue(r) \/ QueueTaken(r)
  PROVE  FrameInv'
<1>1. CASE LockedOut(r) \/ Baseline(r) \/ Leave(r) \/ Crash(r)
  BY <1>1, OffOffset, ResetKeeps, Zenon DEF LockedOut, Baseline, Leave, Crash, Quit
<1>2. CASE Load(r)
  <2> DEFINE m == [Off EXCEPT !.pc = "loaded", !.journal = journal]
  <2>1. "offset" \in DOMAIN m /\ m.offset = 0
    BY DEF Off
  <2>2. relay' = [relay EXCEPT ![r] = m]
    BY <1>2 DEF Load
  <2> HIDE DEF m
  <2> QED BY <2>1, <2>2, ResetKeeps, Zenon
<1>3. ASSUME relay' = [q \in Relays |-> relay'[q]], "offset" \in DOMAIN relay'[r],
             relay'[r].offset = relay[r].offset, \A q \in Relays : q # r => relay'[q] = relay[q]
      PROVE  FrameInv'
  <2>1. \A q \in Relays : "offset" \in DOMAIN relay'[q] /\ relay'[q].offset = relay[q].offset
    BY <1>3 DEF FrameInv
  <2> QED BY <1>3, <2>1, SameTranscript, FrameStep
<1>4. relay = [q \in Relays |-> relay[q]] /\ "offset" \in DOMAIN relay[r]
  BY DEF FrameInv
<1>5. CASE Once(r)
  BY <1>3, <1>4, <1>5, Zenon DEF Once
<1>6. CASE Dispatch(r)
  <2>1. PICK only \in OnlyIds(r) : \E last \in Candidates(relay[r].journal, only) :
          relay' = [relay EXCEPT ![r].pc = "sending", ![r].journal = journal',
                      ![r].batch = {q.msg.id : q \in {q \in Candidates(relay[r].journal, only) : q.seq <= last.seq}},
                      ![r].steers = last.msg.mode = "steer"]
    BY <1>6, Zenon DEF Dispatch
  <2>2. PICK b, p : relay' = [relay EXCEPT ![r].pc = "sending", ![r].journal = journal', ![r].batch = b, ![r].steers = p]
    BY <2>1, ZenonT(30)
  <2> QED BY <1>3, <1>4, <2>2, Zenon
<1>7. CASE Stage(r) \/ Queue(r) \/ Record(r)
  BY <1>3, <1>4, <1>7 DEF Stage, Queue, Record
<1>8. CASE BeginSweep(r) \/ QueueTaken(r)
  BY <1>3, <1>4, <1>8 DEF BeginSweep, QueueTaken
<1>9. CASE TakeForQueue(r)
  <2>1. PICK p, b, rest : \/ relay' = [relay EXCEPT ![r].pc = p, ![r].batch = b, ![r].sweep = rest]
                         \/ relay' = [relay EXCEPT ![r].pc = p, ![r].sweep = rest]
    BY <1>9, ZenonT(30) DEF TakeForQueue
  <2> QED BY <1>3, <1>4, <2>1
<1> QED BY <1>1, <1>2, <1>5, <1>6, <1>7, <1>8, <1>9

\* A first watch passes the transcript over; a later one goes on from the cursor.
LEMMA WatchKeeps ==
  ASSUME FrameInv, NEW r \in Relays, Watch(r)
  PROVE  FrameInv'
<1> DEFINE offset == IF cursor = <<>> THEN Len(transcript) ELSE Head(cursor)
<1>1. /\ relay' = [relay EXCEPT ![r].pc = "idle", ![r].watch = TRUE, ![r].offset = offset]
      /\ cursor' = <<offset>>
      /\ transcript' = [k \in DOMAIN transcript |->
                          IF cursor = <<>> THEN [transcript[k] EXCEPT !.fate = "skipped"] ELSE transcript[k]]
  BY DEF Watch
<1>2. Len(transcript) \in Nat /\ DOMAIN transcript = 1..Len(transcript)
      /\ \A k \in 1..Len(transcript) : transcript[k] \in FrameRecord
  BY DEF FrameInv
<1>3. \A k \in 1..Len(transcript) :
        /\ transcript'[k] \in FrameRecord
        /\ transcript[k].fate # "new" => transcript'[k].fate # "new"
        /\ cursor = <<>> => transcript'[k].fate # "new"
  BY <1>1, <1>2 DEF FrameRecord
<1>4. transcript' \in Seq(FrameRecord) /\ Len(transcript') = Len(transcript)
  <2>1. transcript' = [k \in 1..Len(transcript) |-> transcript'[k]]
    BY <1>1, <1>2
  <2> QED BY <1>2, <1>3, <2>1
<1>5. Grows
  BY <1>2, <1>3, <1>4 DEF Grows
<1>6. PICK n \in Nat : n = offset /\ Dealt(n)'
  <2>1. CASE cursor = <<>>
    <3>1. PICK n \in Nat : n = Len(transcript)
      BY <1>2, Zenon
    <3>2. Dealt(n)'
      BY <1>3, <1>4, <2>1, <3>1 DEF Dealt
    <3> QED BY <2>1, <3>1, <3>2
  <2>2. CASE cursor # <<>>
    <3>1. PICK n \in Nat : cursor = <<n>> /\ Dealt(n)
      BY <2>2 DEF FrameInv
    <3>2. Dealt(n)' /\ offset = n
      BY <1>5, <2>2, <3>1, DealtStays DEF Dealt
    <3> QED BY <3>2
  <2> QED BY <2>1, <2>2
<1> HIDE DEF offset
<1>7. /\ relay' = [q \in Relays |-> relay'[q]] /\ "offset" \in DOMAIN relay'[r] /\ relay'[r].offset = n
      /\ \A q \in Relays : q # r => relay'[q] = relay[q]
  BY <1>1, <1>6, Zenon DEF FrameInv
<1>8. Dealt(relay[r].offset)'
  BY <1>6, <1>7 DEF Dealt
<1>9. \A q \in Relays : /\ "offset" \in DOMAIN relay'[q]
                        /\ relay'[q].offset = relay[q].offset \/ Dealt(relay[q].offset)'
  BY <1>7, <1>8 DEF FrameInv
<1> QED BY <1>1, <1>5, <1>6, <1>7, <1>9, FrameStep, Zenon

\* poll deals with the frame behind its offset, or the process ends.
LEMMA PollKeeps ==
  ASSUME FrameInv, NEW r \in Relays, Poll(r)
  PROVE  FrameInv'
<1> DEFINE k == relay[r].offset + 1
<1>1. /\ Len(transcript) \in Nat /\ DOMAIN transcript = 1..Len(transcript)
      /\ \A j \in 1..Len(transcript) : transcript[j] \in FrameRecord
      /\ Dealt(relay[r].offset) /\ relay = [q \in Relays |-> relay[q]] /\ "offset" \in DOMAIN relay[r]
  BY DEF FrameInv
<1>2. cursor' = cursor
  BY Zenon DEF Poll
<1>3. \/ /\ k <= Len(transcript) /\ \E fate \in {"refused", "posted"} : Fated(k, fate)
         /\ relay' = [relay EXCEPT ![r].pc = "polled", ![r].offset = k]
      \/ relay' = [relay EXCEPT ![r] = Off] /\ transcript' = transcript
  BY Zenon DEF Poll, Quit
<1>4. CASE relay' = [relay EXCEPT ![r] = Off] /\ transcript' = transcript
  BY <1>2, <1>4, OffOffset, ResetKeeps, Zenon
<1>5. ASSUME NEW fate \in {"refused", "posted"}, k <= Len(transcript), Fated(k, fate),
             relay' = [relay EXCEPT ![r].pc = "polled", ![r].offset = k]
      PROVE  FrameInv'
  <2>1. PICK n \in 1..Len(transcript) : n = k
    BY <1>1, <1>5 DEF Dealt
  <2>2. transcript' = [transcript EXCEPT ![n].fate = fate]
    BY <1>5, <2>1, Zenon DEF Fated
  <2>3. \A j \in 1..Len(transcript) :
          /\ transcript'[j] \in FrameRecord
          /\ j # n => transcript'[j] = transcript[j]
    BY <1>1, <2>2 DEF FrameRecord
  <2>4. transcript'[n].fate = fate
    BY <1>1, <2>2 DEF FrameRecord
  <2>5. transcript' \in Seq(FrameRecord) /\ Len(transcript') = Len(transcript)
    <3>1. transcript' = [j \in 1..Len(transcript) |-> transcript'[j]]
      BY <1>1, <2>2, Zenon
    <3> QED BY <1>1, <2>3, <3>1
  <2>6. Grows
    BY <1>1, <1>5, <2>3, <2>4, <2>5 DEF Grows
  <2>7. \A j \in 1..n : transcript'[j].fate # "new"
    <3> SUFFICES ASSUME NEW j \in 1..n, j # n PROVE transcript'[j].fate # "new"
      BY <1>5, <2>4
    <3>1. j \in 1..relay[r].offset /\ j \in 1..Len(transcript)
      BY <1>1, <2>1 DEF Dealt
    <3> QED BY <1>1, <2>3, <3>1 DEF Dealt
  <2>8. Dealt(n)'
    BY <1>1, <2>5, <2>7 DEF Dealt
  <2> HIDE DEF k
  <2>9. /\ relay' = [q \in Relays |-> relay'[q]] /\ "offset" \in DOMAIN relay'[r] /\ relay'[r].offset = n
        /\ \A q \in Relays : q # r => relay'[q] = relay[q]
    BY <1>1, <1>5, <2>1, Zenon
  <2>10. Dealt(relay[r].offset)'
    BY <2>8, <2>9 DEF Dealt
  <2>11. \A q \in Relays : /\ "offset" \in DOMAIN relay'[q]
                           /\ relay'[q].offset = relay[q].offset \/ Dealt(relay[q].offset)'
    BY <2>9, <2>10 DEF FrameInv
  <2> QED BY <1>2, <2>6, <2>9, <2>11, FrameStep
<1> QED BY <1>3, <1>4, <1>5, Zenon

LEMMA SaveCursorKeeps ==
  ASSUME FrameInv, NEW r \in Relays, SaveCursor(r)
  PROVE  FrameInv'
<1>1. transcript' = transcript /\ cursor' = <<relay[r].offset>> /\ relay' = [relay EXCEPT ![r].pc = "idle"]
  BY DEF SaveCursor, threadVars
<1>2. Grows
  BY <1>1, SameTranscript
<1>3. PICK n \in Nat : n = relay[r].offset /\ Dealt(n)
  BY DEF FrameInv, Dealt
<1>4. Dealt(n)'
  BY <1>2, <1>3, DealtStays, Zenon DEF Dealt
<1>5. relay' = [q \in Relays |-> relay'[q]]
      /\ \A q \in Relays : "offset" \in DOMAIN relay'[q] /\ relay'[q].offset = relay[q].offset
  BY <1>1, Zenon DEF FrameInv
<1> QED BY <1>1, <1>2, <1>3, <1>4, <1>5, FrameStep, Zenon

LEMMA EndTurnKeeps ==
  ASSUME FrameInv, EndTurn
  PROVE  FrameInv'
<1>1. relay' = relay /\ cursor' = cursor
  BY DEF EndTurn, processVars
<1>2. Grows
  <2>1. CASE transcript' = transcript
    BY <2>1, SameTranscript
  <2>2. ASSUME NEW f \in Frames, NEW size \in {"fits", "long"},
               transcript' = Append(transcript, [frame |-> f, size |-> size, fate |-> "new"])
        PROVE  Grows
    <3>1. [frame |-> f, size |-> size, fate |-> "new"] \in FrameRecord
      BY DEF FrameRecord
    <3>2. /\ transcript' \in Seq(FrameRecord) /\ Len(transcript') = Len(transcript) + 1
          /\ \A k \in 1..Len(transcript) : transcript'[k] = transcript[k]
      BY <2>2, <3>1 DEF FrameInv
    <3>3. Len(transcript) \in Nat
      BY DEF FrameInv
    <3> QED BY <3>2, <3>3 DEF Grows
  <2> QED BY <2>1, <2>2, Zenon DEF EndTurn
<1> QED BY <1>1, <1>2, FrameStep DEF FrameInv

\* Records that nobody has read are lost.
LEMMA TruncateKeeps ==
  ASSUME FrameInv, Truncate, ~shrunk'
  PROVE  FrameInv'
<1>1. relay' = relay /\ cursor' = cursor
  BY DEF Truncate, processVars
<1>2. PICK n \in 0..Len(transcript) - 1 :
        transcript' = SubSeq(transcript, 1, n) /\ ~\E m \in Offsets : m > n
  BY Zenon DEF Truncate
<1>3. /\ n \in Nat /\ Len(transcript) \in Nat /\ n <= Len(transcript)
      /\ transcript' \in Seq(FrameRecord) /\ Len(transcript') = n
      /\ \A k \in 1..n : transcript'[k] = transcript[k]
  BY <1>2 DEF FrameInv
<1>4. ASSUME NEW m \in Offsets, Dealt(m) PROVE Dealt(m)'
  <2>1. m \in Nat /\ m <= n
    BY <1>2, <1>3, <1>4 DEF Dealt
  <2> QED BY <1>3, <1>4, <2>1 DEF Dealt
<1>5. ASSUME NEW r \in Relays PROVE Dealt(relay[r].offset)'
  <2>1. PICK m : m = relay[r].offset /\ m \in Offsets /\ Dealt(m)
    BY Zenon DEF Offsets, FrameInv
  <2>2. Dealt(m)'
    BY <1>4, <2>1
  <2> QED BY <1>1, <2>1, <2>2 DEF Dealt
<1>6. ASSUME cursor # <<>> PROVE \E m \in Nat : cursor' = <<m>> /\ Dealt(m)'
  <2>1. PICK m \in Nat : cursor = <<m>> /\ Dealt(m)
    BY <1>6 DEF FrameInv
  <2>2. m \in Offsets
    BY <2>1 DEF Offsets
  <2> QED BY <1>1, <1>4, <2>1, <2>2
<1> QED BY <1>1, <1>3, <1>5, <1>6 DEF FrameInv

\* Only a cut can be one below an offset.
LEMMA ShrinksByTruncate ==
  ASSUME [RelayNext]_relayVars, ~Truncate
  PROVE  shrunk' = shrunk
<1>1. ASSUME NEW r \in Relays, Works(r) \/ LockedOut(r) \/ Once(r) \/ Baseline(r) \/ Leave(r) \/ Crash(r)
      PROVE  shrunk' = shrunk
  <2>1. CASE Load(r) \/ LockedOut(r) \/ Once(r) \/ Baseline(r) \/ Leave(r) \/ Crash(r) \/ Watch(r)
    BY <2>1, Zenon DEF Load, LockedOut, Once, Baseline, Leave, Crash, Watch, threadVars
  <2>2. CASE Dispatch(r) \/ Stage(r) \/ Queue(r) \/ Record(r) \/ BeginSweep(r)
    BY <2>2, Zenon DEF Dispatch, Stage, Queue, Record, BeginSweep, threadVars
  <2>3. CASE TakeForQueue(r) \/ QueueTaken(r) \/ Poll(r) \/ SaveCursor(r)
    BY <2>3, Zenon DEF TakeForQueue, QueueTaken, Poll, SaveCursor, threadVars
  <2> QED BY <1>1, <2>1, <2>2, <2>3, Zenon DEF Works
<1>2. CASE Hook \/ BeginTurn \/ EndTurn \/ RelayTraffic \/ UNCHANGED relayVars
  BY <1>2, Zenon DEF Hook, BeginTurn, EndTurn, RelayTraffic, relayVars, threadVars
<1> QED BY <1>1, <1>2, Zenon DEF RelayNext

----------------------------------------------------------------------------
\* The saved cursor never passes a frame nothing became of, so that no reply of the
\* thread is lost between its post and the cursor: for any number of relays, wherever
\* they end, as long as the transcript was not cut below an offset (CodexOutbox.poll
\* and save).
THEOREM RelayFramesDealt == RelaySpec => []FramesDealt
<1>1. RelayInit => (~shrunk => FrameInv)
  <2> SUFFICES ASSUME RelayInit PROVE FrameInv
    OBVIOUS
  <2>1. transcript \in Seq(FrameRecord) /\ Len(transcript) = 0 /\ cursor = <<>>
    BY DEF RelayInit
  <2>2. Dealt(0)
    BY <2>1 DEF Dealt
  <2>3. relay = [r \in Relays |-> relay[r]] /\ \A r \in Relays : relay[r] = Off
    BY DEF RelayInit
  <2> QED BY <2>1, <2>2, <2>3, OffOffset DEF FrameInv
<1>2. (~shrunk => FrameInv) /\ [RelayNext]_relayVars => (~shrunk => FrameInv)'
  <2> SUFFICES ASSUME ~shrunk => FrameInv, [RelayNext]_relayVars, ~shrunk' PROVE FrameInv'
    OBVIOUS
  <2>0. FrameInv
    <3>1. CASE Truncate
      <4>1. PICK n \in 0..Len(transcript) - 1 : shrunk' = (shrunk \/ \E m \in Offsets : m > n)
        BY <3>1, Zenon DEF Truncate
      <4> QED BY <4>1, Zenon
    <3>2. CASE ~Truncate
      BY <3>2, ShrinksByTruncate, Zenon
    <3> QED BY <3>1, <3>2
  <2>1. ASSUME NEW r \in Relays, Works(r) \/ LockedOut(r) \/ Once(r) \/ Baseline(r) \/ Leave(r) \/ Crash(r)
        PROVE  FrameInv'
    <3>1. CASE Watch(r)
      BY <2>0, <3>1, WatchKeeps
    <3>2. CASE Poll(r)
      BY <2>0, <3>2, PollKeeps
    <3>3. CASE SaveCursor(r)
      BY <2>0, <3>3, SaveCursorKeeps
    <3>4. CASE Load(r) \/ LockedOut(r) \/ Once(r) \/ Baseline(r) \/ Leave(r) \/ Crash(r)
      <4>1. UNCHANGED <<transcript, cursor>>
        BY <3>4, Zenon DEF Load, LockedOut, Once, Baseline, Leave, Crash, threadVars
      <4> QED BY <2>0, <3>4, <4>1, OtherSteps
    <3>5. CASE Dispatch(r) \/ Stage(r) \/ Queue(r) \/ Record(r) \/ BeginSweep(r) \/ TakeForQueue(r) \/ QueueTaken(r)
      <4>1. UNCHANGED <<transcript, cursor>>
        BY <3>5, Zenon DEF Dispatch, Stage, Queue, Record, BeginSweep, TakeForQueue, QueueTaken, threadVars
      <4> QED BY <2>0, <3>5, <4>1, OtherSteps
    <3> QED BY <2>1, <3>1, <3>2, <3>3, <3>4, <3>5 DEF Works
  <2>2. CASE EndTurn
    BY <2>0, <2>2, EndTurnKeeps
  <2>3. CASE Hook \/ BeginTurn \/ RelayTraffic \/ UNCHANGED relayVars
    <3>1. UNCHANGED <<transcript, cursor, relay>>
      BY <2>3 DEF Hook, BeginTurn, RelayTraffic, relayVars, processVars, threadVars
    <3> QED BY <2>0, <3>1, SameTranscript, FrameStep, Zenon DEF FrameInv
  <2>4. CASE Truncate
    BY <2>0, <2>4, TruncateKeeps
  <2> QED BY <2>1, <2>2, <2>3, <2>4 DEF RelayNext
<1>3. (~shrunk => FrameInv) => FramesDealt
  <2> SUFFICES ASSUME FrameInv, cursor # <<>> PROVE \A k \in 1..Head(cursor) : transcript[k].fate # "new"
    BY DEF FramesDealt
  <2>1. PICK n \in Nat : cursor = <<n>> /\ Dealt(n)
    BY DEF FrameInv
  <2>2. Head(cursor) = n
    BY <2>1
  <2> QED BY <2>1, <2>2 DEF Dealt
<1> QED BY <1>1, <1>2, <1>3, PTL DEF RelaySpec

----------------------------------------------------------------------------
(* From here on the cardinality of finite sets is needed.                  *)
INSTANCE FiniteSetTheorems

(***************************************************************************)
(* 2. ClaudeHook                                                           *)
(***************************************************************************)
HookSpec == HookInit /\ [][HookNext]_hookVars

----------------------------------------------------------------------------
HookRow == [seq: Nat, msg: HookMail, status: {"pending", "acked", "replied"}, live: BOOLEAN]

HookRecord == [pc: {"ready", "collected", "shown"}, session: Sessions \cup {"none"},
               rows: SUBSET HookRow, cursor: [Mailboxes -> Nat]]

TableOk ==
  /\ lastSeq \in Nat
  /\ table \in SUBSET HookRow /\ IsFiniteSet(table)
  /\ \A r \in table : r.seq <= lastSeq

HookType ==
  /\ seen \in [Sessions -> [Mailboxes -> Nat]]
  /\ hook \in [Hooks -> HookRecord]
  /\ DOMAIN shown = Sessions /\ DOMAIN passed = Sessions

\* What waits in mailbox a up to cursor n is among ids.
Behind(a, n, ids) == n <= lastSeq /\ \A r \in Pending(a) : r.seq <= n => r.msg.id \in ids

Known(s) == shown[s] \cup passed[s]

SeenOk(s) == \A a \in Mailboxes : Behind(a, seen[s][a], Known(s))

\* A hook's cursors cover what it has printed or is about to print.
Printing(h) == IF hook[h].pc = "collected" THEN {r.msg.id : r \in hook[h].rows} ELSE {}

HookOk(h) ==
  hook[h].pc # "ready" =>
    /\ hook[h].session \in Sessions
    /\ \A a \in Mailboxes : Behind(a, hook[h].cursor[a], Known(hook[h].session) \cup Printing(h))

HookInv ==
  /\ TableOk
  /\ HookType
  /\ \A s \in Sessions : SeenOk(s)
  /\ \A h \in Hooks : HookOk(h)

----------------------------------------------------------------------------
LEMMA LeastOf ==
  ASSUME NEW T, T \subseteq Nat, T # {}
  PROVE  \E n \in T : \A m \in T : n <= m
<1> DEFINE R == OpToRel(<, Nat)
<1>1. IsWellFoundedOn(R, Nat)
  BY NatLessThanWellFounded, Zenon
<1>2. \E x \in T : \A y \in T : ~(<<y, x>> \in R)
  <2> HIDE DEF R
  <2> QED BY <1>1, WFMin, Zenon
<1>3. \A x, y \in Nat : <<y, x>> \in R <=> y < x
  BY DEF OpToRel
<1> HIDE DEF R
<1>4. PICK x \in T : \A y \in T : ~(<<y, x>> \in R)
  BY <1>2
<1>5. ASSUME NEW m \in T PROVE x <= m
  <2>1. x \in Nat /\ m \in Nat /\ ~(m < x)
    BY <1>3, <1>4, Zenon
  <2> QED BY <2>1
<1> QED BY <1>5

\* Top is the highest seq of the rows there are.
LEMMA TopOf ==
  ASSUME NEW L \in Nat, NEW rows \in SUBSET HookRow, \A r \in rows : r.seq <= L
  PROVE  /\ Top(rows, 0) \in Nat /\ Top(rows, 0) <= L
         /\ \A r \in rows : r.seq <= Top(rows, 0)
         /\ rows # {} => \E r \in rows : r.seq = Top(rows, 0)
<1>1. CASE rows = {}
  BY <1>1 DEF Top
<1>2. CASE rows # {}
  <2> DEFINE T == {L - r.seq : r \in rows}
  <2>1. \A r \in rows : r.seq \in Nat /\ r.seq <= L /\ L - r.seq \in Nat /\ L - r.seq \in T
    BY DEF HookRow
  <2>2. T \subseteq Nat /\ T # {}
    BY <1>2, <2>1
  <2>3. PICK n \in T : \A m \in T : n <= m
    BY <2>2, LeastOf, Zenon
  <2>4. PICK t \in rows : n = L - t.seq
    OBVIOUS
  <2>5. \A r \in rows : r.seq <= t.seq
    <3> SUFFICES ASSUME NEW r \in rows PROVE r.seq <= t.seq
      OBVIOUS
    <3>1. L - t.seq <= L - r.seq
      BY <2>1, <2>3, <2>4
    <3> QED BY <2>1, <3>1
  <2>6. \E k \in {r.seq : r \in rows} : \A r \in rows : r.seq <= k
    BY <2>5
  <2>7. Top(rows, 0) \in {r.seq : r \in rows} /\ \A r \in rows : r.seq <= Top(rows, 0)
    BY <1>2, <2>6 DEF Top
  <2> QED BY <2>1, <2>7
<1> QED BY <1>1, <1>2

LEMMA LargerOf ==
  ASSUME NEW m \in Nat, NEW n \in Nat
  PROVE  /\ Larger(m, n) \in Nat /\ Larger(m, n) \in {m, n}
         /\ m <= Larger(m, n) /\ n <= Larger(m, n)
BY DEF Larger

\* A cut has every row before one that it has.
LEMMA CutIsFirst ==
  ASSUME NEW rows \in SUBSET HookRow, IsFiniteSet(rows), NEW t \in Cut(rows), NEW r \in rows, r.seq <= t.seq
  PROVE  r \in Cut(rows)
<1> DEFINE before(x) == {q \in rows : q.seq < x.seq}
<1>1. before(t) \in SUBSET rows /\ before(r) \in SUBSET before(t)
  BY DEF Cut, HookRow
<1>2. IsFiniteSet(before(t)) /\ Cardinality(before(t)) < MaxPointers
  BY <1>1, FS_Subset DEF Cut
<1> HIDE DEF before
<1>3. IsFiniteSet(before(r)) /\ Cardinality(before(r)) <= Cardinality(before(t))
  BY <1>1, <1>2, FS_Subset
<1>4. Cardinality(before(r)) \in Nat /\ Cardinality(before(t)) \in Nat
  BY <1>2, <1>3, FS_CardinalityType
<1>5. Cardinality(before(r)) < MaxPointers
  BY <1>2, <1>3, <1>4, PointersAssumption
<1> QED BY <1>5 DEF Cut, before

LEMMA ImageFinite ==
  ASSUME NEW S, IsFiniteSet(S), NEW T, NEW f \in [S -> T], NEW I,
         \A x \in S : f[x] \in I, \A y \in I : \E x \in S : f[x] = y
  PROVE  IsFiniteSet(I)
<1>1. f \in Surjection(S, I)
  BY DEF Surjection
<1> QED BY <1>1, FS_Surjection

----------------------------------------------------------------------------
(* What happens in the table.                                              *)

LEMMA KeptRows ==
  ASSUME TableOk
  PROVE  Kept(table) \in SUBSET HookRow /\ Kept(table) \subseteq table /\ IsFiniteSet(Kept(table))
<1>1. Kept(table) \in SUBSET table
  BY DEF Kept
<1> QED BY <1>1, FS_Subset DEF TableOk

\* Whatever is posted, answered, acknowledged, pruned or lapses, a row that waits
\* waited before or is new, with a seq that no cursor has reached.
TrafficStep ==
  /\ TableOk'
  /\ lastSeq <= lastSeq'
  /\ \A a : \A r \in Pending(a)' : r.seq <= lastSeq => r \in Pending(a)

LEMMA TableMoves ==
  ASSUME TableOk, NEW f \in [Kept(table) -> HookRow],
         \A r \in Kept(table) : f[r].seq = r.seq /\ (f[r] = r \/ f[r].status # "pending"),
         table' = {f[r] : r \in Kept(table)}, lastSeq' = lastSeq
  PROVE  TrafficStep
<1>1. Kept(table) \subseteq table /\ IsFiniteSet(Kept(table))
  BY KeptRows
<1>2. IsFiniteSet(table')
  <2>1. (\A r \in Kept(table) : f[r] \in table') /\ \A y \in table' : \E r \in Kept(table) : f[r] = y
    OBVIOUS
  <2> QED BY <1>1, <2>1, ImageFinite, Zenon
<1>3. TableOk'
  BY <1>1, <1>2 DEF TableOk
<1>4. \A a : \A r \in Pending(a)' : r \in Pending(a)
  BY <1>1 DEF Pending
<1> QED BY <1>3, <1>4 DEF TrafficStep, TableOk

LEMMA TrafficMoves ==
  ASSUME TableOk, Traffic(HookMail)
  PROVE  TrafficStep
<1>1. CASE Inbox
  <2> DEFINE f == [r \in Kept(table) |-> r]
  <2>1. f \in [Kept(table) -> HookRow]
    BY KeptRows
  <2>2. table' = {f[r] : r \in Kept(table)} /\ lastSeq' = lastSeq
    BY <1>1 DEF Inbox
  <2>3. \A r \in Kept(table) : f[r] = r
    OBVIOUS
  <2> HIDE DEF f
  <2> QED BY <2>1, <2>2, <2>3, TableMoves
<1>2. ASSUME NEW m \in HookMail, Ack(m.id, m.to) PROVE TrafficStep
  <2> DEFINE g(r) == IF r.msg.id = m.id /\ r.msg.to = m.to /\ r.status = "pending"
                     THEN [r EXCEPT !.status = "acked"] ELSE r
             f == [r \in Kept(table) |-> g(r)]
  <2>1. \A r \in HookRow : g(r) \in HookRow /\ g(r).seq = r.seq /\ (g(r) = r \/ g(r).status # "pending")
    BY DEF HookRow
  <2>2. table' = {g(r) : r \in Kept(table)} /\ lastSeq' = lastSeq
    BY <1>2 DEF Ack
  <2> HIDE DEF g
  <2>3. f \in [Kept(table) -> HookRow]
    BY <2>1, KeptRows
  <2>4. \A r \in Kept(table) : f[r].seq = r.seq /\ (f[r] = r \/ f[r].status # "pending")
    BY <2>1, KeptRows
  <2>5. table' = {f[r] : r \in Kept(table)}
    BY <2>2
  <2> HIDE DEF f
  <2> QED BY <2>2, <2>3, <2>4, <2>5, TableMoves, Zenon
<1>3. ASSUME NEW r \in table, Lapse(r) PROVE TrafficStep
  <2> DEFINE q == [r EXCEPT !.live = FALSE]
  <2>1. table' = (table \ {r}) \cup {q} /\ lastSeq' = lastSeq
    BY <1>3 DEF Lapse
  <2>2. q \in HookRow /\ q.seq = r.seq /\ q.live = FALSE
    BY Zenon DEF TableOk, HookRow
  <2> HIDE DEF q
  <2>3. IsFiniteSet((table \ {r}) \cup {q})
    BY FS_RemoveElement, FS_AddElement, Zenon DEF TableOk
  <2>4. TableOk'
    BY <2>1, <2>2, <2>3 DEF TableOk
  <2>5. \A a : \A x \in Pending(a)' : x \in Pending(a)
    BY <2>1, <2>2 DEF Pending
  <2> QED BY <2>1, <2>4, <2>5 DEF TrafficStep, TableOk
<1>4. ASSUME NEW m \in HookMail, Post(m) PROVE TrafficStep
  <2>1. CASE UNCHANGED storeVars
    BY <2>1 DEF storeVars, TrafficStep, TableOk, Pending
  <2>2. CASE table' = Kept(table) /\ lastSeq' = lastSeq
    <3>1. Inbox
      BY <2>2 DEF Inbox
    <3> QED BY <1>1, <3>1
  <2>3. CASE table' = Replied(Kept(table), m.parent) \cup {Row(m)} /\ lastSeq' = lastSeq + 1
    <3> DEFINE g(r) == IF r.msg.id = m.parent THEN [r EXCEPT !.status = "replied"] ELSE r
               f == [r \in Kept(table) |-> g(r)]
               old == {f[r] : r \in Kept(table)}
    <3>1. \A r \in HookRow : g(r) \in HookRow /\ g(r).seq = r.seq /\ (g(r) = r \/ g(r).status # "pending")
      BY DEF HookRow
    <3>2. table' = {g(r) : r \in Kept(table)} \cup {Row(m)}
      BY <2>3 DEF Replied
    <3> HIDE DEF g
    <3>3. f \in [Kept(table) -> HookRow]
      BY <3>1, KeptRows
    <3>4. \A r \in Kept(table) : f[r].seq = r.seq /\ (f[r] = r \/ f[r].status # "pending")
      BY <3>1, KeptRows
    <3>5. table' = old \cup {Row(m)}
      BY <3>2
    <3> HIDE DEF f
    <3>6. IsFiniteSet(old)
      <4>1. (\A r \in Kept(table) : f[r] \in old) /\ \A y \in old : \E r \in Kept(table) : f[r] = y
        OBVIOUS
      <4> HIDE DEF old
      <4> QED BY <3>3, <4>1, KeptRows, ImageFinite
    <3>7. \A x \in old : \E r \in table : x.seq = r.seq /\ x \in HookRow /\ (x = r \/ x.status # "pending")
      BY <3>3, <3>4, KeptRows
    <3> HIDE DEF old
    <3>8. IsFiniteSet(old \cup {Row(m)})
      BY <3>6, FS_AddElement
    <3>9. Row(m) \in HookRow /\ Row(m).seq = lastSeq + 1 /\ lastSeq \in Nat
      BY DEF Row, HookRow, TableOk
    <3>10. \A x \in table' : x \in HookRow /\ x.seq <= lastSeq'
      BY <2>3, <3>5, <3>7, <3>9 DEF TableOk, HookRow
    <3>11. TableOk'
      BY <2>3, <3>5, <3>8, <3>9, <3>10 DEF TableOk
    <3>12. \A a : \A x \in Pending(a)' : x.seq <= lastSeq => x \in Pending(a)
      BY <3>5, <3>7, <3>9 DEF Pending
    <3> QED BY <2>3, <3>9, <3>11, <3>12 DEF TrafficStep
  <2> QED BY <1>4, <2>1, <2>2, <2>3 DEF Post
<1> QED BY <1>1, <1>2, <1>3, <1>4 DEF Traffic
----------------------------------------------------------------------------
(* What a hook collects.                                                   *)

LEMMA NewsRows ==
  ASSUME TableOk, HookType, NEW s \in Sessions
  PROVE  /\ Routes(s) \subseteq Mailboxes
         /\ News(s) \in SUBSET table /\ News(s) \in SUBSET HookRow /\ IsFiniteSet(News(s))
         /\ Cut(News(s)) \in SUBSET News(s)
         /\ \A a \in Routes(s) : \A r \in News(s) :
              r.msg.to = a => r \in Cut({q \in Pending(a) : q.seq > seen[s][a]})
<1>1. Routes(s) \subseteq Mailboxes
  BY DEF Routes, Mailboxes
<1>2. \A r \in News(s) : \E b \in Routes(s) : r \in Cut({q \in Pending(b) : q.seq > seen[s][b]})
  BY DEF News
<1>3. \A b : \A r \in Cut({q \in Pending(b) : q.seq > seen[s][b]}) : r \in table /\ r.msg.to = b
  BY DEF Cut, Pending
<1>4. News(s) \in SUBSET table
  BY <1>2, <1>3, Zenon
<1>5. News(s) \in SUBSET HookRow /\ IsFiniteSet(News(s))
  BY <1>4, FS_Subset DEF TableOk
<1>6. Cut(News(s)) \in SUBSET News(s)
  BY DEF Cut
<1>7. ASSUME NEW a \in Routes(s), NEW r \in News(s), r.msg.to = a
      PROVE  r \in Cut({q \in Pending(a) : q.seq > seen[s][a]})
  <2>1. PICK b \in Routes(s) : r \in Cut({q \in Pending(b) : q.seq > seen[s][b]})
    BY <1>2, Zenon
  <2>2. r.msg.to = b
    BY <1>3, <2>1
  <2> QED BY <1>7, <2>1, <2>2
<1> QED BY <1>1, <1>4, <1>5, <1>6, <1>7

\* A row that waits before one that was collected, in the same mailbox, was collected.
LEMMA NoneLeftBehind ==
  ASSUME TableOk, HookType, NEW s \in Sessions, NEW a \in Routes(s),
         NEW t \in Cut(News(s)), t.msg.to = a,
         NEW r \in Pending(a), r.seq > seen[s][a], r.seq <= t.seq
  PROVE  r \in Cut(News(s))
<1> DEFINE mine == {q \in Pending(a) : q.seq > seen[s][a]}
<1>1. t \in Cut(mine) /\ t \in News(s)
  BY NewsRows
<1>2. mine \in SUBSET table /\ r \in mine
  BY DEF Pending
<1>3. mine \in SUBSET HookRow /\ IsFiniteSet(mine)
  BY <1>2, FS_Subset, Zenon DEF TableOk
<1>4. Cut(mine) \subseteq News(s)
  BY Zenon DEF News
<1> HIDE DEF mine
<1>5. r \in Cut(mine)
  BY <1>1, <1>2, <1>3, CutIsFirst
<1>6. r \in News(s)
  BY <1>4, <1>5
<1>7. News(s) \in SUBSET HookRow /\ IsFiniteSet(News(s))
  BY NewsRows
<1> QED BY <1>6, <1>7, CutIsFirst

LEMMA CursorCovers ==
  ASSUME TableOk, HookType, NEW s \in Sessions, SeenOk(s)
  PROVE  /\ CursorOf(s) \in [Mailboxes -> Nat]
         /\ \A a \in Mailboxes :
              Behind(a, CursorOf(s)[a], Known(s) \cup {r.msg.id : r \in Cut(News(s))})
<1> DEFINE rows(a) == {r \in Cut(News(s)) : r.msg.to = a}
<1>1. ASSUME NEW a
      PROVE  /\ Top(rows(a), 0) \in Nat /\ Top(rows(a), 0) <= lastSeq
             /\ \A r \in rows(a) : r.seq <= Top(rows(a), 0)
             /\ rows(a) # {} => \E r \in rows(a) : r.seq = Top(rows(a), 0)
  <2>1. rows(a) \in SUBSET table /\ rows(a) \in SUBSET HookRow
    BY NewsRows
  <2>2. \A r \in rows(a) : r.seq <= lastSeq
    BY <2>1 DEF TableOk
  <2> HIDE DEF rows
  <2> QED BY <2>1, <2>2, TopOf DEF TableOk
<1>2. \A a \in Mailboxes : seen[s][a] \in Nat
  BY DEF HookType
<1>3. ASSUME NEW a \in Mailboxes
      PROVE  CursorOf(s)[a] \in Nat /\ Behind(a, CursorOf(s)[a], Known(s) \cup {r.msg.id : r \in Cut(News(s))})
  <2>1. CASE a \notin Routes(s)
    <3>1. CursorOf(s)[a] = seen[s][a]
      BY <2>1 DEF CursorOf
    <3> QED BY <1>2, <3>1, Zenon DEF SeenOk, Behind
  <2>2. CASE a \in Routes(s)
    <3>1. CursorOf(s)[a] = Larger(seen[s][a], Top(rows(a), 0))
      BY <2>2 DEF CursorOf
    <3> HIDE DEF rows
    <3>2. /\ CursorOf(s)[a] \in Nat /\ CursorOf(s)[a] \in {seen[s][a], Top(rows(a), 0)}
      BY <1>1, <1>2, <3>1, LargerOf
    <3>3. CursorOf(s)[a] <= lastSeq
      BY <1>1, <3>2 DEF SeenOk, Behind
    <3>4. ASSUME NEW r \in Pending(a), r.seq <= CursorOf(s)[a]
          PROVE  r.msg.id \in Known(s) \cup {q.msg.id : q \in Cut(News(s))}
      <4>0. r.seq \in Nat
        BY DEF Pending, TableOk, HookRow
      <4>1. CASE r.seq <= seen[s][a]
        BY <4>1 DEF SeenOk, Behind
      <4>2. CASE r.seq > seen[s][a]
        <5>1. CursorOf(s)[a] = Top(rows(a), 0)
          BY <1>2, <3>2, <3>4, <4>0, <4>2
        <5>2. rows(a) # {}
          <6> SUFFICES ASSUME rows(a) = {} PROVE FALSE
            OBVIOUS
          <6>1. Top(rows(a), 0) = 0
            BY DEF Top
          <6> QED BY <1>2, <3>4, <4>0, <4>2, <5>1, <6>1
        <5>3. PICK t \in rows(a) : t.seq = Top(rows(a), 0)
          BY <1>1, <5>2
        <5>4. t \in Cut(News(s)) /\ t.msg.to = a /\ r.seq <= t.seq
          BY <3>4, <5>1, <5>3 DEF rows
        <5>5. r \in Cut(News(s))
          BY <2>2, <4>2, <5>4, NoneLeftBehind
        <5> QED BY <5>5
      <4> QED BY <1>2, <4>0, <4>1, <4>2
    <3> QED BY <3>2, <3>3, <3>4 DEF Behind
  <2> QED BY <2>1, <2>2
<1>4. CursorOf(s) \in [Mailboxes -> Nat]
  <2>1. DOMAIN CursorOf(s) = Mailboxes /\ CursorOf(s) = [a \in Mailboxes |-> CursorOf(s)[a]]
    BY DEF CursorOf
  <2> QED BY <1>3, <2>1, Zenon
<1> QED BY <1>3, <1>4
----------------------------------------------------------------------------
LEMMA HookInvStart == HookInit => HookInv
<1> SUFFICES ASSUME HookInit PROVE HookInv
  OBVIOUS
<1>1. TableOk
  BY FS_EmptySet DEF HookInit, StoreInit, TableOk
<1>2. Ready \in HookRecord
  BY DEF Ready, HookRecord
<1>3. HookType
  BY <1>2 DEF HookInit, HookType
<1>4. \A s \in Sessions : SeenOk(s)
  BY DEF HookInit, StoreInit, SeenOk, Behind, Pending
<1>5. \A h \in Hooks : HookOk(h)
  BY DEF HookInit, HookOk, Ready
<1> QED BY <1>1, <1>3, <1>4, <1>5 DEF HookInv

\* The cursors are right as long as no row is put behind them and no pointer is taken
\* back.
LEMMA CoveredStays ==
  ASSUME TrafficStep, lastSeq \in Nat, NEW n \in Nat, NEW a, NEW ids, NEW more, ids \subseteq more, Behind(a, n, ids)
  PROVE  n <= lastSeq' /\ \A r \in Pending(a)' : r.seq <= n => r.msg.id \in more
<1>1. lastSeq' \in Nat /\ lastSeq <= lastSeq' /\ n <= lastSeq
  BY DEF TrafficStep, TableOk, Behind
<1>2. ASSUME NEW r \in Pending(a)', r.seq <= n PROVE r.msg.id \in more
  <2>1. r.seq \in Nat
    BY DEF Pending, TrafficStep, TableOk, HookRow
  <2>2. r.seq <= lastSeq
    BY <1>1, <1>2, <2>1
  <2>3. r \in Pending(a)
    BY <2>2 DEF TrafficStep
  <2> QED BY <1>2, <2>3 DEF Behind
<1> QED BY <1>1, <1>2

LEMMA SameTable ==
  ASSUME TableOk, UNCHANGED storeVars
  PROVE  TrafficStep
BY DEF storeVars, TrafficStep, TableOk, Pending

\* What another step leaves of a hook that it does not move.
LEMMA HookStays ==
  ASSUME HookInv, TrafficStep, NEW h \in Hooks, hook'[h] = hook[h],
         \A s \in Sessions : shown[s] \subseteq shown'[s] /\ passed[s] \subseteq passed'[s]
  PROVE  HookOk(h)'
<1> SUFFICES ASSUME hook[h].pc # "ready"
             PROVE  /\ hook[h].session \in Sessions
                    /\ \A a \in Mailboxes :
                         Behind(a, hook[h].cursor[a], Known(hook[h].session) \cup Printing(h))'
  BY Zenon DEF HookOk
<1>1. HookOk(h) /\ lastSeq \in Nat /\ hook[h] \in HookRecord
  BY DEF HookInv, TableOk, HookType
<1>2. PICK s \in Sessions : s = hook[h].session
  BY <1>1 DEF HookOk
<1>3. ASSUME NEW a \in Mailboxes
      PROVE  Behind(a, hook[h].cursor[a], Known(hook[h].session) \cup Printing(h))'
  <2> DEFINE ids == Known(s) \cup Printing(h)
             more == (Known(s) \cup Printing(h))'
  <2>1. ids \subseteq more
    BY DEF Known, Printing
  <2>2. PICK n \in Nat : n = hook[h].cursor[a]
    BY <1>1 DEF HookRecord
  <2>3. Behind(a, n, ids)
    BY <1>1, <1>2, <2>2, Zenon DEF HookOk
  <2> HIDE DEF ids, more
  <2>4. n <= lastSeq' /\ \A r \in Pending(a)' : r.seq <= n => r.msg.id \in more
    BY <1>1, <2>1, <2>3, CoveredStays, Zenon
  <2> QED BY <1>2, <2>2, <2>4, Zenon DEF Behind, more
<1>4. hook[h].session \in Sessions
  BY <1>2
<1> QED BY <1>3, <1>4

LEMMA SeenStays ==
  ASSUME HookInv, TrafficStep, NEW s \in Sessions, NEW a \in Mailboxes, seen'[s][a] = seen[s][a],
         shown[s] \subseteq shown'[s] /\ passed[s] \subseteq passed'[s]
  PROVE  Behind(a, seen[s][a], Known(s))'
<1> DEFINE ids == Known(s)
           more == Known(s)'
<1>1. ids \subseteq more
  BY DEF Known
<1>2. lastSeq \in Nat /\ SeenOk(s)
  BY DEF HookInv, TableOk
<1>3. PICK n \in Nat : n = seen[s][a]
  BY DEF HookInv, HookType
<1>4. Behind(a, n, ids)
  BY <1>2, <1>3 DEF SeenOk
<1> HIDE DEF ids, more
<1>5. n <= lastSeq' /\ \A r \in Pending(a)' : r.seq <= n => r.msg.id \in more
  BY <1>1, <1>2, <1>4, CoveredStays, Zenon
<1> QED BY <1>3, <1>5 DEF Behind, more

\* register and set_claude_alias pass over what is there.
LEMMA BacklogKeeps ==
  ASSUME HookInv, NEW s \in Sessions, NEW box \in Mailboxes, SkipBacklog(s, box),
         UNCHANGED <<storeVars, hook, shown>>
  PROVE  HookInv'
<1> DEFINE old == {r \in table : r.msg.to = box}
<1>1. TableOk /\ HookType
  BY DEF HookInv
<1>2. TrafficStep
  BY <1>1, SameTable
<1>3. TableOk' /\ table' = table /\ lastSeq' = lastSeq /\ hook' = hook /\ shown' = shown
  BY <1>2 DEF TrafficStep, storeVars
<1>4. /\ Top(old, 0) \in Nat /\ Top(old, 0) <= lastSeq
      /\ \A r \in old : r.seq <= Top(old, 0)
  <2>1. old \in SUBSET HookRow /\ \A r \in old : r.seq <= lastSeq
    BY <1>1 DEF TableOk
  <2> HIDE DEF old
  <2> QED BY <1>1, <2>1, TopOf DEF TableOk
<1>5. /\ seen' = [seen EXCEPT ![s][box] = Larger(@, Top(old, 0))]
      /\ passed' = [passed EXCEPT ![s] = @ \cup {r.msg.id : r \in old}]
  BY DEF SkipBacklog
<1>6. /\ passed'[s] = passed[s] \cup {r.msg.id : r \in old}
      /\ DOMAIN passed' = Sessions /\ \A q \in Sessions : passed[q] \subseteq passed'[q]
  BY <1>1, <1>5, Zenon DEF HookType
<1> HIDE DEF old
<1>7. PICK n \in Nat : n = Larger(seen[s][box], Top(old, 0)) /\ n <= lastSeq
  <2>1. seen[s][box] \in Nat /\ seen[s][box] <= lastSeq
    BY <1>1 DEF HookInv, HookType, SeenOk, Behind
  <2> QED BY <1>4, <2>1, LargerOf, Zenon
<1>8. /\ seen' \in [Sessions -> [Mailboxes -> Nat]] /\ seen'[s][box] = n
      /\ \A q \in Sessions, a \in Mailboxes : q # s \/ a # box => seen'[q][a] = seen[q][a]
  BY <1>1, <1>5, <1>7, Zenon DEF HookType
<1>9. HookType'
  BY <1>1, <1>3, <1>6, <1>8 DEF HookType
<1>10. ASSUME NEW q \in Sessions PROVE SeenOk(q)'
  <2> SUFFICES ASSUME NEW a \in Mailboxes PROVE Behind(a, seen[q][a], Known(q))'
    BY DEF SeenOk
  <2>1. CASE q # s \/ a # box
    BY <1>2, <1>3, <1>6, <1>8, <2>1, SeenStays, Zenon
  <2>2. CASE q = s /\ a = box
    <3>1. \A r \in Pending(a)' : r \in old
      BY <1>3, <2>2 DEF Pending, old
    <3>2. \A r \in Pending(a)' : r.msg.id \in Known(s)'
      BY <1>6, <3>1 DEF Known
    <3> QED BY <1>3, <1>7, <1>8, <2>2, <3>2 DEF Behind
  <2> QED BY <2>1, <2>2
<1>11. \A h \in Hooks : HookOk(h)'
  BY <1>2, <1>3, <1>6, HookStays, Zenon
<1> QED BY <1>3, <1>9, <1>10, <1>11 DEF HookInv

\* A step of hook h that leaves the table and the cursors alone and takes no pointer
\* back.
LEMMA HookMoves ==
  ASSUME HookInv, UNCHANGED <<storeVars, seen, passed>>, NEW h \in Hooks, NEW m \in HookRecord,
         hook' = [hook EXCEPT ![h] = m], HookOk(h)',
         DOMAIN shown' = Sessions, \A s \in Sessions : shown[s] \subseteq shown'[s]
  PROVE  HookInv'
<1>1. TrafficStep
  BY SameTable DEF HookInv
<1>2. TableOk' /\ HookType'
  BY <1>1 DEF TrafficStep, HookInv, HookType
<1>3. ASSUME NEW s \in Sessions PROVE SeenOk(s)'
  BY <1>1, SeenStays DEF SeenOk
<1>4. ASSUME NEW q \in Hooks, q # h PROVE HookOk(q)'
  <2>1. hook'[q] = hook[q]
    BY <1>4 DEF HookInv, HookType
  <2> QED BY <1>1, <2>1, HookStays
<1> QED BY <1>2, <1>3, <1>4, Zenon DEF HookInv
LEMMA CollectKeeps ==
  ASSUME HookInv, NEW h \in Hooks, NEW s \in Sessions, Collect(h, s)
  PROVE  HookInv'
<1>1. TableOk /\ HookType /\ SeenOk(s)
  BY DEF HookInv
<1>2. PICK c \in [Mailboxes -> Nat] : c = CursorOf(s)
  BY <1>1, CursorCovers
<1>3. PICK rows \in SUBSET HookRow : rows = Cut(News(s))
  BY <1>1, NewsRows
<1>4. \A a \in Mailboxes : Behind(a, c[a], Known(s) \cup {r.msg.id : r \in rows})
  BY <1>1, <1>2, <1>3, CursorCovers, Zenon
<1> DEFINE m == [pc |-> "collected", session |-> s, rows |-> rows, cursor |-> c]
<1>5. m \in HookRecord
  BY DEF HookRecord
<1>6. hook' = [hook EXCEPT ![h] = m] /\ UNCHANGED <<storeVars, seen, passed, shown>>
  BY <1>2, <1>3 DEF Collect
<1>7. /\ hook'[h].pc = "collected" /\ hook'[h].session = s /\ hook'[h].rows = rows /\ hook'[h].cursor = c
  BY <1>1, <1>6, Zenon DEF HookType
<1>8. Known(s)' = Known(s) /\ Printing(h)' = {r.msg.id : r \in rows}
  BY <1>6, <1>7, Zenon DEF Known, Printing
<1>9. HookOk(h)'
  <2> SUFFICES ASSUME NEW a \in Mailboxes
               PROVE  Behind(a, hook[h].cursor[a], Known(hook[h].session) \cup Printing(h))'
    BY <1>7, Zenon DEF HookOk
  <2> QED BY <1>4, <1>6, <1>7, <1>8, Zenon DEF Behind, Pending, storeVars
<1> HIDE DEF m
<1>10. DOMAIN shown' = Sessions /\ \A q \in Sessions : shown[q] \subseteq shown'[q]
  BY <1>1, <1>6, Zenon DEF HookType
<1> QED BY <1>5, <1>6, <1>9, <1>10, HookMoves, Zenon

LEMMA ShowKeeps ==
  ASSUME HookInv, NEW h \in Hooks, Show(h)
  PROVE  HookInv'
<1>1. HookType /\ HookOk(h) /\ hook[h].pc = "collected" /\ hook[h] \in HookRecord
  BY DEF HookInv, HookType, Show
<1>2. PICK s \in Sessions : s = hook[h].session
  BY <1>1 DEF HookOk
<1> DEFINE m == [hook[h] EXCEPT !.pc = "shown"]
<1>3. m \in HookRecord /\ m.pc = "shown" /\ m.session = s /\ m.cursor = hook[h].cursor
  BY <1>1, <1>2 DEF HookRecord
<1>4. hook' = [hook EXCEPT ![h] = m] /\ UNCHANGED <<storeVars, seen, passed>>
      /\ shown' = [shown EXCEPT ![s] = @ \cup {r.msg.id : r \in hook[h].rows}]
  BY <1>2 DEF Show
<1> HIDE DEF m
<1>5. hook'[h] = m
  BY <1>1, <1>4 DEF HookType
<1>6. /\ DOMAIN shown' = Sessions /\ \A q \in Sessions : shown[q] \subseteq shown'[q]
      /\ shown'[s] = shown[s] \cup {r.msg.id : r \in hook[h].rows}
  BY <1>1, <1>4 DEF HookType
<1>7. Known(s) \cup Printing(h) \subseteq Known(s)'
  BY <1>1, <1>4, <1>6, Zenon DEF Known, Printing
<1>8. HookOk(h)'
  <2> SUFFICES ASSUME NEW a \in Mailboxes
               PROVE  Behind(a, hook[h].cursor[a], Known(hook[h].session) \cup Printing(h))'
    BY <1>2, <1>3, <1>5, Zenon DEF HookOk
  <2>1. Behind(a, hook[h].cursor[a], Known(s) \cup Printing(h))
    BY <1>1, <1>2, Zenon DEF HookOk
  <2> QED BY <1>3, <1>4, <1>5, <1>7, <2>1 DEF Behind, Pending, storeVars
<1> QED BY <1>3, <1>4, <1>6, <1>8, HookMoves, Zenon

LEMMA GiveUpKeeps ==
  ASSUME HookInv, NEW h \in Hooks, GiveUp(h)
  PROVE  HookInv'
<1>1. Ready \in HookRecord /\ Ready.pc = "ready"
  BY DEF Ready, HookRecord
<1>2. hook' = [hook EXCEPT ![h] = Ready] /\ UNCHANGED <<storeVars, seen, passed, shown>> /\ HookType
  BY DEF GiveUp, HookInv
<1>3. HookOk(h)'
  BY <1>1, <1>2 DEF HookOk, HookType
<1>4. DOMAIN shown' = Sessions /\ \A q \in Sessions : shown[q] \subseteq shown'[q]
  BY <1>2 DEF HookType
<1> QED BY <1>1, <1>2, <1>3, <1>4, HookMoves, Zenon

LEMMA AdvanceKeeps ==
  ASSUME HookInv, NEW h \in Hooks, Advance(h)
  PROVE  HookInv'
<1>1. TableOk /\ HookType /\ HookOk(h) /\ hook[h].pc = "shown" /\ hook[h] \in HookRecord
  BY Zenon DEF HookInv, HookType, Advance
<1>2. PICK s \in Sessions : s = hook[h].session
  BY <1>1 DEF HookOk
<1>3. PICK c \in [Mailboxes -> Nat] : c = hook[h].cursor
  BY <1>1 DEF HookRecord
<1>4. \A a \in Mailboxes : Behind(a, c[a], Known(s))
  BY <1>1, <1>2, <1>3 DEF HookOk, Printing
<1>5. PICK n \in [Mailboxes -> Nat] : \A a \in Mailboxes : n[a] = Larger(seen[s][a], c[a])
  <2>1. \A a \in Mailboxes : Larger(seen[s][a], c[a]) \in Nat
    BY <1>1, LargerOf DEF HookType
  <2> DEFINE n == [a \in Mailboxes |-> Larger(seen[s][a], c[a])]
  <2>2. n \in [Mailboxes -> Nat] /\ \A a \in Mailboxes : n[a] = Larger(seen[s][a], c[a])
    BY <2>1
  <2> HIDE DEF n
  <2> QED BY <2>2
<1>6. \A a \in Mailboxes : Behind(a, n[a], Known(s))
  <2> SUFFICES ASSUME NEW a \in Mailboxes PROVE Behind(a, n[a], Known(s))
    OBVIOUS
  <2>1. n[a] \in {seen[s][a], c[a]}
    BY <1>1, <1>5, LargerOf DEF HookType
  <2>2. Behind(a, seen[s][a], Known(s))
    BY DEF HookInv, SeenOk
  <2> QED BY <1>4, <2>1, <2>2
<1>7. /\ hook' = [hook EXCEPT ![h] = Ready] /\ UNCHANGED <<storeVars, shown, passed>>
      /\ seen' = [seen EXCEPT ![s] = [a \in Mailboxes |-> Larger(@[a], c[a])]]
  BY <1>2, <1>3, Zenon DEF Advance
<1>8. seen' \in [Sessions -> [Mailboxes -> Nat]] /\ seen'[s] = n
      /\ \A q \in Sessions : q # s => seen'[q] = seen[q]
  BY <1>1, <1>5, <1>7, Zenon DEF HookType
<1>9. TrafficStep
  BY <1>1, <1>7, SameTable
<1>10. Ready \in HookRecord /\ Ready.pc = "ready"
  BY DEF Ready, HookRecord
<1>11. TableOk' /\ HookType'
  BY <1>1, <1>7, <1>8, <1>9, <1>10, Zenon DEF HookType, TrafficStep
<1>12. ASSUME NEW q \in Sessions PROVE SeenOk(q)'
  <2>1. CASE q = s
    BY <1>6, <1>7, <1>8, <2>1, Zenon DEF SeenOk, Behind, Pending, Known, storeVars
  <2>2. CASE q # s
    BY <1>7, <1>8, <1>9, <2>2, SeenStays DEF SeenOk
  <2> QED BY <2>1, <2>2, Zenon
<1>13. ASSUME NEW q \in Hooks PROVE HookOk(q)'
  <2>1. CASE q = h
    BY <1>1, <1>7, <1>10, <2>1, Zenon DEF HookOk, HookType
  <2>2. CASE q # h
    <3>1. hook'[q] = hook[q]
      BY <1>1, <1>7, <2>2, Zenon DEF HookType
    <3> QED BY <1>7, <1>9, <3>1, HookStays, Zenon
  <2> QED BY <2>1, <2>2
<1> QED BY <1>11, <1>12, <1>13 DEF HookInv

LEMMA HookTrafficKeeps ==
  ASSUME HookInv, TrafficStep, UNCHANGED hookState
  PROVE  HookInv'
<1>1. UNCHANGED <<seen, hook, shown, passed>>
  BY Zenon DEF hookState
<1>2. TableOk' /\ HookType'
  BY <1>1 DEF TrafficStep, HookInv, HookType
<1>3. ASSUME NEW s \in Sessions PROVE SeenOk(s)'
  BY <1>1, SeenStays DEF SeenOk
<1>4. ASSUME NEW h \in Hooks PROVE HookOk(h)'
  BY <1>1, HookStays
<1> QED BY <1>2, <1>3, <1>4 DEF HookInv

----------------------------------------------------------------------------
\* No session ever has a message behind its cursor that it was not pointed to, unless
\* it was there before the route: for any number of sessions, hooks, messages and
\* pointers per call, wherever hooks end and however the alias moves (_collect_pointers,
\* _advance_cursors, register, set_claude_alias).
THEOREM HooksPassNothingOver == HookSpec => []NothingPassedOver
<1>1. HookInv /\ [HookNext]_hookVars => HookInv'
  <2> SUFFICES ASSUME HookInv, [HookNext]_hookVars PROVE HookInv'
    OBVIOUS
  <2>1. ASSUME NEW s \in Sessions, Register(s) PROVE HookInv'
    <3>1. AddressOf(s) \in Mailboxes
      BY DEF Mailboxes
    <3> QED BY <2>1, <3>1, BacklogKeeps DEF Register
  <2>2. ASSUME NEW s \in Sessions, SetAlias(s) PROVE HookInv'
    <3>1. Claude \in Mailboxes
      BY DEF Mailboxes
    <3> QED BY <2>2, <3>1, BacklogKeeps DEF SetAlias
  <2>3. ASSUME NEW s \in Sessions, NEW h \in Hooks, Collect(h, s) PROVE HookInv'
    BY <2>3, CollectKeeps
  <2>4. ASSUME NEW h \in Hooks, Show(h) \/ Advance(h) \/ GiveUp(h) PROVE HookInv'
    BY <2>4, ShowKeeps, AdvanceKeeps, GiveUpKeeps
  <2>5. CASE HookTraffic
    <3>1. TrafficStep
      BY <2>5, TrafficMoves DEF HookTraffic, HookInv
    <3> QED BY <2>5, <3>1, HookTrafficKeeps DEF HookTraffic
  <2>6. CASE UNCHANGED hookVars
    <3>1. UNCHANGED storeVars /\ UNCHANGED hookState
      BY <2>6 DEF hookVars
    <3>2. TrafficStep
      BY <3>1, SameTable DEF HookInv
    <3> QED BY <3>1, <3>2, HookTrafficKeeps
  <2> QED BY <2>1, <2>2, <2>3, <2>4, <2>5, <2>6 DEF HookNext
<1>2. HookInv => NothingPassedOver
  <2> SUFFICES ASSUME HookInv, NEW s \in Sessions, NEW a \in Routes(s), NEW r \in Pending(a), r.seq <= seen[s][a]
               PROVE  r.msg.id \in shown[s] \cup passed[s]
    BY DEF NothingPassedOver
  <2>1. a \in Mailboxes
    BY NewsRows DEF HookInv
  <2> QED BY <2>1 DEF HookInv, SeenOk, Behind, Known
<1> QED BY <1>1, <1>2, HookInvStart, PTL DEF HookSpec

=============================================================================
