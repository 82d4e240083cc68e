--------------------------- MODULE DispatchProofs ---------------------------
(***************************************************************************)
(* Proofs about what is handed over once: the envelope of an adapter       *)
(* (AdapterDispatch), for any number of processes, envelopes and files,    *)
(* and a message that is mirrored between files and the message table      *)
(* (FileBridge), for any messages, agents and crashes.                     *)
(***************************************************************************)
EXTENDS FileBridge, AdapterDispatch, TLAPS

(***************************************************************************)
(* 1. AdapterDispatch                                                      *)
(***************************************************************************)
AdapterSpec == AdapterInit /\ [][AdapterNext]_adapterVars

Logged == {registry[k] : k \in 1..Len(registry)}

Events == [source: Envelopes, kind: {"claimed", "consumed"}, path: Paths]

\* Steps of an attempt, from the creation of its journal to the report.
Early == {"claiming", "appending"}
Claiming == {"claimed", "signed", "admitted"}
Permitted == {"permitted", "consuming"}
Spending == {"consumed", "checking", "executing"}
Busy == Early \cup Claiming \cup {"prepared"} \cup Permitted \cup Spending \cup {"executed"}

Attempts ==
  {NoAttempt} \cup [step: {"open"}, path: Paths] \cup [step: Busy, env: Envelopes, path: Paths, at: Nat]

AdapterType ==
  /\ registry \in Seq(Events)
  /\ journal \in [Paths -> [holds: SUBSET Envelopes, phase: 0..4]]
  /\ attempt \in [Dispatchers -> Attempts]
  /\ reports \subseteq Envelopes
  /\ ran \in [Envelopes -> {0, 1}]

IsBusy(p) == attempt[p].step \in Busy

\* The registry has one claim of an envelope, and no consumption of another.
OneClaim ==
  /\ \A e \in Envelopes, f, g \in Paths : Claim(e, f) \in Logged /\ Claim(e, g) \in Logged => f = g
  /\ \A e \in Envelopes, f \in Paths : Consumption(e, f) \in Logged => Claim(e, f) \in Logged

\* A journal beyond its creation is the one its envelope was claimed with.
JournalClaimed ==
  \A f \in Paths :
    /\ journal[f].phase >= Prepared =>
         \E e \in Envelopes : journal[f].holds = {e} /\ Claim(e, f) \in Logged
    /\ journal[f].phase >= Returned => \A e \in journal[f].holds : ran[e] = 1

\* What an attempt did before step s is where it should be.
StepBacked(e, f, s) ==
  /\ journal[f].holds = {e}
  /\ s \in Early \cup Claiming => journal[f].phase = Created
  /\ s \notin Early => Claim(e, f) \in Logged
  /\ s \in Permitted \cup Spending \cup {"executed"} => journal[f].phase >= Dispatching
  /\ s \in Spending \cup {"executed"} => Consumption(e, f) \in Logged
  /\ s \in Spending => ran[e] = 0
  /\ s = "executed" => ran[e] = 1

Backed(m) ==
  /\ m.step = "open" => journal[m.path].phase >= Prepared
  /\ m.step \in Busy => StepBacked(m.env, m.path, m.step)

\* And it has its journal to itself.
AttemptBacked ==
  \A p \in Dispatchers :
    /\ Backed(attempt[p])
    /\ IsBusy(p) => \A q \in Dispatchers : IsBusy(q) /\ Path(q) = Path(p) => q = p

\* What was carried out was consumed, under a journal that says so.
RanBacked ==
  /\ \A e \in Envelopes : ran[e] > 0 =>
       \E f \in Paths : /\ Consumption(e, f) \in Logged
                        /\ journal[f].holds = {e} /\ journal[f].phase >= Dispatching
  /\ \A e \in reports : ran[e] = 1

AdapterInv == AdapterType /\ OneClaim /\ JournalClaimed /\ AttemptBacked /\ RanBacked
----------------------------------------------------------------------------
LEMMA BusySteps == "idle" \notin Busy /\ "open" \notin Busy
BY DEF Busy, Early, Claiming, Permitted, Spending

\* What an attempt is, by its step.
LEMMA AttemptKinds ==
  ASSUME NEW m \in Attempts
  PROVE  /\ m.step \in Busy => m \in [step: Busy, env: Envelopes, path: Paths, at: Nat]
         /\ m.step = "open" => m \in [step: {"open"}, path: Paths]
         /\ m.step \notin Busy \cup {"open"} => m = NoAttempt
BY BusySteps DEF Attempts, NoAttempt

LEMMA AttemptMoves ==
  ASSUME NEW m \in [step: Busy, env: Envelopes, path: Paths, at: Nat], NEW s \in Busy, NEW n \in Nat
  PROVE  /\ [m EXCEPT !.step = s] \in Attempts /\ [m EXCEPT !.step = s, !.at = n] \in Attempts
         /\ [m EXCEPT !.step = s].step = s /\ [m EXCEPT !.step = s].env = m.env
         /\ [m EXCEPT !.step = s].path = m.path
         /\ [m EXCEPT !.step = s, !.at = n].step = s /\ [m EXCEPT !.step = s, !.at = n].env = m.env
         /\ [m EXCEPT !.step = s, !.at = n].path = m.path
BY Zenon DEF Attempts

LEMMA EventFacts ==
  ASSUME NEW e \in Envelopes, NEW f \in Paths
  PROVE  /\ Claim(e, f) \in Events /\ Consumption(e, f) \in Events
         /\ \A d \in Envelopes, g \in Paths :
              /\ Claim(e, f) = Claim(d, g) <=> e = d /\ f = g
              /\ Consumption(e, f) = Consumption(d, g) <=> e = d /\ f = g
              /\ Claim(e, f) # Consumption(d, g)
BY DEF Claim, Consumption, Events, Source

LEMMA Appending ==
  ASSUME registry \in Seq(Events), NEW ev \in Events, registry' = Append(registry, ev)
  PROVE  registry' \in Seq(Events) /\ Logged' = Logged \cup {ev}
<1>1. registry' \in Seq(Events) /\ Len(registry') = Len(registry) + 1 /\ Len(registry) \in Nat
  OBVIOUS
<1>2. registry'[Len(registry) + 1] = ev /\ \A k \in 1..Len(registry) : registry'[k] = registry[k]
  OBVIOUS
<1>3. \A k \in 1..Len(registry') : k \in 1..Len(registry) \/ k = Len(registry) + 1
  BY <1>1
<1>4. Logged' \subseteq Logged \cup {ev}
  BY <1>2, <1>3 DEF Logged
<1>5. 1..Len(registry) \subseteq 1..Len(registry') /\ Len(registry) + 1 \in 1..Len(registry')
  BY <1>1
<1>6. Logged \cup {ev} \subseteq Logged'
  BY <1>2, <1>5 DEF Logged
<1> QED BY <1>1, <1>4, <1>6

\* What _validate_structure has made sure of when an event is appended.
LEMMA AppendableFacts ==
  ASSUME registry \in Seq(Events), NEW ev \in Events, NEW at, Appendable(ev, at), NEW old \in Logged,
         old.source = ev.source
  PROVE  ev.kind = "consumed" /\ old.kind = "claimed"
<1> DEFINE reg == Append(registry, ev)
           n == Len(registry) + 1
<1>1. n \in 1..Len(reg) /\ Len(registry) \in Nat /\ Len(reg) = n /\ reg[n] = ev
  OBVIOUS
<1>2. PICK j \in 1..Len(registry) : registry[j] = old
  BY DEF Logged
<1>3. j \in 1..Len(reg) /\ reg[j] = old /\ j < n /\ j \in Nat
  BY <1>1, <1>2
<1>4. WellFormed(reg)
  BY DEF Appendable
<1>5. PICK first, last \in 1..Len(reg) :
        /\ EventsOf(reg, reg[n].source) = {first, last}
        /\ first <= last
        /\ reg[first].kind = "claimed"
        /\ first < last => reg[last] = [reg[first] EXCEPT !.kind = "consumed"]
  BY <1>1, <1>4, Zenon DEF WellFormed
<1> HIDE DEF reg, n
<1>6. n \in EventsOf(reg, reg[n].source) /\ j \in EventsOf(reg, reg[n].source)
  BY <1>1, <1>3 DEF EventsOf
<1>7. first = j /\ last = n
  BY <1>1, <1>3, <1>5, <1>6
<1>8. old \in Events
  BY <1>2
<1> QED BY <1>1, <1>3, <1>5, <1>7, <1>8 DEF Events

\* A step of an attempt: what holds of the stores, of the other attempts and of what
\* this one becomes.
LEMMA AttemptStep ==
  ASSUME AdapterInv, NEW p \in Dispatchers, NEW m \in Attempts, Becomes(p, m),
         m.step \in Busy => \/ IsBusy(p) /\ m.path = Path(p)
                            \/ \A q \in Dispatchers : IsBusy(q) => Path(q) # m.path,
         Backed(m)',
         \A q \in Dispatchers \ {p} : Backed(attempt[q])',
         registry' \in Seq(Events), journal' \in [Paths -> [holds: SUBSET Envelopes, phase: 0..4]],
         reports' \subseteq Envelopes, ran' \in [Envelopes -> {0, 1}],
         OneClaim', JournalClaimed', RanBacked'
  PROVE  AdapterInv'
<1>1. attempt \in [Dispatchers -> Attempts]
  BY DEF AdapterInv, AdapterType
<1>2. /\ attempt' \in [Dispatchers -> Attempts] /\ attempt'[p] = m
      /\ \A q \in Dispatchers \ {p} : attempt'[q] = attempt[q]
  BY <1>1 DEF Becomes
<1>3. AdapterType'
  BY <1>2 DEF AdapterType
<1>4. \A q \in Dispatchers : Backed(attempt[q])'
  BY <1>2 DEF Backed
<1>5. ASSUME NEW a \in Dispatchers, NEW b \in Dispatchers, IsBusy(a)', IsBusy(b)', Path(a)' = Path(b)'
      PROVE  a = b
  BY <1>2, <1>5 DEF IsBusy, Path, AdapterInv, AttemptBacked
<1>6. AttemptBacked'
  BY <1>4, <1>5 DEF AttemptBacked
<1> QED BY <1>3, <1>6 DEF AdapterInv
\* A step that changes no store.
LEMMA AttemptAlone ==
  ASSUME AdapterInv, NEW p \in Dispatchers, NEW m \in Attempts, Becomes(p, m), Backed(m),
         m.step \in Busy => IsBusy(p) /\ m.path = Path(p),
         UNCHANGED <<registry, journal, reports, ran>>
  PROVE  AdapterInv'
<1>1. attempt \in [Dispatchers -> Attempts] /\ AdapterType
  BY DEF AdapterInv, AdapterType
<1>2. \A q \in Dispatchers \ {p} : attempt'[q] = attempt[q]
  BY <1>1 DEF Becomes
<1>3. Logged' = Logged
  BY DEF Logged
<1>4. Backed(m)' /\ \A q \in Dispatchers \ {p} : Backed(attempt[q])'
  BY <1>2, <1>3 DEF Backed, StepBacked, AdapterInv, AttemptBacked
<1>5. OneClaim' /\ JournalClaimed' /\ RanBacked'
  BY <1>3, Zenon DEF AdapterInv, OneClaim, JournalClaimed, RanBacked
<1>6. /\ registry' \in Seq(Events) /\ journal' \in [Paths -> [holds: SUBSET Envelopes, phase: 0..4]]
      /\ reports' \subseteq Envelopes /\ ran' \in [Envelopes -> {0, 1}]
  BY <1>1 DEF AdapterType
<1> QED BY <1>4, <1>5, <1>6, AttemptStep

LEMMA IdleFacts ==
  /\ NoAttempt \in Attempts /\ NoAttempt.step = "idle"
  /\ Backed(NoAttempt)
<1>1. NoAttempt \in Attempts /\ NoAttempt.step = "idle"
  BY DEF Attempts, NoAttempt
<1> QED BY <1>1, BusySteps DEF Backed

LEMMA StopKeeps ==
  ASSUME AdapterInv, NEW p \in Dispatchers, Stop(p)
  PROVE  AdapterInv'
BY IdleFacts, BusySteps, AttemptAlone DEF Stop

\* What holds of a busy attempt.
LEMMA BusyFacts ==
  ASSUME AdapterInv, NEW p \in Dispatchers, attempt[p].step \in Busy
  PROVE  /\ attempt[p] \in [step: Busy, env: Envelopes, path: Paths, at: Nat]
         /\ Env(p) \in Envelopes /\ Path(p) \in Paths /\ attempt[p].at \in Nat
         /\ StepBacked(Env(p), Path(p), attempt[p].step)
         /\ IsBusy(p)
<1>1. attempt[p] \in Attempts
  BY DEF AdapterInv, AdapterType
<1>2. attempt[p] \in [step: Busy, env: Envelopes, path: Paths, at: Nat]
  BY <1>1, AttemptKinds
<1> QED BY <1>2 DEF AdapterInv, AttemptBacked, Backed, Env, Path, IsBusy

\* A busy attempt goes on to step s.
LEMMA GoOn ==
  ASSUME AdapterInv, NEW p \in Dispatchers, NEW s \in Busy, NEW n \in Nat, attempt[p].step \in Busy,
         \/ Becomes(p, [attempt[p] EXCEPT !.step = s])
         \/ Becomes(p, [attempt[p] EXCEPT !.step = s, !.at = n]),
         StepBacked(Env(p), Path(p), s),
         UNCHANGED <<registry, journal, reports, ran>>
  PROVE  AdapterInv'
<1>1. PICK m \in Attempts : /\ Becomes(p, m) /\ m.step = s /\ m.env = Env(p) /\ m.path = Path(p)
  <2>1. attempt[p] \in [step: Busy, env: Envelopes, path: Paths, at: Nat]
    BY BusyFacts
  <2>2. CASE Becomes(p, [attempt[p] EXCEPT !.step = s])
    <3> DEFINE m == [attempt[p] EXCEPT !.step = s]
    <3>1. m \in Attempts /\ m.step = s /\ m.env = Env(p) /\ m.path = Path(p)
      BY <2>1, AttemptMoves, Zenon DEF Env, Path
    <3> QED BY <2>2, <3>1, Zenon
  <2>3. CASE Becomes(p, [attempt[p] EXCEPT !.step = s, !.at = n])
    <3> DEFINE m == [attempt[p] EXCEPT !.step = s, !.at = n]
    <3>1. m \in Attempts /\ m.step = s /\ m.env = Env(p) /\ m.path = Path(p)
      BY <2>1, AttemptMoves, Zenon DEF Env, Path
    <3> QED BY <2>3, <3>1, Zenon
  <2> QED BY <2>2, <2>3
<1>2. Backed(m)
  BY <1>1, BusySteps DEF Backed
<1> QED BY <1>1, <1>2, BusyFacts, AttemptAlone

LEMMA StepNames ==
  /\ Busy = {"claiming", "appending", "claimed", "signed", "admitted", "prepared", "permitted",
             "consuming", "consumed", "checking", "executing", "executed"}
  /\ Early = {"claiming", "appending"} /\ Claiming = {"claimed", "signed", "admitted"}
  /\ Permitted = {"permitted", "consuming"} /\ Spending = {"consumed", "checking", "executing"}
BY DEF Busy, Early, Claiming, Permitted, Spending

LEMMA RegistryLength == ASSUME AdapterInv PROVE Len(registry) \in Nat
BY DEF AdapterInv, AdapterType

LEMMA SignClaimKeeps ==
  ASSUME AdapterInv, NEW p \in Dispatchers, SignClaim(p)
  PROVE  AdapterInv'
<1>1. attempt[p].step = "claimed" /\ attempt[p].step \in Busy /\ "signed" \in Busy
  BY StepNames DEF SignClaim, At
<1>2. StepBacked(Env(p), Path(p), "signed")
  BY <1>1, BusyFacts, StepNames, Zenon DEF StepBacked
<1> QED BY <1>1, <1>2, RegistryLength, GoOn, Zenon DEF SignClaim

LEMMA BeginConsumptionKeeps ==
  ASSUME AdapterInv, NEW p \in Dispatchers, BeginConsumption(p)
  PROVE  AdapterInv'
<1>1. attempt[p].step = "permitted" /\ attempt[p].step \in Busy /\ "consuming" \in Busy
  BY StepNames DEF BeginConsumption, At
<1>2. StepBacked(Env(p), Path(p), "consuming")
  BY <1>1, BusyFacts, StepNames, Zenon DEF StepBacked
<1> QED BY <1>1, <1>2, GoOn, Zenon DEF BeginConsumption

LEMMA SignConsumptionKeeps ==
  ASSUME AdapterInv, NEW p \in Dispatchers, SignConsumption(p)
  PROVE  AdapterInv'
<1>1. attempt[p].step = "consumed" /\ attempt[p].step \in Busy /\ "checking" \in Busy
  BY StepNames DEF SignConsumption, At
<1>2. StepBacked(Env(p), Path(p), "checking")
  BY <1>1, BusyFacts, StepNames, Zenon DEF StepBacked
<1> QED BY <1>1, <1>2, RegistryLength, GoOn, Zenon DEF SignConsumption

LEMMA CheckConsumptionKeeps ==
  ASSUME AdapterInv, NEW p \in Dispatchers, CheckConsumption(p)
  PROVE  AdapterInv'
<1>1. attempt[p].step = "checking" /\ attempt[p].step \in Busy /\ {"executing", "permitted"} \subseteq Busy
  BY StepNames DEF CheckConsumption, At
<1>2. StepBacked(Env(p), Path(p), "executing") /\ StepBacked(Env(p), Path(p), "permitted")
  BY <1>1, BusyFacts, StepNames, Zenon DEF StepBacked
<1>3. PICK s \in {"executing", "permitted"} : Becomes(p, [attempt[p] EXCEPT !.step = s])
  BY DEF CheckConsumption
<1> QED BY <1>1, <1>2, <1>3, GoOn, Zenon DEF CheckConsumption

LEMMA OpenKeeps ==
  ASSUME AdapterInv, NEW p \in Dispatchers, NEW f \in Paths, Open(p, f)
  PROVE  AdapterInv'
<1>1. PICK m \in Attempts : m.step = "open" /\ m.path = f /\ Becomes(p, m)
  BY DEF Open, Attempts
<1>2. Backed(m)
  BY <1>1, BusySteps DEF Backed, Open
<1> QED BY <1>1, <1>2, BusySteps, AttemptAlone DEF Open

\* A step of p that leaves j in the journal f.
Writes(p, m, f, j) ==
  /\ Becomes(p, m)
  /\ journal' = [journal EXCEPT ![f] = j]
  /\ \A q \in Dispatchers \ {p} : IsBusy(q) /\ Path(q) = f =>
       m.step \notin Busy /\ journal[f].phase >= Dispatching /\ j.phase >= Dispatching
  /\ m.step \in Busy => m.path = f
  /\ journal[f].phase <= j.phase \/ journal[f].phase = Created
  /\ journal[f].phase # Created => j.holds = journal[f].holds
  /\ j.phase >= Prepared => \E e \in Envelopes : j.holds = {e} /\ Claim(e, f) \in Logged
  /\ j.phase >= Returned => \A e \in j.holds : ran[e] = 1
  /\ UNCHANGED <<registry, reports, ran>>

LEMMA JournalStep ==
  ASSUME AdapterInv, NEW p \in Dispatchers, NEW m \in Attempts, NEW f \in Paths,
         NEW j \in [holds: SUBSET Envelopes, phase: 0..4], Writes(p, m, f, j), Backed(m)'
  PROVE  AdapterInv'
<1> USE DEF Writes
<1>1. attempt \in [Dispatchers -> Attempts] /\ AdapterType
  BY DEF AdapterInv, AdapterType
<1>2. \A q \in Dispatchers \ {p} : attempt'[q] = attempt[q]
  BY <1>1 DEF Becomes
<1>3. Logged' = Logged
  BY DEF Logged
<1>4. /\ journal' \in [Paths -> [holds: SUBSET Envelopes, phase: 0..4]]
      /\ journal'[f] = j /\ \A g \in Paths \ {f} : journal'[g] = journal[g]
  BY <1>1 DEF AdapterType
<1>5. journal[f].phase \in 0..4 /\ j.phase \in 0..4
  BY <1>1 DEF AdapterType
<1>6. ASSUME NEW q \in Dispatchers \ {p} PROVE Backed(attempt[q])'
  <2>0. Backed(attempt[q]) /\ attempt[q] \in Attempts
    BY <1>1, Zenon DEF AdapterInv, AttemptBacked
  <2>1. CASE attempt[q].step = "open"
    <3>1. attempt[q].path \in Paths /\ journal[attempt[q].path].phase >= Prepared
      BY <2>0, <2>1, AttemptKinds, Zenon DEF Backed
    <3>2. journal'[attempt[q].path].phase >= Prepared
      BY <1>4, <1>5, <3>1 DEF Created, Prepared
    <3> QED BY <1>2, <2>1, <3>2, BusySteps, Zenon DEF Backed
  <2>2. CASE attempt[q].step \in Busy
    <3>1. /\ attempt[q].path \in Paths
          /\ attempt[q].path = f => /\ journal[f].phase >= Dispatching /\ j.phase >= Dispatching
                                    /\ j.holds = journal[f].holds
      BY <2>0, <2>2, AttemptKinds, <1>5 DEF IsBusy, Path, Dispatching, Created
    <3>2. StepBacked(attempt[q].env, attempt[q].path, attempt[q].step)
      BY <2>0, <2>2, Zenon DEF Backed
    <3>3. StepBacked(attempt[q].env, attempt[q].path, attempt[q].step)'
      <4>1. CASE attempt[q].path = f
        BY <1>2, <1>3, <1>4, <1>5, <3>1, <3>2, <4>1 DEF StepBacked, Created, Dispatching
      <4>2. CASE attempt[q].path # f
        BY <1>2, <1>3, <1>4, <3>1, <3>2, <4>2, Zenon DEF StepBacked
      <4> QED BY <4>1, <4>2, Zenon
    <3> QED BY <1>2, <2>2, <3>3, BusySteps DEF Backed
  <2>3. CASE attempt[q].step \notin Busy \cup {"open"}
    BY <1>2, <2>3, Zenon DEF Backed
  <2> QED BY <2>1, <2>2, <2>3, Zenon
<1>7. OneClaim'
  BY <1>3 DEF AdapterInv, OneClaim
<1>8. JournalClaimed'
  BY <1>3, <1>4 DEF AdapterInv, JournalClaimed
<1>9. RanBacked'
  <2>1. ASSUME NEW e \in Envelopes, ran[e] > 0
        PROVE  \E g \in Paths : /\ Consumption(e, g) \in Logged
                                /\ journal'[g].holds = {e} /\ journal'[g].phase >= Dispatching
    <3>1. PICK g \in Paths : /\ Consumption(e, g) \in Logged
                             /\ journal[g].holds = {e} /\ journal[g].phase >= Dispatching
      BY <2>1, Zenon DEF AdapterInv, RanBacked
    <3>2. journal'[g].holds = {e} /\ journal'[g].phase >= Dispatching
      BY <1>4, <1>5, <3>1 DEF Created, Dispatching
    <3> QED BY <3>1, <3>2, Zenon
  <2> QED BY <1>3, <2>1, Zenon DEF AdapterInv, RanBacked
<1>10. m.step \in Busy => \/ IsBusy(p) /\ m.path = Path(p)
                          \/ \A q \in Dispatchers : IsBusy(q) => Path(q) # m.path
  OBVIOUS
<1> QED BY <1>1, <1>4, <1>6, <1>7, <1>8, <1>9, <1>10, AttemptStep DEF AdapterType
USE DEF Created, Prepared, Dispatching, Returned, Witnessed

\* A busy attempt shares its journal with nobody.
LEMMA Alone ==
  ASSUME AdapterInv, NEW p \in Dispatchers, attempt[p].step \in Busy
  PROVE  \A q \in Dispatchers \ {p} : IsBusy(q) => Path(q) # Path(p)
BY DEF AdapterInv, AttemptBacked, IsBusy

LEMMA JournalForFacts ==
  ASSUME NEW e \in Envelopes, NEW n \in 0..4
  PROVE  /\ JournalFor(e, n) \in [holds: SUBSET Envelopes, phase: 0..4]
         /\ JournalFor(e, n).holds = {e} /\ JournalFor(e, n).phase = n
BY DEF JournalFor

LEMMA GiveUpKeeps ==
  ASSUME AdapterInv, NEW p \in Dispatchers, attempt[p].step \in Early \cup Claiming, GiveUp(p),
         UNCHANGED <<registry, reports, ran>>
  PROVE  AdapterInv'
<1>1. attempt[p].step \in Busy
  BY StepNames
<1>2. Path(p) \in Paths /\ journal[Path(p)].phase = Created
  BY <1>1, BusyFacts, Zenon DEF StepBacked
<1>3. PICK f \in Paths : f = Path(p)
  BY <1>2
<1>4. NoJournal \in [holds: SUBSET Envelopes, phase: 0..4] /\ NoJournal.phase = Created
  BY DEF NoJournal
<1>5. Backed(NoAttempt)'
  BY IdleFacts, BusySteps DEF Backed
<1>6. journal' = [journal EXCEPT ![f] = NoJournal] /\ Becomes(p, NoAttempt)
  BY <1>3 DEF GiveUp
<1>7. \A q \in Dispatchers \ {p} : IsBusy(q) => Path(q) # f
  BY <1>1, <1>3, Alone
<1>8. Writes(p, NoAttempt, f, NoJournal)
  BY <1>2, <1>3, <1>4, <1>6, <1>7, IdleFacts, BusySteps DEF Writes
<1> QED BY <1>4, <1>5, <1>8, IdleFacts, JournalStep

LEMMA CreateKeeps ==
  ASSUME AdapterInv, NEW p \in Dispatchers, NEW e \in Envelopes, NEW f \in Paths,
         NEW c \in 0..Len(registry), Create(p, e, f, c)
  PROVE  AdapterInv'
<1>1. /\ attempt[p] = NoAttempt /\ journal[f] = NoJournal
      /\ journal' = [journal EXCEPT ![f] = JournalFor(e, Created)]
      /\ Becomes(p, [step |-> "claiming", env |-> e, path |-> f, at |-> c])
      /\ UNCHANGED <<registry, reports, ran>>
  BY DEF Create
<1>2. c \in Nat
  BY RegistryLength
<1>3. PICK m \in Attempts : Becomes(p, m) /\ m.step = "claiming" /\ m.env = e /\ m.path = f
  BY <1>1, <1>2, StepNames DEF Attempts
<1>4. PICK j \in [holds: SUBSET Envelopes, phase: 0..4] :
        j = JournalFor(e, Created) /\ j.holds = {e} /\ j.phase = Created
  BY JournalForFacts
<1>5. journal'[f] = j
  BY <1>1, <1>4 DEF AdapterInv, AdapterType
<1>6. Backed(m)'
  BY <1>3, <1>4, <1>5, StepNames DEF Backed, StepBacked
<1>7. journal[f].phase = Created /\ journal[f].holds = {}
  BY <1>1 DEF NoJournal
<1>8. \A q \in Dispatchers : IsBusy(q) => Path(q) # f
  BY <1>7, BusyFacts, Zenon DEF StepBacked, IsBusy
<1>9. Writes(p, m, f, j)
  BY <1>1, <1>3, <1>4, <1>7, <1>8 DEF Writes
<1> QED BY <1>6, <1>9, JournalStep

LEMMA BeginClaimKeeps ==
  ASSUME AdapterInv, NEW p \in Dispatchers, BeginClaim(p)
  PROVE  AdapterInv'
<1>1. /\ attempt[p].step = "claiming" /\ attempt[p].step \in Busy /\ "appending" \in Busy
      /\ attempt[p].step \in Early /\ UNCHANGED <<registry, reports, ran>>
  BY StepNames DEF BeginClaim, At
<1>2. StepBacked(Env(p), Path(p), "appending")
  BY <1>1, BusyFacts, StepNames, Zenon DEF StepBacked
<1>3. CASE Becomes(p, [attempt[p] EXCEPT !.step = "appending"]) /\ UNCHANGED journal
  BY <1>1, <1>2, <1>3, GoOn, Zenon
<1>4. CASE GiveUp(p)
  BY <1>1, <1>4, GiveUpKeeps
<1> QED BY <1>3, <1>4 DEF BeginClaim

LEMMA ProveClaimKeeps ==
  ASSUME AdapterInv, NEW p \in Dispatchers, ProveClaim(p)
  PROVE  AdapterInv'
<1>1. /\ attempt[p].step = "signed" /\ attempt[p].step \in Busy /\ "admitted" \in Busy
      /\ attempt[p].step \in Claiming /\ UNCHANGED <<registry, reports, ran>>
  BY StepNames DEF ProveClaim, At
<1>2. StepBacked(Env(p), Path(p), "admitted")
  BY <1>1, BusyFacts, StepNames, Zenon DEF StepBacked
<1>3. CASE Becomes(p, [attempt[p] EXCEPT !.step = "admitted"]) /\ UNCHANGED journal
  BY <1>1, <1>2, <1>3, GoOn, Zenon
<1>4. CASE GiveUp(p)
  BY <1>1, <1>4, GiveUpKeeps
<1> QED BY <1>3, <1>4 DEF ProveClaim

\* The journal of an attempt gets phase n, and the attempt goes on to s.
Advances(p, s, n) ==
  /\ attempt[p].step \in {"admitted", "prepared"}
  /\ journal[Path(p)].phase < n
  /\ journal' = [journal EXCEPT ![Path(p)] = JournalFor(Env(p), n)]
  /\ Becomes(p, [attempt[p] EXCEPT !.step = s])
  /\ UNCHANGED <<registry, reports, ran>>

LEMMA AdvanceKeeps ==
  ASSUME AdapterInv, NEW p \in Dispatchers, NEW s, NEW n, Advances(p, s, n),
         \/ s = "prepared" /\ n = Prepared
         \/ s = "permitted" /\ n = Dispatching
  PROVE  AdapterInv'
<1> USE DEF Advances
<1>1. attempt[p].step \in Busy /\ s \in Busy
  BY StepNames
<1>2. /\ attempt[p] \in [step: Busy, env: Envelopes, path: Paths, at: Nat]
      /\ Env(p) \in Envelopes /\ Path(p) \in Paths /\ journal[Path(p)].holds = {Env(p)}
      /\ Claim(Env(p), Path(p)) \in Logged
  BY <1>1, BusyFacts, StepNames, Zenon DEF StepBacked
<1>3. PICK e \in Envelopes, f \in Paths : e = Env(p) /\ f = Path(p)
  BY <1>2
<1>4. PICK m \in Attempts : Becomes(p, m) /\ m.step = s /\ m.env = e /\ m.path = f
  <2> DEFINE m == [attempt[p] EXCEPT !.step = s]
  <2>1. m \in Attempts /\ m.step = s /\ m.env = Env(p) /\ m.path = Path(p)
    BY <1>1, <1>2, AttemptMoves, Zenon DEF Env, Path
  <2> QED BY <1>3, <2>1, Zenon
<1>5. PICK j \in [holds: SUBSET Envelopes, phase: 0..4] :
        j = JournalFor(e, n) /\ j.holds = {e} /\ j.phase = n
  BY JournalForFacts
<1>6. journal' = [journal EXCEPT ![f] = j] /\ journal'[f] = j
  BY <1>3, <1>5 DEF AdapterInv, AdapterType
<1>7. Logged' = Logged
  BY DEF Logged
<1>8. StepBacked(e, f, s)'
  BY <1>2, <1>3, <1>5, <1>6, <1>7, StepNames DEF StepBacked
<1>9. Backed(m)'
  BY <1>4, <1>8, BusySteps, StepNames DEF Backed
<1>10. journal[f].phase < n /\ journal[f].phase \in 0..4
  BY <1>3 DEF AdapterInv, AdapterType
<1>11. \A q \in Dispatchers \ {p} : IsBusy(q) => Path(q) # f
  BY <1>1, <1>3, Alone
<1>12. Writes(p, m, f, j)
  BY <1>2, <1>3, <1>4, <1>5, <1>6, <1>10, <1>11 DEF Writes
<1> QED BY <1>9, <1>12, JournalStep

LEMMA PrepareKeeps ==
  ASSUME AdapterInv, NEW p \in Dispatchers, Prepare(p)
  PROVE  AdapterInv'
<1>1. attempt[p].step = "admitted" /\ attempt[p].step \in Busy
  BY StepNames DEF Prepare, At
<1>2. journal[Path(p)].phase = Created
  BY <1>1, BusyFacts, StepNames, Zenon DEF StepBacked
<1>3. Advances(p, "prepared", Prepared)
  BY <1>1, <1>2 DEF Advances, Prepare
<1> QED BY <1>3, AdvanceKeeps

LEMMA MarkDispatchingKeeps ==
  ASSUME AdapterInv, NEW p \in Dispatchers, MarkDispatching(p)
  PROVE  AdapterInv'
<1>1. attempt[p].step = "prepared" /\ journal[Path(p)].phase = Prepared
  BY DEF MarkDispatching, At, JournalFor
<1>2. Advances(p, "permitted", Dispatching)
  BY <1>1 DEF Advances, MarkDispatching
<1> QED BY <1>2, AdvanceKeeps
\* An attempt appends an event to the registry and goes on to s.
Enters(p, s, ev) ==
  /\ attempt[p].step \in Busy
  /\ registry' = Append(registry, ev)
  /\ Becomes(p, [attempt[p] EXCEPT !.step = s])
  /\ UNCHANGED <<journal, reports, ran>>

LEMMA RegistryStep ==
  ASSUME AdapterInv, NEW p \in Dispatchers, NEW s \in Busy, NEW ev \in Events, Enters(p, s, ev),
         StepBacked(Env(p), Path(p), s) \/
           (\A e \in Envelopes, f \in Paths : e = Env(p) /\ f = Path(p) => StepBacked(e, f, s)'),
         OneClaim'
  PROVE  AdapterInv'
<1> USE DEF Enters
<1>1. AdapterType /\ attempt[p] \in [step: Busy, env: Envelopes, path: Paths, at: Nat]
      /\ Env(p) \in Envelopes /\ Path(p) \in Paths
  BY BusyFacts DEF AdapterInv
<1>2. registry' \in Seq(Events) /\ Logged' = Logged \cup {ev}
  BY <1>1, Appending DEF AdapterType
<1>3. PICK e \in Envelopes, f \in Paths : e = Env(p) /\ f = Path(p)
  BY <1>1
<1>4. PICK m \in Attempts : Becomes(p, m) /\ m.step = s /\ m.env = e /\ m.path = f
  <2> DEFINE m == [attempt[p] EXCEPT !.step = s]
  <2>1. m \in Attempts /\ m.step = s /\ m.env = Env(p) /\ m.path = Path(p)
    BY <1>1, AttemptMoves, Zenon DEF Env, Path
  <2> QED BY <1>3, <2>1, Zenon
<1>5. \A d \in Envelopes, g \in Paths, t \in Busy : StepBacked(d, g, t) => StepBacked(d, g, t)'
  BY <1>2 DEF StepBacked
<1>6. StepBacked(e, f, s)'
  BY <1>3, <1>5
<1>7. Backed(m)'
  BY <1>4, <1>6, BusySteps DEF Backed
<1>8. ASSUME NEW q \in Dispatchers \ {p} PROVE Backed(attempt[q])'
  <2>1. attempt'[q] = attempt[q] /\ Backed(attempt[q]) /\ attempt[q] \in Attempts
    BY <1>1 DEF AdapterType, Becomes, AdapterInv, AttemptBacked
  <2>2. attempt[q].step \in Busy => attempt[q].env \in Envelopes /\ attempt[q].path \in Paths
    BY <2>1, AttemptKinds
  <2> QED BY <1>5, <2>1, <2>2, Zenon DEF Backed
<1>9. JournalClaimed' /\ RanBacked'
  BY <1>2, Zenon DEF AdapterInv, JournalClaimed, RanBacked
<1>10. m.step \in Busy => IsBusy(p) /\ m.path = Path(p)
  BY <1>3, <1>4 DEF IsBusy
<1> QED BY <1>1, <1>2, <1>4, <1>7, <1>8, <1>9, <1>10, AttemptStep DEF AdapterType

LEMMA AppendClaimKeeps ==
  ASSUME AdapterInv, NEW p \in Dispatchers, AppendClaim(p)
  PROVE  AdapterInv'
<1>1. /\ attempt[p].step = "appending" /\ attempt[p].step \in Busy /\ "claimed" \in Busy
      /\ attempt[p].step \in Early /\ UNCHANGED <<reports, ran>>
  BY StepNames DEF AppendClaim, At
<1>2. Env(p) \in Envelopes /\ Path(p) \in Paths /\ StepBacked(Env(p), Path(p), "appending")
  BY <1>1, BusyFacts
<1>3. PICK e \in Envelopes, f \in Paths : e = Env(p) /\ f = Path(p)
  BY <1>2
<1>4. CASE /\ Appendable(Claim(Env(p), Path(p)), attempt[p].at)
           /\ registry' = Append(registry, Claim(Env(p), Path(p)))
           /\ Becomes(p, [attempt[p] EXCEPT !.step = "claimed"])
           /\ UNCHANGED journal
  <2> DEFINE ev == Claim(e, f)
  <2>1. ev \in Events /\ Enters(p, "claimed", ev) /\ Appendable(ev, attempt[p].at)
    BY <1>1, <1>3, <1>4, EventFacts DEF Enters
  <2>2. registry \in Seq(Events)
    BY DEF AdapterInv, AdapterType
  <2>3. Logged' = Logged \cup {ev}
    BY <2>1, <2>2, Appending DEF Enters
  <2>4. \A old \in Logged : old.source # e
    <3>1. ev.source = e /\ ev.kind = "claimed"
      BY DEF Claim, Source
    <3> QED BY <2>1, <2>2, <3>1, AppendableFacts
  <2>5. \A g \in Paths : Claim(e, g) \notin Logged /\ Consumption(e, g) \notin Logged
    BY <2>4 DEF Claim, Consumption, Source
  <2>6. OneClaim'
    <3>1. ASSUME NEW d \in Envelopes, NEW g \in Paths, NEW h \in Paths,
                 Claim(d, g) \in Logged \cup {ev}, Claim(d, h) \in Logged \cup {ev}
          PROVE  g = h
      BY <2>5, <3>1, EventFacts DEF AdapterInv, OneClaim
    <3>2. ASSUME NEW d \in Envelopes, NEW g \in Paths, Consumption(d, g) \in Logged \cup {ev}
          PROVE  Claim(d, g) \in Logged
      BY <3>2, EventFacts DEF AdapterInv, OneClaim
    <3> QED BY <2>3, <3>1, <3>2 DEF OneClaim
  <2>7. StepBacked(e, f, "claimed")'
    BY <1>1, <1>2, <1>3, <1>4, <2>3, StepNames DEF StepBacked
  <2> QED BY <1>1, <1>3, <2>1, <2>6, <2>7, RegistryStep
<1>5. CASE GiveUp(p) /\ UNCHANGED registry
  BY <1>1, <1>5, GiveUpKeeps
<1> QED BY <1>4, <1>5 DEF AppendClaim

LEMMA AppendConsumptionKeeps ==
  ASSUME AdapterInv, NEW p \in Dispatchers, AppendConsumption(p)
  PROVE  AdapterInv'
<1>1. /\ attempt[p].step = "consuming" /\ attempt[p].step \in Busy /\ {"consumed", "permitted"} \subseteq Busy
      /\ UNCHANGED <<journal, reports, ran>>
  BY StepNames DEF AppendConsumption, At
<1>2. Env(p) \in Envelopes /\ Path(p) \in Paths /\ StepBacked(Env(p), Path(p), "consuming")
  BY <1>1, BusyFacts
<1>3. PICK e \in Envelopes, f \in Paths : e = Env(p) /\ f = Path(p)
  BY <1>2
<1>4. CASE /\ Appendable(Consumption(Env(p), Path(p)), attempt[p].at)
           /\ registry' = Append(registry, Consumption(Env(p), Path(p)))
           /\ Becomes(p, [attempt[p] EXCEPT !.step = "consumed"])
  <2> DEFINE ev == Consumption(e, f)
  <2>1. ev \in Events /\ Enters(p, "consumed", ev) /\ Appendable(ev, attempt[p].at)
    BY <1>1, <1>3, <1>4, EventFacts DEF Enters
  <2>2. registry \in Seq(Events)
    BY DEF AdapterInv, AdapterType
  <2>3. Logged' = Logged \cup {ev}
    BY <2>1, <2>2, Appending DEF Enters
  <2>4. \A old \in Logged : old.source = e => old.kind = "claimed"
    <3>1. ev.source = e
      BY DEF Consumption, Source
    <3> QED BY <2>1, <2>2, <3>1, AppendableFacts
  <2>5. \A g \in Paths : Consumption(e, g) \notin Logged
    BY <2>4 DEF Consumption, Source
  <2>6. Claim(e, f) \in Logged
    BY <1>2, <1>3, StepNames DEF StepBacked
  <2>7. OneClaim'
    <3>1. \A d \in Envelopes, g \in Paths : Claim(d, g) \in Logged' <=> Claim(d, g) \in Logged
      BY <2>3, EventFacts
    <3>2. \A d \in Envelopes, g \in Paths : Consumption(d, g) \in Logged' => Claim(d, g) \in Logged
      BY <2>3, <2>6, EventFacts DEF AdapterInv, OneClaim
    <3> QED BY <3>1, <3>2 DEF AdapterInv, OneClaim
  <2>8. ran[e] = 0
    BY <2>5 DEF AdapterInv, AdapterType, RanBacked
  <2>9. StepBacked(e, f, "consumed")'
    BY <1>1, <1>2, <1>3, <2>3, <2>8, StepNames DEF StepBacked
  <2> QED BY <1>1, <1>3, <2>1, <2>7, <2>9, RegistryStep
<1>5. CASE Becomes(p, [attempt[p] EXCEPT !.step = "permitted"]) /\ UNCHANGED registry
  <2>1. StepBacked(Env(p), Path(p), "permitted")
    BY <1>2, StepNames DEF StepBacked
  <2> QED BY <1>1, <1>5, <2>1, GoOn, Zenon
<1> QED BY <1>4, <1>5 DEF AppendConsumption

LEMMA ActKeeps ==
  ASSUME AdapterInv, NEW p \in Dispatchers, Act(p)
  PROVE  AdapterInv'
<1>1. /\ attempt[p].step = "executing" /\ attempt[p].step \in Busy /\ "executed" \in Busy
      /\ UNCHANGED <<registry, journal, reports>>
  BY StepNames DEF Act, At
<1>2. /\ Env(p) \in Envelopes /\ Path(p) \in Paths /\ StepBacked(Env(p), Path(p), "executing")
      /\ attempt[p] \in [step: Busy, env: Envelopes, path: Paths, at: Nat]
  BY <1>1, BusyFacts
<1>3. PICK e \in Envelopes, f \in Paths : e = Env(p) /\ f = Path(p)
  BY <1>2
<1>4. /\ ran[e] = 0 /\ Consumption(e, f) \in Logged /\ Claim(e, f) \in Logged
      /\ journal[f].phase >= Dispatching /\ journal[f].holds = {e}
  BY <1>2, <1>3, StepNames, Zenon DEF StepBacked
<1>5. ran' \in [Envelopes -> {0, 1}] /\ ran'[e] = 1 /\ \A d \in Envelopes \ {e} : ran'[d] = ran[d]
  BY <1>3, <1>4 DEF Act, AdapterInv, AdapterType
<1>6. Logged' = Logged
  BY <1>1 DEF Logged
<1>7. PICK m \in Attempts : Becomes(p, m) /\ m.step = "executed" /\ m.env = e /\ m.path = f
  <2> DEFINE m == [attempt[p] EXCEPT !.step = "executed"]
  <2>1. m \in Attempts /\ m.step = "executed" /\ m.env = Env(p) /\ m.path = Path(p)
    BY <1>1, <1>2, AttemptMoves, Zenon DEF Env, Path
  <2>2. Becomes(p, m)
    BY DEF Act
  <2> QED BY <1>3, <2>1, <2>2, Zenon
<1>8. Backed(m)'
  BY <1>1, <1>4, <1>5, <1>6, <1>7, BusySteps, StepNames DEF Backed, StepBacked
<1>9. ASSUME NEW q \in Dispatchers \ {p} PROVE Backed(attempt[q])'
  <2>1. attempt'[q] = attempt[q] /\ Backed(attempt[q])
    BY <1>7 DEF AdapterInv, AdapterType, Becomes, AttemptBacked
  <2>2. CASE attempt[q].step \in Busy
    <3>1. /\ Env(q) \in Envelopes /\ Path(q) \in Paths /\ StepBacked(Env(q), Path(q), attempt[q].step)
      BY <2>2, BusyFacts
    <3>2. Path(q) # f
      BY <1>1, <1>3, <2>2, Alone DEF IsBusy
    <3>3. attempt[q].step \in Spending \cup {"executed"} => Env(q) # e
      BY <1>4, <3>1, <3>2, StepNames, Zenon DEF StepBacked, AdapterInv, OneClaim
    <3>4. attempt[q].step \in Spending \cup {"executed"} => ran'[Env(q)] = ran[Env(q)]
      BY <1>5, <3>1, <3>3
    <3>5. StepBacked(Env(q), Path(q), attempt[q].step)'
      BY <1>1, <1>6, <2>1, <3>1, <3>4, Zenon DEF StepBacked, Env, Path
    <3> QED BY <2>1, <2>2, <3>5, BusySteps, Zenon DEF Backed, Env, Path
  <2>3. CASE attempt[q].step \notin Busy
    BY <1>1, <2>1, <2>3, Zenon DEF Backed
  <2> QED BY <2>2, <2>3
<1>10. OneClaim'
  BY <1>6 DEF AdapterInv, OneClaim
<1>11. JournalClaimed'
  <2>1. ASSUME NEW g \in Paths, journal[g].phase >= Returned, NEW d \in journal[g].holds
        PROVE  ran'[d] = 1
    <3>1. d \in Envelopes /\ ran[d] = 1
      BY <2>1 DEF AdapterInv, AdapterType, JournalClaimed
    <3> QED BY <1>4, <1>5, <3>1
  <2> QED BY <1>1, <1>6, <2>1 DEF AdapterInv, JournalClaimed
<1>12. RanBacked'
  <2>1. ASSUME NEW d \in Envelopes, ran'[d] > 0
        PROVE  \E g \in Paths : /\ Consumption(d, g) \in Logged
                                /\ journal[g].holds = {d} /\ journal[g].phase >= Dispatching
    <3>1. CASE d = e
      BY <1>4, <3>1
    <3>2. CASE d # e
      BY <1>5, <2>1, <3>2 DEF AdapterInv, RanBacked
    <3> QED BY <3>1, <3>2
  <2>2. ASSUME NEW d \in reports PROVE ran'[d] = 1
    <3>1. d \in Envelopes /\ ran[d] = 1
      BY DEF AdapterInv, AdapterType, RanBacked
    <3> QED BY <1>4, <1>5, <3>1
  <2> QED BY <1>1, <1>6, <2>1, <2>2 DEF RanBacked
<1>13. m.step \in Busy => IsBusy(p) /\ m.path = Path(p)
  BY <1>1, <1>3, <1>7 DEF IsBusy
<1>14. /\ registry' \in Seq(Events) /\ journal' \in [Paths -> [holds: SUBSET Envelopes, phase: 0..4]]
       /\ reports' \subseteq Envelopes
  BY <1>1 DEF AdapterInv, AdapterType
<1> QED BY <1>5, <1>7, <1>8, <1>9, <1>10, <1>11, <1>12, <1>13, <1>14, AttemptStep

LEMMA ReportKeeps ==
  ASSUME AdapterInv, NEW p \in Dispatchers, Report(p)
  PROVE  AdapterInv'
<1>1. /\ attempt[p].step = "executed" /\ attempt[p].step \in Busy
      /\ UNCHANGED <<registry, journal, ran>> /\ reports' = reports \cup {Env(p)}
      /\ Becomes(p, [step |-> "open", path |-> Path(p)])
  BY StepNames DEF Report, At
<1>2. /\ Env(p) \in Envelopes /\ Path(p) \in Paths /\ ran[Env(p)] = 1
      /\ journal[Path(p)].phase >= Dispatching
  BY <1>1, BusyFacts, StepNames, Zenon DEF StepBacked
<1>3. PICK f \in Paths : f = Path(p)
  BY <1>2
<1>4. PICK m \in Attempts : Becomes(p, m) /\ m.step = "open" /\ m.path = f
  BY <1>1, <1>3 DEF Attempts
<1>5. Logged' = Logged
  BY <1>1 DEF Logged
<1>6. journal[f].phase \in 0..4
  BY DEF AdapterInv, AdapterType
<1>7. Backed(m)'
  BY <1>1, <1>2, <1>3, <1>4, <1>6, BusySteps DEF Backed
<1>8. ASSUME NEW q \in Dispatchers \ {p} PROVE Backed(attempt[q])'
  <2>1. attempt'[q] = attempt[q] /\ Backed(attempt[q])
    BY <1>4 DEF AdapterInv, AdapterType, Becomes, AttemptBacked
  <2> QED BY <1>1, <1>5, <2>1, Zenon DEF Backed, StepBacked
<1>9. OneClaim' /\ JournalClaimed' /\ RanBacked'
  BY <1>1, <1>2, <1>5, Zenon DEF AdapterInv, OneClaim, JournalClaimed, RanBacked
<1>10. /\ registry' \in Seq(Events) /\ journal' \in [Paths -> [holds: SUBSET Envelopes, phase: 0..4]]
       /\ reports' \subseteq Envelopes /\ ran' \in [Envelopes -> {0, 1}]
  BY <1>1, <1>2 DEF AdapterInv, AdapterType
<1> QED BY <1>4, <1>7, <1>8, <1>9, <1>10, BusySteps, AttemptStep

\* record_executor_report and record_terminal_receipt.
LEMMA RecordKeeps ==
  ASSUME AdapterInv, NEW p \in Dispatchers, RecordReport(p) \/ RecordTerminal(p)
  PROVE  AdapterInv'
<1>1. /\ attempt[p].step = "open" /\ journal[Path(p)].phase \in {Dispatching, Returned}
      /\ HasReport(journal[Path(p)]) /\ UNCHANGED <<registry, attempt, reports, ran>>
      /\ journal' = [journal EXCEPT ![Path(p)].phase = IF RecordReport(p) THEN Returned ELSE Witnessed]
      /\ RecordReport(p) => journal[Path(p)].phase = Dispatching
  BY DEF RecordReport, RecordTerminal, At
<1>2. attempt[p] \in Attempts /\ journal \in [Paths -> [holds: SUBSET Envelopes, phase: 0..4]]
      /\ attempt \in [Dispatchers -> Attempts]
  BY DEF AdapterInv, AdapterType
<1>3. PICK f \in Paths, m \in Attempts : f = Path(p) /\ m = attempt[p]
  BY <1>1, <1>2, AttemptKinds, Zenon DEF Path
<1>4. PICK n \in {3, 4} : journal' = [journal EXCEPT ![f].phase = n]
  BY <1>1, <1>3, Zenon
<1>5. PICK j \in [holds: SUBSET Envelopes, phase: 0..4] :
        /\ journal' = [journal EXCEPT ![f] = j] /\ j.holds = journal[f].holds /\ j.phase = n
  <2> DEFINE j == [journal[f] EXCEPT !.phase = n]
  <2>1. j \in [holds: SUBSET Envelopes, phase: 0..4] /\ j.holds = journal[f].holds /\ j.phase = n
    BY <1>2
  <2>2. journal' = [journal EXCEPT ![f] = j]
    BY <1>2, <1>4
  <2> QED BY <2>1, <2>2, Zenon
<1>6. Becomes(p, m)
  BY <1>1, <1>2, <1>3 DEF Becomes
<1>7. /\ \A e \in j.holds : ran[e] = 1
      /\ \E e \in Envelopes : j.holds = {e} /\ Claim(e, f) \in Logged
  <2>1. journal[f].phase >= Prepared /\ journal[f].holds \subseteq reports
    BY <1>1, <1>3 DEF HasReport
  <2>2. \E e \in Envelopes : journal[f].holds = {e} /\ Claim(e, f) \in Logged
    BY <2>1 DEF AdapterInv, JournalClaimed
  <2>3. \A e \in reports : ran[e] = 1
    BY DEF AdapterInv, RanBacked
  <2> QED BY <1>5, <2>1, <2>2, <2>3
<1>8. m.step = "open" /\ m.step \notin Busy
  BY <1>1, <1>3, BusySteps
<1>9. Writes(p, m, f, j)
  <2>1. journal[f].phase \in {2, 3} /\ j.phase \in {3, 4} /\ UNCHANGED <<registry, reports, ran>>
    BY <1>1, <1>3, <1>5
  <2>2. /\ journal[f].phase >= Dispatching /\ j.phase >= Dispatching /\ journal[f].phase <= j.phase
    BY <2>1
  <2> QED BY <1>5, <1>6, <1>7, <1>8, <2>1, <2>2 DEF Writes
<1>10. Backed(m)'
  <2>1. m.path = f /\ journal'[f].phase = n
    BY <1>2, <1>3, <1>4 DEF Path
  <2> QED BY <1>8, <2>1 DEF Backed
<1> QED BY <1>9, <1>10, JournalStep
----------------------------------------------------------------------------
\* The registry has one claim of an envelope, a journal past its creation is the one of that
\* claim, an attempt shares its journal with nobody, and what was carried out was consumed
\* (AdapterDispatchRegistry.claim and consume, prepare_new, mark_dispatching).
THEOREM DispatchInvariant == AdapterSpec => []AdapterInv
<1>1. AdapterInit => AdapterInv
  <2> SUFFICES ASSUME AdapterInit PROVE AdapterInv
    OBVIOUS
  <2>1. /\ registry = <<>> /\ journal = [f \in Paths |-> NoJournal]
        /\ attempt = [p \in Dispatchers |-> NoAttempt] /\ reports = {} /\ ran = [e \in Envelopes |-> 0]
    BY DEF AdapterInit
  <2>2. Logged = {}
    BY <2>1 DEF Logged
  <2>3. NoJournal \in [holds: SUBSET Envelopes, phase: 0..4] /\ NoJournal.phase = 0
    BY DEF NoJournal
  <2>4. AdapterType
    BY <2>1, <2>3, IdleFacts DEF AdapterType
  <2>5. OneClaim
    BY <2>2 DEF OneClaim
  <2>6. JournalClaimed /\ RanBacked
    BY <2>1, <2>3 DEF JournalClaimed, RanBacked
  <2>7. AttemptBacked
    BY <2>1, IdleFacts, BusySteps DEF AttemptBacked, IsBusy
  <2> QED BY <2>4, <2>5, <2>6, <2>7 DEF AdapterInv
<1>2. AdapterInv /\ [AdapterNext]_adapterVars => AdapterInv'
  <2> SUFFICES ASSUME AdapterInv, [AdapterNext]_adapterVars PROVE AdapterInv'
    OBVIOUS
  <2>1. ASSUME NEW p \in Dispatchers,
               \/ \E e \in Envelopes, f \in Paths, c \in 0..Len(registry) : Create(p, e, f, c)
               \/ BeginClaim(p) \/ AppendClaim(p) \/ SignClaim(p) \/ ProveClaim(p) \/ Prepare(p)
        PROVE  AdapterInv'
    BY <2>1, CreateKeeps, BeginClaimKeeps, AppendClaimKeeps, SignClaimKeeps, ProveClaimKeeps,
       PrepareKeeps
  <2>2. ASSUME NEW p \in Dispatchers,
               \/ MarkDispatching(p) \/ BeginConsumption(p) \/ AppendConsumption(p)
               \/ SignConsumption(p) \/ CheckConsumption(p)
        PROVE  AdapterInv'
    BY <2>2, MarkDispatchingKeeps, BeginConsumptionKeeps, AppendConsumptionKeeps,
       SignConsumptionKeeps, CheckConsumptionKeeps
  <2>3. ASSUME NEW p \in Dispatchers,
               \/ Act(p) \/ Report(p) \/ (\E f \in Paths : Open(p, f))
               \/ RecordReport(p) \/ RecordTerminal(p) \/ Stop(p)
        PROVE  AdapterInv'
    BY <2>3, ActKeeps, ReportKeeps, OpenKeeps, RecordKeeps, StopKeeps
  <2>4. CASE UNCHANGED adapterVars
    <3>1. /\ registry' = registry /\ journal' = journal /\ attempt' = attempt
          /\ reports' = reports /\ ran' = ran
      BY <2>4 DEF adapterVars
    <3>2. Logged' = Logged
      BY <3>1, Zenon DEF Logged
    <3>3. AdapterType' /\ OneClaim' /\ JournalClaimed' /\ RanBacked'
      BY <3>1, <3>2, Zenon DEF AdapterInv, AdapterType, OneClaim, JournalClaimed, RanBacked
    <3>4. AttemptBacked'
      BY <3>1, <3>2, Zenon DEF AdapterInv, AttemptBacked, Backed, StepBacked, IsBusy, Path
    <3> QED BY <3>3, <3>4 DEF AdapterInv
  <2> QED BY <2>1, <2>2, <2>3, <2>4 DEF AdapterNext
<1> QED BY <1>1, <1>2, PTL DEF AdapterSpec

LEMMA LoggedFacts ==
  ASSUME NEW e \in Envelopes
  PROVE  /\ Claimed(e) <=> \E f \in Paths : Claim(e, f) \in Logged
         /\ Consumed(e) <=> \E f \in Paths : Consumption(e, f) \in Logged
         /\ \A f \in Paths : Claim(e, f) \in Logged <=>
              \E k \in 1..Len(registry) : registry[k] = Claim(e, f)
<1>1. \A ev : ev \in Logged <=> \E k \in 1..Len(registry) : registry[k] = ev
  BY DEF Logged
<1> QED BY <1>1 DEF Claimed, Consumed

\* "Permit consumption is persisted before an executor can reach its sink", and what recover
\* reads from a journal of an action is true (AdapterAttemptJournal, AdapterDispatchPermit).
THEOREM DispatchJournalTruthful == AdapterSpec => []JournalTruthful
<1>1. AdapterInv => JournalTruthful
  <2> SUFFICES ASSUME AdapterInv PROVE JournalTruthful
    OBVIOUS
  <2>1. ASSUME NEW e \in Envelopes, ran[e] > 0
        PROVE  /\ Consumed(e)
               /\ \E f \in Paths : /\ \E k \in 1..Len(registry) : registry[k] = Claim(e, f)
                                   /\ journal[f].holds = {e} /\ journal[f].phase >= Dispatching
    <3>1. PICK f \in Paths : /\ Consumption(e, f) \in Logged /\ journal[f].holds = {e}
                             /\ journal[f].phase >= Dispatching
      BY <2>1 DEF AdapterInv, RanBacked
    <3>2. Claim(e, f) \in Logged
      BY <3>1 DEF AdapterInv, OneClaim
    <3> QED BY <3>1, <3>2, LoggedFacts
  <2>2. \A f \in Paths : journal[f].phase >= Returned => \A e \in journal[f].holds : ran[e] = 1
    BY DEF AdapterInv, JournalClaimed
  <2> QED BY <2>1, <2>2, Zenon DEF JournalTruthful
<1> QED BY <1>1, DispatchInvariant, PTL

\* The journal f closes envelope e.
Closed(e, f) == journal[f].holds = {e} /\ journal[f].phase = Witnessed

LEMMA SamePhase ==
  ASSUME NEW e \in Envelopes, \A f \in Paths : Closed(e, f)' <=> Closed(e, f), Claimed(e)' <=> Claimed(e)
  PROVE  PhaseOf(e)' = PhaseOf(e)
BY DEF PhaseOf, Closed

\* A journal that is not closed, and is not by this step.
LEMMA SameClosed ==
  ASSUME AdapterInv, NEW g \in Paths, NEW j, journal' = [journal EXCEPT ![g] = j],
         journal[g].phase # Witnessed, j.phase # Witnessed, NEW e \in Envelopes, NEW f \in Paths
  PROVE  Closed(e, f)' <=> Closed(e, f)
BY DEF Closed, AdapterInv, AdapterType

LEMMA SameClaimed ==
  ASSUME registry' = registry, NEW e \in Envelopes
  PROVE  Claimed(e)' <=> Claimed(e)
BY DEF Claimed

\* The steps of dispatch, seen from an envelope.
Spends(e) == /\ PhaseOf(e) = "unused" /\ PhaseOf(e)' = "spent" /\ ran' = ran
             /\ \A d \in Envelopes \ {e} : PhaseOf(d)' = PhaseOf(d)
Uses(e) == /\ PhaseOf(e) # "unused" /\ ran[e] = 0 /\ ran' = [ran EXCEPT ![e] = 1]
           /\ \A d \in Envelopes : PhaseOf(d)' = PhaseOf(d)
Finishes(e) == /\ PhaseOf(e) = "spent" /\ PhaseOf(e)' = "closed" /\ ran' = ran
               /\ \A d \in Envelopes \ {e} : PhaseOf(d)' = PhaseOf(d)
Hidden == ran' = ran /\ \A e \in Envelopes : PhaseOf(e)' = PhaseOf(e)

LEMMA HiddenMemory ==
  ASSUME UNCHANGED <<registry, journal, ran>>
  PROVE  Hidden
BY SamePhase, SameClaimed DEF Hidden, Closed

LEMMA HiddenJournal ==
  ASSUME AdapterInv, UNCHANGED <<registry, ran>>, NEW g \in Paths, NEW j,
         journal' = [journal EXCEPT ![g] = j], journal[g].phase # Witnessed, j.phase # Witnessed
  PROVE  Hidden
BY SamePhase, SameClaimed, SameClosed, Zenon DEF Hidden

LEMMA HiddenGiveUp ==
  ASSUME AdapterInv, NEW p \in Dispatchers, attempt[p].step \in Early \cup Claiming, GiveUp(p),
         UNCHANGED <<registry, ran>>
  PROVE  Hidden
<1>1. attempt[p].step \in Busy
  BY StepNames
<1>2. Path(p) \in Paths /\ journal[Path(p)].phase = Created
  BY <1>1, BusyFacts, Zenon DEF StepBacked
<1>3. NoJournal.phase = Created
  BY DEF NoJournal
<1>4. PICK g \in Paths : g = Path(p)
  BY <1>2
<1> DEFINE j == NoJournal
<1>5. journal' = [journal EXCEPT ![g] = j] /\ journal[g].phase # Witnessed /\ j.phase # Witnessed
  BY <1>2, <1>3, <1>4 DEF GiveUp
<1> QED BY <1>5, HiddenJournal, Zenon

LEMMA SpendsClaim ==
  ASSUME AdapterInv, NEW p \in Dispatchers, AppendClaim(p)
  PROVE  Hidden \/ \E e \in Envelopes : Spends(e)
<1>1. attempt[p].step = "appending" /\ attempt[p].step \in Busy /\ attempt[p].step \in Early
      /\ UNCHANGED <<reports, ran>>
  BY StepNames DEF AppendClaim, At
<1>2. Env(p) \in Envelopes /\ Path(p) \in Paths
  BY <1>1, BusyFacts, Zenon
<1>3. PICK e \in Envelopes, f \in Paths : e = Env(p) /\ f = Path(p)
  BY <1>2
<1>4. CASE /\ Appendable(Claim(Env(p), Path(p)), attempt[p].at)
           /\ registry' = Append(registry, Claim(Env(p), Path(p))) /\ UNCHANGED journal
  <2> DEFINE ev == Claim(e, f)
  <2>1. ev \in Events /\ Appendable(ev, attempt[p].at) /\ registry' = Append(registry, ev)
    BY <1>3, <1>4, EventFacts
  <2>2. registry \in Seq(Events)
    BY DEF AdapterInv, AdapterType
  <2>3. Logged' = Logged \cup {ev}
    BY <2>1, <2>2, Appending
  <2>4. \A g \in Paths : Claim(e, g) \notin Logged
    <3>1. ev.source = e /\ ev.kind = "claimed" /\ \A g \in Paths : Claim(e, g).source = e
      BY DEF Claim, Source
    <3> QED BY <2>1, <2>2, <3>1, AppendableFacts
  <2>5. \A d \in Envelopes : Claimed(d)' <=> \E g \in Paths : Claim(d, g) \in Logged'
    <3>1. \A x : x \in Logged' <=> \E k \in 1..Len(registry') : registry'[k] = x
      BY Zenon DEF Logged
    <3> QED BY <3>1 DEF Claimed
  <2>6. ~Claimed(e) /\ Claimed(e)'
    BY <2>3, <2>4, <2>5, LoggedFacts, Zenon
  <2>7. \A d \in Envelopes \ {e} : Claimed(d)' <=> Claimed(d)
    BY <2>3, <2>5, LoggedFacts, EventFacts
  <2>8. \A d \in Envelopes, g \in Paths : Closed(d, g)' <=> Closed(d, g)
    BY <1>4, Zenon DEF Closed
  <2>9. \A g \in Paths : ~Closed(e, g)
    BY <2>4 DEF Closed, AdapterInv, JournalClaimed
  <2>10. PhaseOf(e) = "unused" /\ PhaseOf(e)' = "spent"
    BY <2>6, <2>8, <2>9 DEF PhaseOf, Closed
  <2> QED BY <1>1, <2>7, <2>8, <2>10, SamePhase DEF Spends
<1>5. CASE GiveUp(p) /\ UNCHANGED registry
  BY <1>1, <1>5, HiddenGiveUp
<1> QED BY <1>4, <1>5 DEF AppendClaim

LEMMA HiddenConsumption ==
  ASSUME AdapterInv, NEW p \in Dispatchers, AppendConsumption(p)
  PROVE  Hidden
<1>1. attempt[p].step = "consuming" /\ attempt[p].step \in Busy /\ UNCHANGED <<journal, ran>>
  BY StepNames DEF AppendConsumption, At
<1>2. Env(p) \in Envelopes /\ Path(p) \in Paths
  BY <1>1, BusyFacts, Zenon
<1>3. PICK e \in Envelopes, f \in Paths : e = Env(p) /\ f = Path(p)
  BY <1>2
<1>4. CASE registry' = Append(registry, Consumption(Env(p), Path(p)))
  <2>1. Consumption(e, f) \in Events /\ registry' = Append(registry, Consumption(e, f))
    BY <1>3, <1>4, EventFacts
  <2>2. Logged' = Logged \cup {Consumption(e, f)}
    BY <2>1, Appending DEF AdapterInv, AdapterType
  <2>3. \A d \in Envelopes : Claimed(d)' <=> \E g \in Paths : Claim(d, g) \in Logged'
    <3>1. \A x : x \in Logged' <=> \E k \in 1..Len(registry') : registry'[k] = x
      BY DEF Logged
    <3> QED BY <3>1 DEF Claimed
  <2>4. \A d \in Envelopes : Claimed(d)' <=> Claimed(d)
    BY <2>2, <2>3, LoggedFacts, EventFacts
  <2>5. \A d \in Envelopes, g \in Paths : Closed(d, g)' <=> Closed(d, g)
    BY <1>1 DEF Closed
  <2> QED BY <1>1, <2>4, <2>5, SamePhase, Zenon DEF Hidden
<1>5. CASE UNCHANGED registry
  BY <1>1, <1>5, HiddenMemory
<1> QED BY <1>4, <1>5 DEF AppendConsumption

LEMMA UsesAct ==
  ASSUME AdapterInv, NEW p \in Dispatchers, Act(p)
  PROVE  \E e \in Envelopes : Uses(e)
<1>1. attempt[p].step = "executing" /\ attempt[p].step \in Busy /\ UNCHANGED <<registry, journal>>
  BY StepNames DEF Act, At
<1>2. /\ Env(p) \in Envelopes /\ Path(p) \in Paths /\ ran[Env(p)] = 0
      /\ Claim(Env(p), Path(p)) \in Logged
  BY <1>1, BusyFacts, StepNames, Zenon DEF StepBacked
<1>3. PICK e \in Envelopes : e = Env(p)
  BY <1>2
<1>4. PhaseOf(e) # "unused"
  BY <1>2, <1>3, LoggedFacts, Zenon DEF PhaseOf
<1>5. ran' = [ran EXCEPT ![e] = 1]
  BY <1>2, <1>3 DEF Act, AdapterInv, AdapterType
<1>6. \A d \in Envelopes : PhaseOf(d)' = PhaseOf(d)
  BY <1>1, SamePhase, SameClaimed, Zenon DEF Closed
<1> QED BY <1>2, <1>3, <1>4, <1>5, <1>6, Zenon DEF Uses

LEMMA FinishesTerminal ==
  ASSUME AdapterInv, NEW p \in Dispatchers, RecordTerminal(p)
  PROVE  \E e \in Envelopes : Finishes(e)
<1>1. /\ attempt[p].step = "open" /\ journal[Path(p)].phase = Returned
      /\ journal' = [journal EXCEPT ![Path(p)].phase = Witnessed] /\ UNCHANGED <<registry, ran>>
  BY DEF RecordTerminal, At
<1>2. attempt[p] \in Attempts /\ journal \in [Paths -> [holds: SUBSET Envelopes, phase: 0..4]]
  BY DEF AdapterInv, AdapterType
<1>3. PICK f \in Paths : f = Path(p)
  BY <1>1, <1>2, AttemptKinds, Zenon DEF Path
<1>4. PICK e \in Envelopes : journal[f].holds = {e} /\ Claim(e, f) \in Logged
  BY <1>1, <1>3 DEF AdapterInv, JournalClaimed
<1>5. \A g \in Paths : ~Closed(e, g)
  <2>1. ASSUME NEW g \in Paths, Closed(e, g) PROVE FALSE
    <3>1. Claim(e, g) \in Logged
      BY <2>1 DEF Closed, AdapterInv, JournalClaimed
    <3>2. g = f
      BY <1>4, <3>1 DEF AdapterInv, OneClaim
    <3> QED BY <1>1, <1>3, <2>1, <3>2 DEF Closed
  <2> QED BY <2>1
<1>6. PhaseOf(e) = "spent"
  BY <1>4, <1>5, LoggedFacts, Zenon DEF PhaseOf, Closed
<1>7. /\ journal'[f].holds = {e} /\ journal'[f].phase = Witnessed
      /\ \A g \in Paths \ {f} : journal'[g] = journal[g]
  BY <1>1, <1>2, <1>3, <1>4
<1>8. PhaseOf(e)' = "closed"
  BY <1>7 DEF PhaseOf
<1>9. \A d \in Envelopes \ {e}, g \in Paths : Closed(d, g)' <=> Closed(d, g)
  BY <1>4, <1>7 DEF Closed
<1>10. \A d \in Envelopes \ {e} : PhaseOf(d)' = PhaseOf(d)
  BY <1>1, <1>9, SamePhase, SameClaimed
<1> QED BY <1>1, <1>6, <1>8, <1>10 DEF Finishes

\* The steps that change a journal and no phase of an envelope.
LEMMA HiddenWrites ==
  ASSUME AdapterInv, NEW p \in Dispatchers,
         \/ \E e \in Envelopes, f \in Paths, c \in 0..Len(registry) : Create(p, e, f, c)
         \/ Prepare(p) \/ MarkDispatching(p) \/ RecordReport(p)
  PROVE  Hidden
<1>1. ASSUME NEW e \in Envelopes, NEW f \in Paths, NEW c \in 0..Len(registry), Create(p, e, f, c)
      PROVE  Hidden
  <2>1. journal[f].phase # Witnessed /\ JournalFor(e, Created).phase # Witnessed
    BY <1>1 DEF Create, NoJournal, JournalFor
  <2> QED BY <1>1, <2>1, HiddenJournal, Zenon DEF Create
<1>2. CASE Prepare(p)
  <2>1. attempt[p].step = "admitted" /\ attempt[p].step \in Busy
    BY <1>2, StepNames DEF Prepare, At
  <2>2. Path(p) \in Paths /\ journal[Path(p)].phase = Created
    BY <2>1, BusyFacts, StepNames, Zenon DEF StepBacked
  <2>3. PICK f \in Paths : f = Path(p)
    BY <2>2, Zenon
  <2>4. PICK j : j = JournalFor(Env(p), Prepared)
    OBVIOUS
  <2>5. j.phase # Witnessed /\ journal[f].phase # Witnessed
    BY <2>2, <2>3, <2>4 DEF JournalFor
  <2>6. journal' = [journal EXCEPT ![f] = j] /\ UNCHANGED <<registry, ran>>
    BY <1>2, <2>3, <2>4 DEF Prepare
  <2> QED BY <2>5, <2>6, HiddenJournal, Zenon
<1>3. CASE MarkDispatching(p)
  <2>1. attempt[p].step = "prepared" /\ attempt[p].step \in Busy
    BY <1>3, StepNames DEF MarkDispatching, At
  <2>2. Path(p) \in Paths /\ journal[Path(p)].phase = Prepared
    BY <1>3, <2>1, BusyFacts DEF MarkDispatching, JournalFor
  <2>3. PICK f \in Paths : f = Path(p)
    BY <2>2
  <2>4. PICK j : j = JournalFor(Env(p), Dispatching)
    OBVIOUS
  <2>5. j.phase # Witnessed /\ journal[f].phase # Witnessed
    BY <2>2, <2>3, <2>4 DEF JournalFor
  <2>6. journal' = [journal EXCEPT ![f] = j] /\ UNCHANGED <<registry, ran>>
    BY <1>3, <2>3, <2>4 DEF MarkDispatching
  <2> QED BY <2>5, <2>6, HiddenJournal, Zenon
<1>4. CASE RecordReport(p)
  <2>1. /\ attempt[p].step = "open" /\ journal[Path(p)].phase = Dispatching
        /\ journal' = [journal EXCEPT ![Path(p)].phase = Returned] /\ UNCHANGED <<registry, ran>>
    BY <1>4 DEF RecordReport, At
  <2>2. attempt[p] \in Attempts /\ journal \in [Paths -> [holds: SUBSET Envelopes, phase: 0..4]]
    BY DEF AdapterInv, AdapterType
  <2>3. PICK f \in Paths : f = Path(p)
    BY <2>1, <2>2, AttemptKinds, Zenon DEF Path
  <2>4. PICK j : j = [journal[f] EXCEPT !.phase = Returned]
    BY Zenon
  <2>5. j.phase # Witnessed /\ journal[f].phase # Witnessed
    BY <2>1, <2>2, <2>3, <2>4
  <2>6. journal' = [journal EXCEPT ![f] = j]
    BY <2>1, <2>2, <2>3, <2>4
  <2> QED BY <2>1, <2>5, <2>6, HiddenJournal, Zenon
<1> QED BY <1>1, <1>2, <1>3, <1>4

LEMMA HiddenClaiming ==
  ASSUME AdapterInv, NEW p \in Dispatchers, BeginClaim(p) \/ ProveClaim(p)
  PROVE  Hidden
<1>1. attempt[p].step \in Early \cup Claiming /\ UNCHANGED <<registry, ran>>
  BY StepNames DEF BeginClaim, ProveClaim, At
<1>2. CASE UNCHANGED journal
  BY <1>1, <1>2, HiddenMemory
<1>3. CASE GiveUp(p)
  BY <1>1, <1>3, HiddenGiveUp
<1> QED BY <1>2, <1>3 DEF BeginClaim, ProveClaim

LEMMA EnvelopeStep ==
  ASSUME AdapterInv, [AdapterNext]_adapterVars
  PROVE  Hidden \/ \E e \in Envelopes : Spends(e) \/ Uses(e) \/ Finishes(e)
<1>1. ASSUME NEW p \in Dispatchers,
             \/ SignClaim(p) \/ BeginConsumption(p) \/ SignConsumption(p) \/ CheckConsumption(p)
             \/ Report(p) \/ (\E f \in Paths : Open(p, f)) \/ Stop(p)
      PROVE  Hidden
  <2>1. UNCHANGED <<registry, journal, ran>>
    BY <1>1, Zenon DEF SignClaim, BeginConsumption, SignConsumption, CheckConsumption, Report, Open, Stop
  <2> QED BY <2>1, HiddenMemory
<1>2. CASE UNCHANGED adapterVars
  BY <1>2, HiddenMemory DEF adapterVars
<1> QED BY <1>1, <1>2, SpendsClaim, HiddenConsumption, UsesAct, FinishesTerminal, HiddenWrites,
           HiddenClaiming, Zenon DEF AdapterNext

\* Registry, journals and permits together are a one-use authorization (OneUse): the claim
\* spends an envelope, the action uses it, the terminal receipt closes it, and every other
\* step of dispatch changes nothing of that.
THEOREM DispatchRefinesOneUse == AdapterSpec => DispatchImplementsOneUse
<1> DEFINE phases == [e \in Envelopes |-> PhaseOf(e)]
<1>1. AdapterInit => AdapterPromise!Init
  <2> SUFFICES ASSUME AdapterInit PROVE AdapterPromise!Init
    OBVIOUS
  <2>1. /\ registry = <<>> /\ journal = [f \in Paths |-> NoJournal] /\ ran = [e \in Envelopes |-> 0]
    BY DEF AdapterInit
  <2>2. \A e \in Envelopes : PhaseOf(e) = "unused"
    BY <2>1 DEF PhaseOf, NoJournal, Claimed
  <2> QED BY <2>1, <2>2 DEF AdapterPromise!Init
<1>2. AdapterInv /\ [AdapterNext]_adapterVars => [AdapterPromise!Next]_(AdapterPromise!oneUseVars)
  <2> SUFFICES ASSUME AdapterInv, [AdapterNext]_adapterVars
               PROVE  [AdapterPromise!Next]_(AdapterPromise!oneUseVars)
    OBVIOUS
  <2>1. CASE Hidden
    <3>1. phases' = phases
      BY <2>1 DEF Hidden
    <3> QED BY <2>1, <3>1 DEF Hidden, AdapterPromise!oneUseVars
  <2>2. ASSUME NEW e \in Envelopes, Spends(e) PROVE AdapterPromise!Spend(e)
    <3>1. phases[e] = "unused" /\ phases' = [phases EXCEPT ![e] = "spent"]
      BY <2>2, Zenon DEF Spends
    <3> QED BY <2>2, <3>1 DEF Spends, AdapterPromise!Spend
  <2>3. ASSUME NEW e \in Envelopes, Uses(e) PROVE AdapterPromise!Use(e)
    <3>1. phases[e] # "unused" /\ phases' = phases
      BY <2>3 DEF Uses
    <3> QED BY <2>3, <3>1 DEF Uses, AdapterPromise!Use
  <2>4. ASSUME NEW e \in Envelopes, Finishes(e) PROVE AdapterPromise!Close(e)
    <3>1. phases[e] = "spent" /\ phases' = [phases EXCEPT ![e] = "closed"]
      BY <2>4, Zenon DEF Finishes
    <3> QED BY <2>4, <3>1 DEF Finishes, AdapterPromise!Close
  <2> QED BY <2>1, <2>2, <2>3, <2>4, EnvelopeStep DEF AdapterPromise!Next
<1> QED BY <1>1, <1>2, DispatchInvariant, PTL DEF AdapterSpec, DispatchImplementsOneUse, AdapterPromise!Spec

HIDE DEF Created, Prepared, Dispatching, Returned, Witnessed

(***************************************************************************)
(* 2. FileBridge                                                           *)
(*                                                                         *)
(* A reply keeps its thread because what it answers has one name in the    *)
(* table (NameOf): the id of the row, when it answers the mirror of a row, *)
(* and the id the bridge gives its sender's copy otherwise.  The lookup of *)
(* a pass (ParentOf) finds that name since the listing it goes by has what *)
(* its files reply to.  A row the reply could refer to is not refused, so a*)
(* note is posted only when the table has none.                            *)
(***************************************************************************)
MirrorSpec == MirrorInit /\ [][MirrorNext]_mirrorVars

----------------------------------------------------------------------------
(* Ids.                                                                    *)

\* Facts about sequences.
LEMMA SeqMonotonic ==
  ASSUME NEW S, NEW T, S \subseteq T
  PROVE  Seq(S) \subseteq Seq(T)
OBVIOUS

LEMMA SeqEqual ==
  ASSUME NEW S, NEW s \in Seq(S), NEW t \in Seq(S), Len(s) = Len(t),
         \A i \in 1..Len(s) : s[i] = t[i]
  PROVE  s = t
OBVIOUS

\* What the ids of messages are made of.
Letters == STRING \cup {"f", "s"}

\* The table's name for the message that file f replies to.
NameOf(f) == IF Head(f.parent) = "s" THEN Tail(f.parent) ELSE RowId(f.parent, f.from)

LEMMA RowIdFacts ==
  ASSUME NEW x \in Seq(Letters), NEW a
  PROVE  /\ RowId(x, a) # NoId /\ Head(RowId(x, a)) = "f"
         /\ \A y \in Seq(Letters) : RowId(x, a) = RowId(y, a) => x = y
<1> DEFINE S == Letters \cup {a}
<1>0. Letters \subseteq S /\ a \in S /\ "f" \in S
  BY DEF Letters
<1> HIDE DEF S
<1>1. (\A y \in Seq(Letters) : y \in Seq(S)) /\ <<"f">> \in Seq(S) /\ <<a>> \in Seq(S)
  BY <1>0, SeqMonotonic
<1>2. ASSUME NEW y \in Seq(S)
      PROVE  /\ RowId(y, a) \in Seq(S) /\ Len(RowId(y, a)) = Len(y) + 2 /\ Len(y) \in Nat
             /\ RowId(y, a)[1] = "f"
             /\ \A i \in 1..Len(y) : RowId(y, a)[i + 1] = y[i]
  <2> DEFINE z == <<"f">> \o y
  <2>1. /\ z \in Seq(S) /\ Len(z) = 1 + Len(y) /\ z[1] = "f"
        /\ \A i \in 1..Len(y) : z[i + 1] = y[i]
    BY <1>1
  <2>2. RowId(y, a) = z \o <<a>>
    BY DEF RowId
  <2> HIDE DEF z
  <2>3. /\ z \o <<a>> \in Seq(S) /\ Len(z \o <<a>>) = Len(z) + 1
        /\ \A i \in 1..Len(z) : (z \o <<a>>)[i] = z[i]
    BY <1>1, <2>1
  <2> QED BY <2>1, <2>2, <2>3
<1>3. RowId(x, a) # NoId /\ Head(RowId(x, a)) = "f"
  BY <1>1, <1>2 DEF NoId
<1>4. ASSUME NEW y \in Seq(Letters), RowId(x, a) = RowId(y, a) PROVE x = y
  <2>0. x \in Seq(S) /\ y \in Seq(S)
    BY <1>1
  <2>1. Len(x) = Len(y) /\ Len(x) \in Nat
    <3>1. Len(x) + 2 = Len(y) + 2 /\ Len(x) \in Nat /\ Len(y) \in Nat
      BY <1>2, <1>4, <2>0
    <3> QED BY <3>1
  <2>2. ASSUME NEW i \in 1..Len(x) PROVE x[i] = y[i]
    <3>1. RowId(x, a)[i + 1] = x[i] /\ RowId(y, a)[i + 1] = y[i]
      BY <1>2, <2>0, <2>1
    <3> QED BY <1>4, <3>1
  <2> QED BY <2>0, <2>1, <2>2, SeqEqual
<1> QED BY <1>3, <1>4

LEMMA FileIdFacts ==
  ASSUME NEW x \in Seq(Letters)
  PROVE  FileId(x) \in Seq(Letters) /\ Head(FileId(x)) = "s" /\ Tail(FileId(x)) = x
<1>1. <<"s">> \in Seq(Letters)
  <2>1. "s" \in Letters
    BY DEF Letters
  <2> QED BY <2>1
<1>2. /\ FileId(x) \in Seq(Letters) /\ Len(FileId(x)) = 1 + Len(x) /\ FileId(x)[1] = "s"
      /\ \A i \in 1..Len(x) : FileId(x)[i + 1] = x[i]
  BY <1>1 DEF FileId
<1>3. Head(FileId(x)) = "s" /\ Len(Tail(FileId(x))) = Len(x) /\ Tail(FileId(x)) \in Seq(Letters)
  BY <1>2
<1>4. \A i \in 1..Len(x) : Tail(FileId(x))[i] = x[i]
  BY <1>2
<1> QED BY <1>2, <1>3, <1>4, SeqEqual

----------------------------------------------------------------------------
(* The table.                                                              *)

IsMailRow(r) == r = [seq |-> r.seq, msg |-> r.msg, status |-> r.status, live |-> r.live] /\ r.seq \in Nat

MailTableOk == lastSeq \in Nat /\ \A r \in table : IsMailRow(r) /\ r.seq <= lastSeq

\* Every row of the next table is one of earlier, but for its status and its life.
Remains(earlier) == \A r \in table' : \E q \in earlier : r.seq = q.seq /\ r.msg = q.msg

LEMMA RowMoves ==
  ASSUME NEW r, IsMailRow(r), NEW x
  PROVE  /\ IsMailRow([r EXCEPT !.status = x]) /\ [r EXCEPT !.status = x].seq = r.seq
         /\ [r EXCEPT !.status = x].msg = r.msg
         /\ IsMailRow([r EXCEPT !.live = x]) /\ [r EXCEPT !.live = x].seq = r.seq
         /\ [r EXCEPT !.live = x].msg = r.msg
<1>1. PICK s, m, t, l : r = [seq |-> s, msg |-> m, status |-> t, live |-> l] /\ s \in Nat
  BY DEF IsMailRow
<1>2. ASSUME NEW q, q = [r EXCEPT !.status = x] PROVE q = [seq |-> s, msg |-> m, status |-> x, live |-> l]
  BY <1>1, <1>2
<1>3. ASSUME NEW q, q = [r EXCEPT !.live = x] PROVE q = [seq |-> s, msg |-> m, status |-> t, live |-> x]
  BY <1>1, <1>3
<1> QED BY <1>1, <1>2, <1>3 DEF IsMailRow

LEMMA PostMoves ==
  ASSUME MailTableOk, NEW m, Post(m)
  PROVE  /\ MailTableOk'
         /\ \/ Remains(table)
            \/ /\ Outcome(m) = "posted"
               /\ \A r \in table' :
                    \/ r.seq = lastSeq + 1 /\ r.msg = m
                    \/ \E q \in Kept(table) : r.seq = q.seq /\ r.msg = q.msg
<1>1. CASE Outcome(m) = "posted" /\ table' = Replied(Kept(table), m.parent) \cup {Row(m)}
           /\ lastSeq' = lastSeq + 1
  <2>1. IsMailRow(Row(m)) /\ Row(m).seq = lastSeq + 1 /\ Row(m).msg = m
    BY DEF IsMailRow, Row, MailTableOk
  <2>2. ASSUME NEW r \in Replied(Kept(table), m.parent)
        PROVE  IsMailRow(r) /\ \E q \in Kept(table) : r.seq = q.seq /\ r.msg = q.msg
    <3>1. PICK q \in Kept(table) : r = IF q.msg.id = m.parent THEN [q EXCEPT !.status = "replied"] ELSE q
      BY DEF Replied
    <3>2. IsMailRow(q)
      BY DEF MailTableOk, Kept
    <3>3. CASE q.msg.id = m.parent
      <4>1. r = [q EXCEPT !.status = "replied"]
        BY <3>1, <3>3
      <4>2. PICK x : x = "replied"
        OBVIOUS
      <4>3. r = [q EXCEPT !.status = x]
        BY <4>1, <4>2
      <4>4. IsMailRow(r) /\ r.seq = q.seq /\ r.msg = q.msg
        BY <3>2, <4>3, RowMoves, Zenon
      <4> QED BY <4>4
    <3>4. CASE q.msg.id # m.parent
      BY <3>1, <3>2, <3>4
    <3> QED BY <3>3, <3>4
  <2>3. \A q \in Kept(table) : q.seq \in Nat /\ q.seq <= lastSeq
    BY DEF Kept, MailTableOk, IsMailRow
  <2>4. \A r \in table' : IsMailRow(r) /\ r.seq <= lastSeq'
    BY <1>1, <2>1, <2>2, <2>3 DEF MailTableOk
  <2> QED BY <1>1, <2>1, <2>2, <2>4 DEF MailTableOk
<1>2. CASE table' = Kept(table) /\ lastSeq' = lastSeq
  BY <1>2 DEF MailTableOk, Remains, Kept
<1>3. CASE UNCHANGED storeVars
  BY <1>3 DEF MailTableOk, Remains, storeVars
<1> QED BY <1>1, <1>2, <1>3 DEF Post

LEMMA TrafficRemains ==
  ASSUME MailTableOk,
         \/ \E r \in table : Lapse(r)
         \/ \E id, recipient : Ack(id, recipient)
         \/ Inbox
  PROVE  MailTableOk' /\ Remains(table)
<1>1. ASSUME NEW r \in table, Lapse(r) PROVE MailTableOk' /\ Remains(table)
  <2>1. PICK q : q = [r EXCEPT !.live = FALSE]
    BY Zenon
  <2>2. IsMailRow(q) /\ q.seq = r.seq /\ q.msg = r.msg /\ r.seq <= lastSeq
    BY <2>1, RowMoves, Zenon DEF MailTableOk
  <2>3. table' = (table \ {r}) \cup {q} /\ lastSeq' = lastSeq
    BY <1>1, <2>1 DEF Lapse
  <2> QED BY <2>2, <2>3 DEF MailTableOk, Remains
<1>2. ASSUME NEW id, NEW recipient, Ack(id, recipient) PROVE MailTableOk' /\ Remains(table)
  <2>1. ASSUME NEW r \in table'
        PROVE  IsMailRow(r) /\ \E q \in table : r.seq = q.seq /\ r.msg = q.msg
    <3>1. PICK q \in Kept(table) :
            r = IF q.msg.id = id /\ q.msg.to = recipient /\ q.status = "pending"
                THEN [q EXCEPT !.status = "acked"] ELSE q
      BY <1>2 DEF Ack
    <3>2. IsMailRow(q) /\ q \in table
      BY DEF MailTableOk, Kept
    <3>3. CASE r = [q EXCEPT !.status = "acked"]
      BY <3>2, <3>3, RowMoves, ZenonT(30)
    <3>4. CASE r = q
      BY <3>2, <3>4
    <3> QED BY <3>1, <3>3, <3>4
  <2> QED BY <1>2, <2>1, Zenon DEF Ack, MailTableOk, Remains
<1>3. CASE Inbox
  BY <1>3 DEF Inbox, MailTableOk, Remains, Kept
<1> QED BY <1>1, <1>2, <1>3

----------------------------------------------------------------------------
(* The invariant.                                                          *)

\* A file is what an agent wrote, in reply to a file that is there, or the mirror of a
\* row; no two files share an id.
FilesOk ==
  \A f \in files :
    /\ \/ f \in FileMail /\ (f.parent = NoId \/ \E g \in files : g.id = f.parent)
       \/ f.mirror # NoId /\ f.mirror \in Seq(Letters) /\ f.id = FileId(f.mirror)
    /\ \A g \in files : f.id = g.id => f = g

IsPass(b) ==
  b = [pc |-> b.pc, done |-> b.done, seq |-> b.seq, rows |-> b.rows, listing |-> b.listing,
       pushed |-> b.pushed]

\* What a pass holds: rows of the table, and a listing that has what its files reply to.
PassOk ==
  /\ IsPass(bridge)
  /\ \A r \in bridge.rows : r.msg \in TableMail \/ FromFile(r.msg.id)
  /\ \A f \in bridge.listing :
       /\ f \in files
       /\ f \in FileMail => (f.parent = NoId \/ \E g \in bridge.listing : g.id = f.parent)

\* Row r is file f, told to one of its addressees.
Told(r, f) ==
  /\ f \in FileMail
  /\ r.msg.id = RowId(f.id, r.msg.to) /\ r.msg.from = f.from
  /\ f.parent # NoId => \/ r.msg.parent = NoId /\ r.msg.body = "noted"
                        \/ r.msg.parent = NameOf(f)

\* The row of a reply, older than r, that r answers.
Answers(r, f, q) ==
  /\ q.seq < r.seq /\ q.msg.id = NameOf(f)
  /\ q.msg.from = r.msg.to /\ q.msg.to = r.msg.from

RowOk(r) ==
  \/ r.msg \in TableMail
  \/ \E f \in files :
       /\ Told(r, f)
       /\ f.parent # NoId => \A q \in table : Answers(r, f, q) => r.msg.parent = q.msg.id

RowsOk == \A r \in table : RowOk(r)

ThreadInv == MailTableOk /\ FilesOk /\ PassOk /\ RowsOk

LEMMA FileIds ==
  ASSUME FilesOk
  PROVE  /\ \A f \in files : f.id \in Seq(Letters)
         /\ \A f \in files : f \in FileMail <=> f.mirror = NoId
         /\ \A m \in FileMail \cup TableMail :
              m.id \in Seq(Letters) /\ m.id # NoId /\ Head(m.id) # "f" /\ Head(m.id) # "s"
<1>1. \A m \in FileMail \cup TableMail :
        m.id \in Seq(Letters) /\ m.id # NoId /\ Head(m.id) # "f" /\ Head(m.id) # "s"
  <2>1. STRING \subseteq Letters
    BY DEF Letters
  <2>2. \A x \in Seq(STRING) : x \in Seq(Letters)
    BY <2>1, SeqMonotonic, Zenon
  <2> QED BY <2>2, MailAssumption
<1>2. ASSUME NEW f \in files PROVE f.id \in Seq(Letters) /\ (f \in FileMail <=> f.mirror = NoId)
  BY <1>1, FileIdFacts, MailAssumption DEF FilesOk
<1> QED BY <1>1, <1>2

\* A row that the bridge posted is not one that agents posted.
LEMMA RowNames ==
  ASSUME RowsOk, FilesOk
  PROVE  \A r \in table : r.msg.id # NoId /\ (r.msg \in TableMail \/ FromFile(r.msg.id))
                          /\ (r.msg \in TableMail => ~FromFile(r.msg.id))
<1> SUFFICES ASSUME NEW r \in table
             PROVE  r.msg.id # NoId /\ (r.msg \in TableMail \/ FromFile(r.msg.id))
                    /\ (r.msg \in TableMail => ~FromFile(r.msg.id))
  OBVIOUS
<1>1. r.msg \in TableMail => r.msg.id # NoId /\ ~FromFile(r.msg.id)
  BY FileIds DEF FromFile
<1>2. CASE r.msg \notin TableMail
  <2>1. PICK f \in files : Told(r, f)
    BY <1>2 DEF RowsOk, RowOk
  <2>2. f.id \in Seq(Letters)
    BY FileIds
  <2> QED BY <1>2, <2>1, <2>2, RowIdFacts DEF Told, FromFile
<1> QED BY <1>1, <1>2

\* What a reply answers has one name in the table, and the bridge finds it.
LEMMA ParentNamed ==
  ASSUME ThreadInv, NEW f \in files, f \in FileMail, f.parent # NoId
  PROVE  NameOf(f) # NoId
<1>1. PICK g \in files : g.id = f.parent
  BY MailAssumption DEF ThreadInv, FilesOk
<1>2. CASE g \in FileMail
  BY <1>1, <1>2, FileIds, RowIdFacts DEF NameOf, ThreadInv
<1>3. CASE g \notin FileMail
  BY <1>1, <1>3, FileIdFacts, Zenon DEF NameOf, ThreadInv, FilesOk
<1> QED BY <1>2, <1>3

LEMMA ParentFound ==
  ASSUME ThreadInv, NEW f \in bridge.listing, f \in FileMail, f.parent # NoId, NEW target
  PROVE  ParentOf(f, target) = NameOf(f)
<1> DEFINE mirrors == {g \in bridge.listing : g.id = f.parent /\ g.mirror # NoId}
<1>1. PICK g \in bridge.listing : g.id = f.parent
  BY DEF ThreadInv, PassOk
<1>2. g \in files /\ \A h \in bridge.listing : h.id = g.id => h = g
  BY DEF ThreadInv, PassOk, FilesOk
<1>3. CASE g \in FileMail
  <2>1. g.mirror = NoId /\ Head(f.parent) # "s" /\ Head(f.parent) # "f"
    BY <1>1, <1>3, FileIds, MailAssumption DEF ThreadInv
  <2>2. mirrors = {}
    BY <1>1, <1>2, <2>1
  <2>3. WithId(table, f.parent) = {}
    <3> SUFFICES ASSUME NEW r \in table, r.msg.id = f.parent PROVE FALSE
      BY DEF WithId
    <3>1. CASE r.msg \in TableMail
      BY <1>1, <1>3, <3>1, MailAssumption
    <3>2. CASE FromFile(r.msg.id)
      BY <2>1, <3>2 DEF FromFile
    <3> QED BY <3>1, <3>2, RowNames DEF ThreadInv
  <2>4. ParentOf(f, target) = RowId(f.parent, f.from)
    BY <2>2, <2>3 DEF ParentOf
  <2> QED BY <2>1, <2>4 DEF NameOf
<1>4. CASE g \notin FileMail
  <2>1. g.mirror # NoId /\ g.mirror \in Seq(Letters) /\ g.id = FileId(g.mirror)
    BY <1>2, <1>4 DEF ThreadInv, FilesOk
  <2>2. mirrors = {g}
    BY <1>1, <1>2, <2>1
  <2>3. (CHOOSE h \in mirrors : TRUE) = g
    BY <2>2
  <2>4. ParentOf(f, target) = g.mirror
    BY <2>2, <2>3 DEF ParentOf
  <2>5. NameOf(f) = g.mirror
    BY <1>1, <2>1, FileIdFacts, Zenon DEF NameOf
  <2> QED BY <2>4, <2>5
<1> QED BY <1>3, <1>4

----------------------------------------------------------------------------
(* The steps.                                                              *)

\* Rows that only change their status or go keep what they say, and so they do when
\* files are added.
LEMMA RowsRemain ==
  ASSUME ThreadInv, MailTableOk', Remains(table), \A f \in files : f \in files'
  PROVE  RowsOk'
<1> SUFFICES ASSUME NEW r \in table' PROVE RowOk(r)'
  BY DEF RowsOk
<1>1. PICK p \in table : r.seq = p.seq /\ r.msg = p.msg
  BY DEF Remains
<1>2. CASE p.msg \in TableMail
  BY <1>1, <1>2 DEF RowOk
<1>3. ASSUME NEW f \in files, Told(p, f),
             f.parent # NoId => \A q \in table : Answers(p, f, q) => p.msg.parent = q.msg.id
      PROVE  RowOk(r)'
  <2>1. Told(r, f)
    BY <1>1, <1>3 DEF Told
  <2>2. ASSUME f.parent # NoId, NEW q \in table', Answers(r, f, q)
        PROVE  r.msg.parent = q.msg.id
    <3>1. PICK o \in table : q.seq = o.seq /\ q.msg = o.msg
      BY DEF Remains
    <3>2. Answers(p, f, o)
      BY <1>1, <2>2, <3>1 DEF Answers
    <3> QED BY <1>1, <1>3, <2>2, <3>1, <3>2
  <2>3. f \in files' /\ Told(r, f)' /\ \A q \in table' : Answers(r, f, q)' = Answers(r, f, q)
    BY <2>1, Zenon DEF Told, Answers
  <2> QED BY <2>2, <2>3 DEF RowOk
<1> QED BY <1>2, <1>3 DEF ThreadInv, RowsOk, RowOk

\* A row that is posted is an agent's, or a file told as this says.
LEMMA RowsPosted ==
  ASSUME ThreadInv, NEW m, Post(m), \A f \in files : f \in files',
         \/ m \in TableMail
         \/ \E f \in files :
              /\ f \in FileMail /\ m.id = RowId(f.id, m.to) /\ m.from = f.from
              /\ f.parent # NoId =>
                   /\ (m.parent = NoId /\ m.body = "noted") \/ m.parent = NameOf(f)
                   /\ \A q \in Kept(table) :
                        (q.msg.id = NameOf(f) /\ q.msg.from = m.to /\ q.msg.to = m.from)
                          => m.parent = q.msg.id
  PROVE  MailTableOk' /\ RowsOk'
<1>0. MailTableOk
  BY DEF ThreadInv
<1>1. /\ MailTableOk'
      /\ \/ Remains(table)
         \/ \A r \in table' :
              \/ r.seq = lastSeq + 1 /\ r.msg = m
              \/ \E q \in Kept(table) : r.seq = q.seq /\ r.msg = q.msg
  BY <1>0, PostMoves
<1>2. CASE Remains(table)
  BY <1>1, <1>2, RowsRemain
<1>3. CASE \A r \in table' :
              \/ r.seq = lastSeq + 1 /\ r.msg = m
              \/ \E q \in Kept(table) : r.seq = q.seq /\ r.msg = q.msg
  <2>0. \A q \in Kept(table) : q \in table /\ q.seq \in Nat /\ q.seq <= lastSeq /\ lastSeq \in Nat
    BY <1>0 DEF Kept, MailTableOk, IsMailRow
  <2> SUFFICES ASSUME NEW r \in table' PROVE RowOk(r)'
    BY <1>1 DEF RowsOk
  <2>1. CASE r.seq = lastSeq + 1 /\ r.msg = m
    <3>1. CASE m \in TableMail
      BY <2>1, <3>1 DEF RowOk
    <3>2. ASSUME NEW f \in files,
              /\ f \in FileMail /\ m.id = RowId(f.id, m.to) /\ m.from = f.from
              /\ f.parent # NoId =>
                   /\ (m.parent = NoId /\ m.body = "noted") \/ m.parent = NameOf(f)
                   /\ \A q \in Kept(table) :
                        (q.msg.id = NameOf(f) /\ q.msg.from = m.to /\ q.msg.to = m.from)
                          => m.parent = q.msg.id
          PROVE  RowOk(r)'
      <4>1. Told(r, f)
        BY <2>1, <3>2 DEF Told
      <4>2. ASSUME f.parent # NoId, NEW q \in table', Answers(r, f, q)
            PROVE  r.msg.parent = q.msg.id
        <5>1. q.seq < lastSeq + 1
          BY <2>1, <4>2 DEF Answers
        <5>2. lastSeq \in Nat
          BY <1>0 DEF MailTableOk
        <5>3. PICK o \in Kept(table) : q.seq = o.seq /\ q.msg = o.msg
          BY <1>3, <5>1, <5>2
        <5> QED BY <2>1, <3>2, <4>2, <5>3 DEF Answers
      <4>3. f \in files' /\ Told(r, f)' /\ \A q \in table' : Answers(r, f, q)' = Answers(r, f, q)
        BY <4>1 DEF Told, Answers
      <4> QED BY <4>2, <4>3 DEF RowOk
    <3> QED BY <3>1, <3>2
  <2>2. ASSUME NEW p \in Kept(table), r.seq = p.seq, r.msg = p.msg PROVE RowOk(r)'
    <3>0. p \in table /\ r.seq \in Nat /\ r.seq <= lastSeq /\ lastSeq \in Nat
      BY <2>0, <2>2
    <3>1. CASE p.msg \in TableMail
      BY <2>2, <3>1 DEF RowOk
    <3>2. ASSUME NEW f \in files, Told(p, f),
             f.parent # NoId => \A q \in table : Answers(p, f, q) => p.msg.parent = q.msg.id
          PROVE  RowOk(r)'
      <4>1. Told(r, f)
        BY <2>2, <3>2 DEF Told
      <4>2. ASSUME f.parent # NoId, NEW q \in table', Answers(r, f, q)
            PROVE  r.msg.parent = q.msg.id
        <5>1. q.seq < r.seq
          BY <4>2 DEF Answers
        <5>2. q.seq # lastSeq + 1
          BY <3>0, <5>1
        <5>3. PICK o \in Kept(table) : q.seq = o.seq /\ q.msg = o.msg
          BY <1>3, <5>2
        <5>4. o \in table /\ Answers(p, f, o)
          BY <2>0, <2>2, <4>2, <5>3, Zenon DEF Answers
        <5> QED BY <2>2, <3>2, <4>2, <5>3, <5>4, Zenon
      <4>3. f \in files' /\ Told(r, f)' /\ \A q \in table' : Answers(r, f, q)' = Answers(r, f, q)
        BY <4>1 DEF Told, Answers
      <4> QED BY <4>2, <4>3 DEF RowOk
    <3> QED BY <3>0, <3>1, <3>2, Zenon DEF ThreadInv, RowsOk, RowOk
  <2> QED BY <1>3, <2>1, <2>2
<1> QED BY <1>1, <1>2, <1>3

\* The pass, when the bridge rests or goes on to its next row or file.
LEMMA PassMoves ==
  ASSUME NEW b, IsPass(b), NEW n, NEW x, NEW y
  PROVE  /\ n = [b EXCEPT !.seq = x, !.rows = y] =>
              IsPass(n) /\ n.rows = y /\ n.listing = b.listing
         /\ n = [b EXCEPT !.pc = x, !.listing = y] =>
              IsPass(n) /\ n.rows = b.rows /\ n.listing = y
         /\ n = [b EXCEPT !.done = x] =>
              IsPass(n) /\ n.rows = b.rows /\ n.listing = b.listing
         /\ n = [b EXCEPT !.pushed = x, !.done = y] =>
              IsPass(n) /\ n.rows = b.rows /\ n.listing = b.listing
<1>1. PICK p, d, s, r, l, u :
        b = [pc |-> p, done |-> d, seq |-> s, rows |-> r, listing |-> l, pushed |-> u]
  BY DEF IsPass
<1>2. n = [b EXCEPT !.seq = x, !.rows = y] =>
        n = [pc |-> p, done |-> d, seq |-> x, rows |-> y, listing |-> l, pushed |-> u]
  BY <1>1, Zenon
<1>3. n = [b EXCEPT !.pc = x, !.listing = y] =>
        n = [pc |-> x, done |-> d, seq |-> s, rows |-> r, listing |-> y, pushed |-> u]
  BY <1>1, Zenon
<1>4. n = [b EXCEPT !.done = x] =>
        n = [pc |-> p, done |-> x, seq |-> s, rows |-> r, listing |-> l, pushed |-> u]
  BY <1>1
<1>5. n = [b EXCEPT !.pushed = x, !.done = y] =>
        n = [pc |-> p, done |-> y, seq |-> s, rows |-> r, listing |-> l, pushed |-> x]
  BY <1>1, Zenon
<1> QED BY <1>1, <1>2, <1>3, <1>4, <1>5 DEF IsPass

LEMMA RestOk ==
  IsPass(NoPass) /\ NoPass.rows = {} /\ NoPass.listing = {}
BY Zenon DEF NoPass, IsPass

\* When the table and the files are as they were, what they hold is right as it was.
LEMMA StoresStay ==
  ASSUME ThreadInv, UNCHANGED <<storeVars, files>>
  PROVE  MailTableOk' /\ FilesOk' /\ RowsOk'
<1>1. table' = table /\ lastSeq' = lastSeq /\ files' = files
  BY DEF storeVars
<1>2. MailTableOk' /\ FilesOk'
  BY <1>1 DEF ThreadInv, MailTableOk, FilesOk
<1>3. Remains(table)
  BY <1>1 DEF Remains
<1> QED BY <1>1, <1>2, <1>3, RowsRemain

LEMMA BeginThreads ==
  ASSUME ThreadInv, BeginPass
  PROVE  ThreadInv'
<1>1. MailTableOk' /\ FilesOk' /\ RowsOk'
  BY StoresStay DEF BeginPass
<1>2. PICK n : n = {r \in table : r.seq > saved.seq}
  BY Zenon
<1>3. bridge' = [pc |-> "out", done |-> saved.done, seq |-> saved.seq, rows |-> n,
                 listing |-> {}, pushed |-> {}]
  BY <1>2, Zenon DEF BeginPass, NoPass
<1>4. IsPass(bridge)' /\ bridge'.rows = n /\ bridge'.listing = {}
  BY <1>3 DEF IsPass
<1>5. \A r \in n : r.msg \in TableMail \/ FromFile(r.msg.id)
  BY <1>2, RowNames DEF ThreadInv
<1>6. PassOk'
  BY <1>4, <1>5 DEF PassOk, FromFile
<1> QED BY <1>1, <1>6 DEF ThreadInv

LEMMA ExportThreads ==
  ASSUME ThreadInv, Export
  PROVE  ThreadInv'
<1>1. PICK r \in bridge.rows :
        /\ bridge' = [bridge EXCEPT !.seq = r.seq, !.rows = @ \ {r}]
        /\ files' = IF FromFile(r.msg.id) \/ \E f \in files : f.id = FileId(r.msg.id)
                    THEN files ELSE files \cup {Mirror(r.msg)}
  BY Zenon DEF Export
<1>2. table' = table /\ lastSeq' = lastSeq /\ \A f \in files : f \in files'
  BY <1>1 DEF Export, storeVars
<1>3. MailTableOk' /\ RowsOk'
  <2>1. MailTableOk' /\ Remains(table)
    BY <1>2 DEF ThreadInv, MailTableOk, Remains
  <2> QED BY <1>2, <2>1, RowsRemain
<1>4. FilesOk'
  <2>1. CASE files' = files
    BY <2>1 DEF ThreadInv, FilesOk
  <2>2. CASE /\ ~FromFile(r.msg.id) /\ ~\E f \in files : f.id = FileId(r.msg.id)
             /\ files' = files \cup {Mirror(r.msg)}
    <3>1. r.msg \in TableMail
      BY <2>2 DEF ThreadInv, PassOk
    <3>2. r.msg.id \in Seq(Letters) /\ r.msg.id # NoId
      BY <3>1, FileIds DEF ThreadInv
    <3>3. PICK k : k = Mirror(r.msg)
      OBVIOUS
    <3>4. k.mirror # NoId /\ k.mirror \in Seq(Letters) /\ k.id = FileId(k.mirror)
      BY <3>2, <3>3 DEF Mirror
    <3>5. k.id = FileId(r.msg.id)
      BY <3>3 DEF Mirror
    <3> QED BY <2>2, <3>3, <3>4, <3>5, ZenonT(30) DEF ThreadInv, FilesOk
  <2> QED BY <1>1, <2>1, <2>2
<1>5. PassOk'
  <2>1. IsPass(bridge)
    BY DEF ThreadInv, PassOk
  <2>2. PICK x, y : x = r.seq /\ y = bridge.rows \ {r}
    BY Zenon
  <2>3. bridge' = [bridge EXCEPT !.seq = x, !.rows = y]
    BY <1>1, <2>2
  <2>4. IsPass(bridge)' /\ bridge'.rows = y /\ bridge'.listing = bridge.listing
    <3>1. PICK b, n : b = bridge /\ n = bridge'
      OBVIOUS
    <3>2. IsPass(b) /\ n = [b EXCEPT !.seq = x, !.rows = y]
      BY <2>1, <2>3, <3>1
    <3>3. IsPass(n) /\ n.rows = y /\ n.listing = b.listing
      BY <3>2, PassMoves, Zenon
    <3> QED BY <3>1, <3>3 DEF IsPass
  <2> QED BY <1>2, <2>2, <2>4 DEF ThreadInv, PassOk, FromFile
<1> QED BY <1>3, <1>4, <1>5 DEF ThreadInv

LEMMA ListThreads ==
  ASSUME ThreadInv, List
  PROVE  ThreadInv'
<1>1. MailTableOk' /\ FilesOk' /\ RowsOk' /\ files' = files
  BY StoresStay DEF List
<1>2. IsPass(bridge)
  BY DEF ThreadInv, PassOk
<1>3. PICK x, y : x = "in" /\ y = files
  OBVIOUS
<1>4. bridge' = [bridge EXCEPT !.pc = x, !.listing = y]
  BY <1>3 DEF List
<1>5. IsPass(bridge)' /\ bridge'.rows = bridge.rows /\ bridge'.listing = files
  <2>1. PICK b, n : b = bridge /\ n = bridge'
    OBVIOUS
  <2>2. IsPass(b) /\ n = [b EXCEPT !.pc = x, !.listing = y]
    BY <1>2, <1>3, <1>4, <2>1
  <2>3. IsPass(n) /\ n.rows = b.rows /\ n.listing = y
    BY <2>2, PassMoves, ZenonT(30)
  <2> QED BY <1>3, <2>1, <2>3 DEF IsPass
<1>6. \A f \in files : f \in FileMail => (f.parent = NoId \/ \E g \in files : g.id = f.parent)
  BY MailAssumption DEF ThreadInv, FilesOk
<1>7. PassOk'
  BY <1>1, <1>5, <1>6 DEF ThreadInv, PassOk, FromFile
<1> QED BY <1>1, <1>7 DEF ThreadInv

LEMMA SkipThreads ==
  ASSUME ThreadInv, Skip
  PROVE  ThreadInv'
<1>1. MailTableOk' /\ FilesOk' /\ RowsOk' /\ files' = files
  BY StoresStay DEF Skip
<1>2. IsPass(bridge)
  BY DEF ThreadInv, PassOk
<1>3. PICK x : bridge' = [bridge EXCEPT !.done = x]
  BY Zenon DEF Skip
<1>4. IsPass(bridge)' /\ bridge'.rows = bridge.rows /\ bridge'.listing = bridge.listing
  <2>1. PICK b, n : b = bridge /\ n = bridge'
    OBVIOUS
  <2>2. IsPass(b) /\ n = [b EXCEPT !.done = x]
    BY <1>2, <1>3, <2>1
  <2>3. IsPass(n) /\ n.rows = b.rows /\ n.listing = b.listing
    BY <2>2, PassMoves, Zenon
  <2> QED BY <2>1, <2>3 DEF IsPass
<1>5. PassOk'
  BY <1>1, <1>4 DEF ThreadInv, PassOk, FromFile
<1> QED BY <1>1, <1>5 DEF ThreadInv

IsMessage(m) ==
  m = [id |-> m.id, from |-> m.from, to |-> m.to, body |-> m.body, parent |-> m.parent,
       mode |-> m.mode]

LEMMA NotedFields ==
  ASSUME NEW m, IsMessage(m)
  PROVE  /\ Noted(m).id = m.id /\ Noted(m).from = m.from /\ Noted(m).to = m.to
         /\ Noted(m).parent = NoId /\ Noted(m).body = "noted"
<1>1. PICK i, a, b, t, p, v :
        m = [id |-> i, from |-> a, to |-> b, body |-> t, parent |-> p, mode |-> v]
  BY DEF IsMessage
<1>2. PICK e, u : e = NoId /\ u = "noted"
  OBVIOUS
<1>3. ASSUME NEW n, n = [m EXCEPT !.parent = e, !.body = u]
      PROVE  n.id = i /\ n.from = a /\ n.to = b /\ n.parent = e /\ n.body = u
  BY <1>1, <1>3
<1> QED BY <1>1, <1>2, <1>3 DEF Noted

LEMMA MessageFields ==
  ASSUME NEW f, NEW target
  PROVE  /\ IsMessage(Message(f, target)) /\ Message(f, target).id = RowId(f.id, target)
         /\ Message(f, target).from = f.from /\ Message(f, target).to = target
         /\ Message(f, target).parent = ParentOf(f, target)
BY DEF Message, IsMessage

\* What a file says to an addressee, as it is sent: a reply whose parent the table has
\* is not refused.
LEMMA SentNamed ==
  ASSUME ThreadInv, NEW f \in bridge.listing, f \in FileMail, NEW target, NEW m, NEW said,
         m = Message(f, target),
         said = IF Outcome(m) = "invalid" THEN Noted(m) ELSE m
  PROVE  /\ said.id = RowId(f.id, said.to) /\ said.from = f.from
         /\ f.parent # NoId =>
              /\ (said.parent = NoId /\ said.body = "noted") \/ said.parent = NameOf(f)
              /\ \A q \in Kept(table) :
                   (q.msg.id = NameOf(f) /\ q.msg.from = said.to /\ q.msg.to = said.from)
                     => said.parent = q.msg.id
<1>1. /\ IsMessage(m) /\ m.id = RowId(f.id, target) /\ m.from = f.from /\ m.to = target
      /\ m.parent = ParentOf(f, target)
  BY MessageFields
<1>2. f.parent # NoId => m.parent = NameOf(f)
  BY <1>1, ParentFound
<1>6. CASE Outcome(m) # "invalid"
  <2>1. said = m
    BY <1>6
  <2> QED BY <1>1, <1>2, <2>1
<1>7. CASE Outcome(m) = "invalid"
  <2>1. said = Noted(m)
    BY <1>7, Zenon
  <2>2. Parents(Kept(table), m) = {}
    BY <1>7 DEF Outcome
  <2>3. ASSUME f.parent # NoId, NEW q \in Kept(table), q.msg.id = NameOf(f),
               q.msg.from = target, q.msg.to = f.from
        PROVE  FALSE
    <3>1. q \in Parents(Kept(table), m)
      BY <1>1, <1>2, <2>3 DEF Parents, WithId
    <3> QED BY <2>2, <3>1
  <2>4. /\ said.id = RowId(f.id, said.to) /\ said.from = f.from /\ said.to = target
        /\ said.parent = NoId /\ said.body = "noted"
    BY <1>1, <2>1, NotedFields
  <2> QED BY <2>3, <2>4
<1> QED BY <1>6, <1>7, Zenon

LEMMA PushThreads ==
  ASSUME ThreadInv, Push
  PROVE  ThreadInv'
<1>0. files' = files /\ IsPass(bridge)
  BY DEF Push, ThreadInv, PassOk
<1>a. PICK f \in Todo : \E target \in Targets(f) :
        LET m == Message(f, target)
            said == IF Outcome(m) = "invalid" THEN Noted(m) ELSE m
            left == {t \in Targets(f) : <<f.id, t>> \notin bridge.pushed} \ {target}
        IN /\ f.mirror = NoId
           /\ \/ bridge' = NoPass /\ UNCHANGED storeVars
              \/ /\ Post(said)
                 /\ bridge' = [bridge EXCEPT
                                 !.pushed = @ \cup {<<f.id, target>>},
                                 !.done = IF left = {} THEN @ \cup {f.id} ELSE @]
  BY Zenon DEF Push
<1>b. PICK target :
        LET m == Message(f, target)
            said == IF Outcome(m) = "invalid" THEN Noted(m) ELSE m
            left == {t \in Targets(f) : <<f.id, t>> \notin bridge.pushed} \ {target}
        IN /\ f.mirror = NoId
           /\ \/ bridge' = NoPass /\ UNCHANGED storeVars
              \/ /\ Post(said)
                 /\ bridge' = [bridge EXCEPT
                                 !.pushed = @ \cup {<<f.id, target>>},
                                 !.done = IF left = {} THEN @ \cup {f.id} ELSE @]
  BY <1>a, Zenon
<1>c. PICK m : m = Message(f, target)
  OBVIOUS
<1>d. PICK said : said = IF Outcome(m) = "invalid" THEN Noted(m) ELSE m
  OBVIOUS
<1> DEFINE left == {t \in Targets(f) : <<f.id, t>> \notin bridge.pushed} \ {target}
<1>e. PICK x : x = bridge.pushed \cup {<<f.id, target>>}
  BY Zenon
<1>f. PICK y : y = IF left = {} THEN bridge.done \cup {f.id} ELSE bridge.done
  BY Zenon
<1>1. /\ f.mirror = NoId
      /\ \/ bridge' = NoPass /\ UNCHANGED storeVars
         \/ Post(said) /\ bridge' = [bridge EXCEPT !.pushed = x, !.done = y]
  BY <1>b, <1>c, <1>d, <1>e, <1>f, Zenon
<1>2. f \in bridge.listing /\ f \in files /\ f \in FileMail
  BY <1>1, FileIds DEF Todo, ThreadInv, PassOk
<1>3. CASE bridge' = NoPass /\ UNCHANGED storeVars
  <2>1. MailTableOk' /\ FilesOk' /\ RowsOk'
    BY <1>0, <1>3, StoresStay
  <2>2. PassOk'
    BY <1>3, RestOk DEF PassOk
  <2> QED BY <2>1, <2>2 DEF ThreadInv
<1>4. CASE Post(said) /\ bridge' = [bridge EXCEPT !.pushed = x, !.done = y]
  <2>1. /\ said.id = RowId(f.id, said.to) /\ said.from = f.from
        /\ f.parent # NoId =>
              /\ (said.parent = NoId /\ said.body = "noted") \/ said.parent = NameOf(f)
              /\ \A q \in Kept(table) :
                   (q.msg.id = NameOf(f) /\ q.msg.from = said.to /\ q.msg.to = said.from)
                     => said.parent = q.msg.id
    BY <1>2, <1>c, <1>d, SentNamed
  <2>2. MailTableOk' /\ RowsOk'
    BY <1>0, <1>2, <1>4, <2>1, RowsPosted
  <2>3. IsPass(bridge)' /\ bridge'.rows = bridge.rows /\ bridge'.listing = bridge.listing
    <3>1. PICK b, n : b = bridge /\ n = bridge'
      OBVIOUS
    <3>2. IsPass(b) /\ n = [b EXCEPT !.pushed = x, !.done = y]
      BY <1>0, <1>4, <3>1
    <3>3. IsPass(n) /\ n.rows = b.rows /\ n.listing = b.listing
      BY <3>2, PassMoves, Zenon
    <3> QED BY <3>1, <3>3 DEF IsPass
  <2>4. PassOk'
    BY <1>0, <2>3 DEF ThreadInv, PassOk, FromFile
  <2>5. FilesOk'
    BY <1>0 DEF ThreadInv, FilesOk
  <2> QED BY <2>2, <2>4, <2>5, Zenon DEF ThreadInv
<1> QED BY <1>1, <1>3, <1>4

LEMMA RestThreads ==
  ASSUME ThreadInv, Save \/ CrashBridge
  PROVE  ThreadInv'
<1>1. MailTableOk' /\ FilesOk' /\ RowsOk' /\ bridge' = NoPass
  BY StoresStay DEF Save, CrashBridge
<1>2. PassOk'
  BY <1>1, RestOk DEF PassOk
<1> QED BY <1>1, <1>2 DEF ThreadInv

LEMMA WriteThreads ==
  ASSUME ThreadInv, Write
  PROVE  ThreadInv'
<1>1. PICK f \in FileMail : /\ \A g \in files : g.id # f.id
                            /\ f.parent = NoId \/ \E g \in files : g.id = f.parent
                            /\ files' = files \cup {f}
  BY DEF Write
<1>2. table' = table /\ lastSeq' = lastSeq /\ bridge' = bridge
  BY DEF Write, storeVars
<1>3. MailTableOk' /\ Remains(table)
  BY <1>2 DEF ThreadInv, MailTableOk, Remains
<1>4. RowsOk'
  BY <1>1, <1>3, RowsRemain
<1>5. FilesOk'
  BY <1>1 DEF ThreadInv, FilesOk
<1>6. PassOk'
  BY <1>1, <1>2 DEF ThreadInv, PassOk, FromFile
<1> QED BY <1>3, <1>4, <1>5, <1>6 DEF ThreadInv

LEMMA TrafficThreads ==
  ASSUME ThreadInv, TableTraffic
  PROVE  ThreadInv'
<1>1. files' = files /\ bridge' = bridge
  BY DEF TableTraffic, bridgeState
<1>2. FilesOk' /\ PassOk'
  BY <1>1 DEF ThreadInv, FilesOk, PassOk, FromFile
<1>3. MailTableOk
  BY DEF ThreadInv
<1>4. ASSUME NEW m \in TableMail, Post(m) PROVE MailTableOk' /\ RowsOk'
  BY <1>1, <1>4, RowsPosted
<1>5. ASSUME \/ \E r \in table : Lapse(r)
             \/ \E id, recipient : Ack(id, recipient)
             \/ Inbox
      PROVE  MailTableOk' /\ RowsOk'
  <2>1. MailTableOk' /\ Remains(table)
    BY <1>3, <1>5, TrafficRemains
  <2> QED BY <1>1, <2>1, RowsRemain
<1>6. MailTableOk' /\ RowsOk'
  BY <1>4, <1>5 DEF TableTraffic, Traffic
<1> QED BY <1>2, <1>6 DEF ThreadInv

\* The files, the rows and the memory of a pass of the bridge (file_bridge.py) name each
\* other as they should, whatever agents write and wherever a pass ends.
THEOREM MirrorInvariant == MirrorSpec => []ThreadInv
<1>1. MirrorInit => ThreadInv
  BY RestOk DEF MirrorInit, StoreInit, ThreadInv, MailTableOk, FilesOk, PassOk, RowsOk
<1>2. ThreadInv /\ [MirrorNext]_mirrorVars => ThreadInv'
  <2> SUFFICES ASSUME ThreadInv, [MirrorNext]_mirrorVars PROVE ThreadInv'
    OBVIOUS
  <2>1. CASE UNCHANGED mirrorVars
    <3>1. UNCHANGED <<storeVars, files>> /\ bridge' = bridge /\ files' = files
      BY <2>1 DEF mirrorVars, bridgeState
    <3>2. MailTableOk' /\ FilesOk' /\ RowsOk'
      BY <3>1, StoresStay
    <3>3. PassOk'
      BY <3>1 DEF ThreadInv, PassOk, FromFile
    <3> QED BY <3>2, <3>3 DEF ThreadInv
  <2> QED BY <2>1, BeginThreads, ExportThreads, ListThreads, SkipThreads, PushThreads, RestThreads,
             WriteThreads, TrafficThreads DEF MirrorNext, Pass
<1> QED BY <1>1, <1>2, PTL DEF MirrorSpec

\* A reply that crosses the bridge (file_to_sqlite) is a reply to the very message it
\* answers when the table has that message, and says so in a note otherwise.  The id of
\* a row names the file it was made of, and no two files share one.
THEOREM MirrorThreaded == MirrorSpec => []Threaded
<1>1. ThreadInv => Threaded
  <2> SUFFICES ASSUME ThreadInv, NEW r \in table, NEW f \in files,
                      r.msg.id = RowId(f.id, r.msg.to), f.parent # NoId
               PROVE  /\ r.msg.parent = NoId => r.msg.body = "noted"
                      /\ r.msg.parent # NoId => r.msg.parent = NameOf(f)
                      /\ \A q \in table : Answers(r, f, q) => r.msg.parent = q.msg.id
    BY DEF Threaded, Names, NameOf, Answers
  <2>1. FromFile(r.msg.id) /\ f.id \in Seq(Letters)
    BY FileIds, RowIdFacts DEF ThreadInv, FromFile
  <2>2. r.msg \notin TableMail
    BY <2>1, RowNames DEF ThreadInv
  <2>3. PICK g \in files :
          /\ Told(r, g)
          /\ g.parent # NoId => \A q \in table : Answers(r, g, q) => r.msg.parent = q.msg.id
    BY <2>2 DEF ThreadInv, RowsOk, RowOk
  <2>4. g.id \in Seq(Letters) /\ RowId(f.id, r.msg.to) = RowId(g.id, r.msg.to)
    BY <2>3, FileIds DEF ThreadInv, Told
  <2>5. f.id = g.id
    BY <2>1, <2>4, RowIdFacts
  <2>6. f = g
    BY <2>5 DEF ThreadInv, FilesOk
  <2>7. f \in FileMail /\ NameOf(f) # NoId
    BY <2>3, <2>6, ParentNamed DEF Told
  <2> QED BY <2>3, <2>6, <2>7, Zenon DEF Told
<1> QED BY <1>1, MirrorInvariant, PTL

=============================================================================
