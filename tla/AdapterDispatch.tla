--------------------------- MODULE AdapterDispatch ---------------------------
(***************************************************************************)
(* One-shot dispatch of adapter envelopes (adapter_runtime.py): the        *)
(* coordinator's AdapterDispatchRegistry, one AdapterAttemptJournal per    *)
(* attempt, the AdapterDispatchPermit, and the executor that acts.         *)
(*                                                                         *)
(* An attempt creates its journal file, claims its envelope in the         *)
(* registry, records "prepared" in the journal (prepare_new), records      *)
(* "dispatching" there (mark_dispatching), consumes the claim in the       *)
(* registry (permit.consume), and only then acts.  Registry and journals   *)
(* are ledgers (module Ledger): every append names an exact checkpoint,    *)
(* and because a ledger only grows and a root fixes its events, the        *)
(* checkpoint is represented by its size.  A process keeps the registry    *)
(* open with the checkpoint it last verified, so it loses against anybody  *)
(* who appended meanwhile.  Any step of a process may be its last.         *)
(***************************************************************************)
EXTENDS Naturals, Sequences, FiniteSets

CONSTANTS
  Dispatchers, \* processes
  Envelopes,   \* signed execution envelopes
  Paths        \* where attempt journals may be created

VARIABLES
  registry,   \* registry events after the initial one
  journal,    \* journal[f]: the envelope it is for and how many phases it has
  attempt,    \* attempt[p]: what process p is busy with
  reports,    \* envelopes for which a signed executor report exists
  ran         \* ran[e]: how often the action of e was carried out

adapterVars == <<registry, journal, attempt, reports, ran>>

(* Phases of a journal, in the order of _PHASES; a created file has none.  *)
Created == 0
Prepared == 1
Dispatching == 2
Returned == 3
Witnessed == 4

NoJournal == [holds |-> {}, phase |-> Created]
JournalFor(e, n) == [holds |-> {e}, phase |-> n]
NoAttempt == [step |-> "idle"]

AdapterInit ==
  /\ registry = <<>>
  /\ journal = [f \in Paths |-> NoJournal]
  /\ attempt = [p \in Dispatchers |-> NoAttempt]
  /\ reports = {}
  /\ ran = [e \in Envelopes |-> 0]

Becomes(p, m) == attempt' = [attempt EXCEPT ![p] = m]
At(p, step) == attempt[p].step = step
Env(p) == attempt[p].env
Path(p) == attempt[p].path

----------------------------------------------------------------------------
(* The registry.                                                           *)

\* _attempt_source: an envelope has one source, whatever journal it is tried with.
Source(e, f) == e

Claim(e, f) == [source |-> Source(e, f), kind |-> "claimed", path |-> f]
Consumption(e, f) == [source |-> Source(e, f), kind |-> "consumed", path |-> f]

\* _source_events: where the events of a source are.
EventsOf(reg, s) == {k \in 1..Len(reg) : reg[k].source = s}

\* _validate_structure: the events of a source are a claim, and at most one more, which
\* consumes that claim.
WellFormed(reg) ==
  \A k \in 1..Len(reg) : \E first, last \in 1..Len(reg) :
    /\ EventsOf(reg, reg[k].source) = {first, last}
    /\ first <= last
    /\ reg[first].kind = "claimed"
    /\ first < last => reg[last] = [reg[first] EXCEPT !.kind = "consumed"]

\* append_at_checkpoint, with _validate_structure as its precommit check.
Appendable(ev, at) == at = Len(registry) /\ WellFormed(Append(registry, ev))

----------------------------------------------------------------------------
(* prepare_new.                                                            *)

\* The journal file is created first; c is the registry checkpoint the caller retained.
Create(p, e, f, c) ==
  /\ attempt[p] = NoAttempt
  /\ journal[f] = NoJournal
  /\ journal' = [journal EXCEPT ![f] = JournalFor(e, Created)]
  /\ Becomes(p, [step |-> "claiming", env |-> e, path |-> f, at |-> c])
  /\ UNCHANGED <<registry, reports, ran>>

\* An exception inside prepare_new removes the file it created.
GiveUp(p) ==
  /\ journal' = [journal EXCEPT ![Path(p)] = NoJournal]
  /\ Becomes(p, NoAttempt)

\* claim: _refresh, then the envelope must be unclaimed.
BeginClaim(p) ==
  LET free == /\ attempt[p].at = Len(registry)
              /\ EventsOf(registry, Source(Env(p), Path(p))) = {}
  IN /\ At(p, "claiming")
     /\ \/ free /\ Becomes(p, [attempt[p] EXCEPT !.step = "appending"]) /\ UNCHANGED journal
        \/ ~free /\ GiveUp(p)
     /\ UNCHANGED <<registry, reports, ran>>

AppendClaim(p) ==
  LET ev == Claim(Env(p), Path(p))
  IN /\ At(p, "appending")
     /\ \/ /\ Appendable(ev, attempt[p].at)
           /\ registry' = Append(registry, ev)
           /\ Becomes(p, [attempt[p] EXCEPT !.step = "claimed"])
           /\ UNCHANGED journal
        \/ ~Appendable(ev, attempt[p].at) /\ GiveUp(p) /\ UNCHANGED registry
     /\ UNCHANGED <<reports, ran>>

\* _new_checkpoint signs the registry as it is now, with what others have added.
SignClaim(p) ==
  /\ At(p, "claimed")
  /\ Becomes(p, [attempt[p] EXCEPT !.step = "signed", !.at = Len(registry)])
  /\ UNCHANGED <<registry, journal, reports, ran>>

\* _refresh and the inclusion proof hold only if the registry has not moved on; else
\* the claim stays behind and the attempt is over.
ProveClaim(p) ==
  /\ At(p, "signed")
  /\ \/ /\ attempt[p].at = Len(registry)
        /\ Becomes(p, [attempt[p] EXCEPT !.step = "admitted"])
        /\ UNCHANGED journal
     \/ attempt[p].at # Len(registry) /\ GiveUp(p)
  /\ UNCHANGED <<registry, reports, ran>>

\* The first phase of the journal.
Prepare(p) ==
  /\ At(p, "admitted")
  /\ journal' = [journal EXCEPT ![Path(p)] = JournalFor(Env(p), Prepared)]
  /\ Becomes(p, [attempt[p] EXCEPT !.step = "prepared"])
  /\ UNCHANGED <<registry, reports, ran>>

----------------------------------------------------------------------------
(* mark_dispatching and the permit.                                        *)

\* Mutated form: the permit is handed out before the journal says so.
MarkInMemory(p) ==
  /\ At(p, "prepared")
  /\ journal[Path(p)] = JournalFor(Env(p), Prepared)
  /\ Becomes(p, [attempt[p] EXCEPT !.step = "permitted"])
  /\ UNCHANGED <<registry, journal, reports, ran>>

MarkDispatching(p) ==
  /\ At(p, "prepared")
  /\ journal[Path(p)] = JournalFor(Env(p), Prepared)
  /\ journal' = [journal EXCEPT ![Path(p)] = JournalFor(Env(p), Dispatching)]
  /\ Becomes(p, [attempt[p] EXCEPT !.step = "permitted"])
  /\ UNCHANGED <<registry, reports, ran>>

\* permit.consume and registry.consume up to the append: exactly the claim is there.
BeginConsumption(p) ==
  /\ At(p, "permitted")
  /\ \E k \in 1..Len(registry) : /\ EventsOf(registry, Source(Env(p), Path(p))) = {k}
                                 /\ registry[k] = Claim(Env(p), Path(p))
  /\ Becomes(p, [attempt[p] EXCEPT !.step = "consuming"])
  /\ UNCHANGED <<registry, journal, reports, ran>>

\* A registry that has moved on refuses; the caller may try the permit again.
AppendConsumption(p) ==
  LET ev == Consumption(Env(p), Path(p))
  IN /\ At(p, "consuming")
     /\ \/ /\ Appendable(ev, attempt[p].at)
           /\ registry' = Append(registry, ev)
           /\ Becomes(p, [attempt[p] EXCEPT !.step = "consumed"])
        \/ /\ ~Appendable(ev, attempt[p].at)
           /\ Becomes(p, [attempt[p] EXCEPT !.step = "permitted"])
           /\ UNCHANGED registry
     /\ UNCHANGED <<journal, reports, ran>>

SignConsumption(p) ==
  /\ At(p, "consumed")
  /\ Becomes(p, [attempt[p] EXCEPT !.step = "checking", !.at = Len(registry)])
  /\ UNCHANGED <<registry, journal, reports, ran>>

\* _refresh raises when the registry moved on: consumed, and never acted on.
CheckConsumption(p) ==
  /\ At(p, "checking")
  /\ \/ attempt[p].at = Len(registry) /\ Becomes(p, [attempt[p] EXCEPT !.step = "executing"])
     \/ attempt[p].at # Len(registry) /\ Becomes(p, [attempt[p] EXCEPT !.step = "permitted"])
  /\ UNCHANGED <<registry, journal, reports, ran>>

----------------------------------------------------------------------------
(* execute, and what is recorded of it.                                    *)

\* Mutated form: an execution that does not answer is tried again at once.
ActWithRetry(p) ==
  /\ At(p, "executing")
  /\ \E tries \in 1..2 : ran' = [ran EXCEPT ![Env(p)] = @ + tries]
  /\ Becomes(p, [attempt[p] EXCEPT !.step = "executed"])
  /\ UNCHANGED <<registry, journal, reports>>

Act(p) ==
  /\ At(p, "executing")
  /\ ran' = [ran EXCEPT ![Env(p)] = @ + 1]
  /\ Becomes(p, [attempt[p] EXCEPT !.step = "executed"])
  /\ UNCHANGED <<registry, journal, reports>>

\* build_adapter_execution_report: execute returns its signed report.
Report(p) ==
  /\ At(p, "executed")
  /\ reports' = reports \cup {Env(p)}
  /\ Becomes(p, [step |-> "open", path |-> Path(p)])
  /\ UNCHANGED <<registry, journal, ran>>

\* AdapterAttemptJournal.open: somebody with the signers, after a restart for instance.
Open(p, f) ==
  /\ attempt[p] = NoAttempt
  /\ journal[f].phase >= Prepared
  /\ Becomes(p, [step |-> "open", path |-> f])
  /\ UNCHANGED <<registry, journal, reports, ran>>

HasReport(j) == j.holds \subseteq reports

\* record_executor_report
RecordReport(p) ==
  LET j == journal[Path(p)]
  IN /\ At(p, "open")
     /\ j.phase = Dispatching
     /\ HasReport(j)
     /\ journal' = [journal EXCEPT ![Path(p)].phase = Returned]
     /\ UNCHANGED <<registry, attempt, reports, ran>>

\* record_terminal_receipt, for a receipt built from the report.
RecordTerminal(p) ==
  LET j == journal[Path(p)]
  IN /\ At(p, "open")
     /\ j.phase = Returned
     /\ HasReport(j)
     /\ journal' = [journal EXCEPT ![Path(p)].phase = Witnessed]
     /\ UNCHANGED <<registry, attempt, reports, ran>>

\* A process dies, or closes what it has open.
Stop(p) ==
  /\ attempt[p] # NoAttempt
  /\ Becomes(p, NoAttempt)
  /\ UNCHANGED <<registry, journal, reports, ran>>

AdapterNext ==
  \E p \in Dispatchers :
    \/ \E e \in Envelopes, f \in Paths, c \in 0..Len(registry) : Create(p, e, f, c)
    \/ BeginClaim(p) \/ AppendClaim(p) \/ SignClaim(p) \/ ProveClaim(p) \/ Prepare(p)
    \/ MarkDispatching(p)
    \/ BeginConsumption(p) \/ AppendConsumption(p) \/ SignConsumption(p) \/ CheckConsumption(p)
    \/ Act(p) \/ Report(p)
    \/ \E f \in Paths : Open(p, f)
    \/ RecordReport(p) \/ RecordTerminal(p)
    \/ Stop(p)

----------------------------------------------------------------------------
(* What dispatch promises.                                                 *)

Claimed(e) == \E k \in 1..Len(registry) : \E f \in Paths : registry[k] = Claim(e, f)
Consumed(e) == \E k \in 1..Len(registry) : \E f \in Paths : registry[k] = Consumption(e, f)

\* "Permit consumption is persisted before an executor can reach its sink": an action
\* that was carried out was consumed in the registry, and no journal that recover
\* would read as prepared-before-dispatch is the one it was carried out under.  An
\* attempt that a journal has as returned or witnessed did act.
JournalTruthful ==
  /\ \A e \in Envelopes : ran[e] > 0 =>
       /\ Consumed(e)
       /\ \E f \in Paths : /\ \E k \in 1..Len(registry) : registry[k] = Claim(e, f)
                           /\ journal[f].holds = {e} /\ journal[f].phase >= Dispatching
  /\ \A f \in Paths : journal[f].phase >= Returned => \A e \in journal[f].holds : ran[e] = 1

\* Claiming an envelope spends it, acting uses it, the terminal receipt closes it.
PhaseOf(e) ==
  IF \E f \in Paths : journal[f].holds = {e} /\ journal[f].phase = Witnessed THEN "closed"
  ELSE IF Claimed(e) THEN "spent"
  ELSE "unused"

AdapterPromise == INSTANCE OneUse WITH Ids <- Envelopes, phase <- [e \in Envelopes |-> PhaseOf(e)], uses <- ran

\* Registry, journals and permits together are a one-use authorization.
DispatchImplementsOneUse == AdapterPromise!Spec
=============================================================================
