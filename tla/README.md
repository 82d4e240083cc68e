# Verification of integrity-next

TLA+ models of integrity-next, the TLC configurations that check them on small
instances, and TLAPS proofs of the central properties for every instance.

`PROJECT.json` is the index: every part of the system with its status
(`components`), every run with its properties (`runs`), the source lines each
definition translates (`map`), the ways in which this code can go wrong that tests
hardly reach (`hazards`), a plausible coding error for each property that the
property catches (`mutants`), disagreements between code and documentation
(`findings`), and the proved results (`theorems`).

Tools: `tlc -config X.cfg M` checks a run, `tlapm M.tla` checks the proofs of a
module.

## 1. The system

`src/src/integrity_guardian` is the Guardian kernel. It is a library, not a
service: several processes of one machine (agents, coordinators, observers) open the
same local SQLite databases and files through it. `src/components` packages services
and client integrations around the kernel: an execution bridge, a launcher of
headless runs, a message bus between agents, clients that recover operations. Two
kinds of code make up both:

* **stores and the processes around them**, each of which makes one promise about
  coordination, authority, delivery or evidence and keeps it across concurrent
  processes and crashes;
* **documents**: a large body of pure code that builds, signs and verifies
  canonical JSON documents (envelopes, receipts, leases, checkpoints, reports).

The first kind is what is hard to get right and what the models are about. The
documents enter the models by what the stores read in them.

### 1.1 The modelled parts and their hard behaviours

| part | state | what makes it hard |
| --- | --- | --- |
| Work claims (`work_claims.py`) | claims with lease and fence, fence counter, event log | expiry and promotion inside every transaction; time read before the write lock; agents that crash; writes after a fence check |
| Intent custody (`intent_custody.py`, `reconciler.py`) | one row per intent_id | checks before the transaction; a holder taken for dead; two documents with one intent_id; classification of observations |
| Ledger (`ledger.py`) | append-only events, source chains, Merkle tree, native trust binding | drafts from stale tips; batches that fail half-way; checkpoints kept outside; DDL that commits on its own |
| Adapter dispatch (`adapter_runtime.py`) | registry ledger, one journal per attempt, permits in memory | two stores that must agree; a crash between any two steps; one action in the world |
| Operation recovery (`operation_ledger.py`, `operation_status.py`, `recovery_client.py`) | a row at the client, a row at the server, requests under way | a send whose outcome is unknown; requests that arrive after their sender gave up; two client processes |
| Run ledger and launcher (`integrity-claude-code`) | runs, sessions with a lease, executor processes | cancellation at any point; supervisors that die; duplicate requests |
| Lease custody (`agent_handoff_custody.py`) | current head, fence token, transaction table | unknown outcome of COMMIT; late and repeated requests; tombstones |
| PPv4 dialogue and its transport (`perpetual_dialogue.py`, `perpetual_dialogue_transport.py`, `codex_app_server_transport.py`) | conversation, work items, batons, wakes, scheduler leases, dispatch journal | wakes lost or continued twice; leases that run out; pause and resume between claim and issue; a task made and its answer lost |
| Atlas runtime (`atlas_runtime.py`) | a journal file and a memory folded from it | a record is durable before it is tested; torn last lines; results without a route |
| Execution bridge (`integrity-execution-bridge`) | delivery cache, jobs, RPC channel | calls, watcher, callbacks and close interleave; restart over running commands; evidence that cannot be written |
| LLM bus (`integrity-llm-bus`) | message table, relay journal, steer file, outbox cursor, mirror state, session cursors | several processes over files and a table without common transactions; a relay that dies around a send; hook and sweep racing; a mirror that stops inside a pass |

`components` lists every part of the repository, the ones left out included, with
the reason.

### 1.2 How the parts interact

* The adapter registry and every attempt journal are ledgers; dispatch relies on
  `append_at_checkpoint` of the ledger and, through it, on `DirectlyAfter`.
* `consume` of intent custody signs what `reconcile` says of the observations.
* Lease custody provides the file handling (`open_private_sqlite_connection`) that
  journals and registries are created with.
* Intent custody and adapter dispatch make the same promise by different means: an
  authorization that is used at most once. `OneUse` states it, and both are shown to
  implement it.
* The dialogue's transport turns a baton made from a wake into a task of the Codex
  app-server. `DialogueTransport` extends `PerpetualDialogue`, so a request may be
  overtaken by any transaction of the store.
* Relay, outbox, file bridge and hook share the message table. `BusRelay`,
  `FileBridge` and `ClaudeHook` extend `MessageStore`, and each meets posts,
  acknowledgements and expiries of others at every step.
* `WorkClaimAgents` and `WorkClaimWriters` put agents that crash, and writers, around
  the registry.

## 2. Modules

| module | models | variables |
| --- | --- | --- |
| `BlastRadius` | resource names, normalisation, overlap | none (operators) |
| `WorkClaims` | `WorkClaimRegistry`, one action per operation | `db` |
| `WorkClaimAgents` | agents that use the registry, crash and forget | + `known` |
| `WorkClaimWriters` | the gap between `assert_fence` and the write | + `cleared`, `late` |
| `Merkle` | Merkle root, inclusion path, its verifier | none (operators) |
| `Ledger` | `LedgerStore` and its writers | `log`, `tx`, `native`, `mem`, `issued`, `heirs` |
| `Reconciler` | `reconcile`, `verify_change_intent` | none (operators) |
| `OneUse` | abstract one-use authorization | `phase`, `uses` |
| `IntentCustody` | `IntentCustody` and the processes that use it | `custody`, `mem`, `clock`, `world`, `runs` |
| `AdapterDispatch` | registry, journals, permits and executor | `registry`, `journal`, `attempt`, `reports`, `ran` |
| `OperationRecovery` | one operation: clients, channel, server | `opRow`, `opClient`, `opRequest`, `opReply`, `opSaved`, `opEffects`, `opDedup` |
| `RunLedger` | run ledger, launchers, executor processes | `runRow`, `session`, `runner`, `cancelling`, `living`, `launched` |
| `LeaseCustody` | `AgentLeaseCustody` | `head`, `fence`, `rows`, `sent`, `issued`, `clock` |
| `PerpetualDialogue` | `PerpetualDialogueStore` and schedulers | `conv`, `work`, `baton`, `wake`, `sealed`, `lease`, `expired` |
| `DialogueTransport` | transport adapter, driver and dispatch journal | + `journal`, `tasks`, `driver`, `requests`, `receipts`, `admitted` |
| `AtlasRuntime` | `AtlasL0Runtime` and its journal file | `file`, `atlas`, `faults` |
| `ExecutionBridge` | `Bridge`, `DeliveryCache`, jobs, watcher, close, restart | `bridge`, `delivery`, `serving`, `job`, `channel`, `control`, `command`, `begun` |
| `MessageStore` | the bus's message table | `table`, `lastSeq` |
| `BusRelay` | relay, steer file and its hook, outbox | + `journal`, `lock`, `relay`, `starts`, `steer`, `busy`, `transcript`, `shrunk`, `cursor`, `handed` |
| `FileBridge` | the mirror of message files and rows | + `files`, `saved`, `bridge`, `imported`, `crashes` |
| `ClaudeHook` | session registration, alias, hook processes | + `registered`, `alias`, `seen`, `hook`, `shown`, `passed` |
| `...Proofs` | proofs, see section 4 | |
| `MC...` | instances for TLC | + `world` or `scene` |

Each module's head says how its state corresponds to tables, files and objects. Four
conventions run through all of them.

* **Atomicity is that of the code.** What runs under `BEGIN IMMEDIATE`, or is one
  atomic replacement of a file, is one step; what runs before the lock or between two
  transactions is a step of its own. An operation that raises is a stuttering step
  when it rolls everything back, and a disjunct of its own where the caller's memory
  or a file changes.
* **Digests are injective, signatures hold.** A digest is represented by what it is
  made from; a checkpoint of an append-only log by its size where the log's
  contents cannot differ.
* **Time is a number of ticks, or a choice.** A caller's time may be older than the
  clock (`MaxLag`), since the code reads the clock before it waits for the write lock.
  In `WorkClaims` times are kept relative to the clock, so that time never runs out;
  where only "has it run out" matters (wake leases, expiry of bus messages) it runs
  out at any step.
* **A crash** erases the memory of a process and what it had not committed, nothing
  else.

Definitions marked "Mutated form" are not part of any specification. Each is the
definition after it with one plausible mistake.

## 3. Runs

A run asks one question of several components. Each behaviour of its instance lives
in one `world` (in `MCDispatch`, `scene`), chosen at the start; the worlds do not mix.
All runs finish within four minutes on two cores.

| run | worlds | shows |
| --- | --- | --- |
| `stores` | `claims`: 3 agents, 3 claims on a directory and two files, clock lag 1. `ledger`: 2 writers, 2 sources, 3 events, batches of ≤ 2. `trust`: the same with bindings of 2 enrollments and one event. `inputs`: resources of ≤ 3 segments in two kinds and mixed case; trees of ≤ 6 leaves; plans of ≤ 2 changes with ≤ 2 observations | exclusive holders, no lost wake-up, a faithful event log, growing fences, arrival order; the one-step form of the promotion pass equals the code's loop. The ledger verifies, only grows, and an append at a checkpoint directly follows it. Overlap is sharing a place; inclusion paths prove presence at a position and nothing else; a clean report means that the plan was carried out, and everything is accounted for |
| `progress` | `agents`: 3 agents contend for a directory and crash. `writers`: 2 agents write under a fence. `second`, `edit`, `stdin`: a bridge with a command and another command, an edit, or input to the command, 2 threads, a restart | who keeps polling keeps its place, and is served unless claims are handed over for ever; one late write at most; an operation has its effect once; after close nothing runs on unstopped; one writer in the workspace; every job settles |
| `dispatch` | `adapter`: 2 processes, 2 envelopes, 3 journals. `custody`: 3 processes, 2 documents with one intent_id. `recovery`: 2 clients, one operation sent at most twice. `runs`: 2 supervisors, 4 requests for 2 sessions | one action per envelope, persisted before it happens, recorded only if it happened; clean receipts attest what happened; custody and dispatch refine `OneUse`; one effect per operation; one live process per session |
| `continuity` | `lease`: 2 agents, 3 handoffs, fence limit 2, clock lag 1. `chain`, `wide`: a dialogue with a chain of wakes, or with two work items; 2 schedulers under one identity. `task`: 2 drivers deliver one continuation. `alarms`, `cut`: 3 alarms, or 2 and an append that fails | one successor per fence; reconciliation receipts stay true; work that is started is continued by exactly one baton or wake; nothing due is put to rest, and nothing that was handed out stalls; wakes are bounded by the granted budget; one task per baton; a baton is issued only under the current lease; the journal replays; a run has a route |
| `messaging` | `pointers`: a relay restarted once, two messages, a hook. `backlog`: one relay and more messages than a batch holds. `crowded`: more pointers than the steer file holds. `outbox`: a thread answers in its final text and from its shell. `damaged`: a transcript that is cut, or has a record over the limit. `replies`, `rows`, `unwieldy`: files that answer files, or rows, or are too long. `hook`: two hook processes, routes that change | a thread is pointed to a message once at most; no reply frame is passed over; every waiting message is dealt with, or was pushed out of a full steer file; each side of the mirror gets what is written at the other, across crashes, and a reply keeps its parent; a session's cursor passes nothing it was not shown |

Seven further runs end in a counterexample, because a comment in the code promises
more than the code does (`findings` quotes the lines):

* `work_claims_cancel`: `cancel` promotes without expiring first, so a claim whose
  requester stopped polling is given the resources.
* `work_claims_handoff`: a handoff ends the claim a waiter waits for and promotes
  nobody.
* `ledger_late_bind`: an event appended between the count and the insert of
  `bind_native_trust` is adopted silently.
* `ledger_half_bound`: a crash between `CREATE TABLE` and `INSERT` leaves a table
  without its row, which every later operation refuses.
* `run_cancel`: a cancel between the judgement of a run and its last ledger step
  leaves a run that is over in flight, with its session's lease.
* `relay_stale`: the relay reads its journal before it has the lock; one that waits
  while another notifies and ends notifies again.
* `bridge_stuck`: a reply the table refuses and whose note does not fit ends every
  pass of the file bridge, and files that sort after it never reach the table. Under
  `[]~Unwieldy`, which excludes such a file, `Mirrored` holds.

Further disagreements and sharp edges have no run of their own; each is kept in the
model and named in the property it limits.

* `work_claims.py:16-18` says that an agent "cannot keep writing after a successor
  acquired"; the fence check and the write are not atomic, so one write may still land,
  and `OneLateWrite` is what holds.
* A successor goes before the waiters (`work_claims.py:389-406`), so agents that hand a
  claim to each other for ever keep a waiter out that polls in time. `Served` assumes
  that handoffs come to an end.
* Work that is open and was never handed out does not count as active, so a
  conversation becomes IDLE around it, and `issue_baton` refuses it
  (`perpetual_dialogue.py:785-786`) until other work is opened or an event is admitted.
  `StartedNeverStalls` covers work that was handed out.
* `CodexOutbox.poll` lets three exceptions out: the transcript shrank below the offset,
  a record is over `MAX_LINE`, a frame has the id of another message. Each ends the
  relay, before it looks for messages, whenever it is started. `PointersFlow` excludes
  them (`Barred`). The first is a comparison of sizes: of a transcript that was cut below
  the offset and has grown past it again, the records up to the offset are passed over
  unread, and `FramesDealt` excludes that (`shrunk`).
* A steer file keeps its last 50 entries, staged ones or not, so pointers staged for a
  turn that never calls a tool are cut off, although "Every entry moves once: staged ->
  steered | queued" (`codex_steer.py`). The journal has them as notified, and nobody
  is pointed to them again. The world `crowded` reaches it, and `PushedOut` in
  `PointersFlow` names it.

### 3.1 Bounds

* Three claims are the fewest with a holder, a waiter and a later waiter; three
  agents allow each to be somebody else's. The invariants of the registry, its arrival
  order and `PromotionIsOneStep` are proved for any number.
* Three events give the first ragged Merkle tree and a batch that fails after its
  first event was inserted. The ledger's invariants are proved for any number of
  events and any batch, and the tree for any number of leaves (`InclusionExact`).
* Two documents with one intent_id and three processes allow a holder, a rival and a
  process that adopts. Three journals allow an attempt that fails, one that succeeds
  and a rival for one envelope beside an attempt at the other.
* Two sends are a request and its retry; two clients a process and its restart while
  the first still waits. Four requests give a new session, a resumption, a rival
  resumption and another session.
* Three handoffs and fence limit 2 give two rivals at one head, a chain of two and an
  exhausted fence.
* Three batons are a turn, its continuation and one more; two work items and two
  schedulers give every pair that can interfere. The store's invariants are proved for
  any number. One lease may run out and the owner may pause twice (`MaxExpiry`,
  `MaxGen`).
* Three signals of two alarms and two tiers give coalescing, supersession and an alarm
  nothing is ready for; `Cooldown` and `CoalesceWindow` are 0 ticks, so that both sides
  of each comparison are met within `LastTime`.
* One command and one neighbour of each kind, two threads and one restart give every
  pair of calls that share a job or a lock.
* Three rows with `MaxBatch` 2 are more than a batch and a change of mode within one;
  two starts are a relay and its restart, three starts with two relays the race for
  the lock. `MaxPointers` 1 makes a hook leave something for the next call. `MaxEntries` 2 with
  three messages for a busy thread makes the steer file overflow.
* `MaxClaims` bounds the claims of a behaviour of `agents`, handoffs included. Leases
  last two ticks there: one tick leaves a waiter no time to poll.

Symmetry is used for agents, processes, paths, writers, sources, participants and
schedulers in runs without liveness properties. In `agents`, where liveness is checked,
agents are named in the order of their first claims (`Named`), which leaves one of each
set of like behaviours. Values that are interchangeable in two
worlds of a run are shared between them. Deadlock is checked in `progress`. It is
switched off where a bound ends the behaviour: inputs fully written, journals, sends,
batons or requests used up, the clock at its last tick, every intent closed.

### 3.2 Fairness

* `progress`, agents: weak fairness of the clock, and of each agent's next call for a
  claim it knows: `poll` while it waits, `release` once it holds. The first is what the
  docstring demands of a waiter ("unless its requester keeps polling"); the second says
  that work ends. Polls come in time (`Timely`). Handoffs come to an
  end (`HandsOver`, in `Served` itself). Nothing is assumed of crashed agents:
  that others get past their claims is the point of the property.
* `progress`, bridge: weak fairness of the watcher, a daemon thread that looks at every
  job again and again, and of time passing the deadline of a job. Nothing is assumed of
  the backend's answers, of callers or of the owner.
* `messaging`: weak fairness of what the relay does in its loop and of the passes of
  the bridge, which both repeat until they are stopped. `MaxStarts` and `MaxCrashes`
  bound the crashes, so that some process goes on; nothing is assumed of posters,
  readers, hooks, turns or expiry. `PointersFlow` asks only for a thread that stays
  idle from some point on, since pointers for a busy turn are left to its hook, and for a
  transcript that `poll` gets past (`Barred`).

No fairness is assumed elsewhere: the library has no threads of its own that would
justify it. Instead of liveness, `StartedNeverStalls` says of the dialogue store that
work that was handed out has a baton, a wake or an event it waits for, and that a wake
that is due passes every check a scheduler's next call makes.

## 4. Proofs

| module | about | theorems | inductive invariant |
| --- | --- | --- | --- |
| `WorkClaimsProofs` | `WorkClaims` | `RegistryTypes`, `RegistryExclusive`, `RegistrySettled`, `RegistryLogFaithful`, `RegistryFenced`, `RegistryOwnOverlap`, `RegistryNoOvertaking`, `RegistryPromotionIsOneStep`, `RegistryPlacesApart` | `Inv`: the properties together with "no row has a fence the counter did not hand out" and "rows are handed out in order of seq" |
| | `WorkClaimWriters` | `WritersOneLateWrite` | `WriterInv`: who is cleared was the holder of that claim, and a claim with a late write is over and nobody is cleared for it |
| | `BlastRadius` | `OverlapIsPlace` | none (operators) |
| `CustodyProofs` | `IntentCustody`, `Reconciler` | `CustodyGranted`, `CustodyOneExecution`, `CustodyFinal`, `CustodyImplementsOneUse`, `ReconcileTruthful`, `CustodyReceiptAttests` | `Inv`: row shapes, "a grant is the reservation in the row", "what is granted and not executed was never executed"; `AttestInv` adds that a process about to close has a receipt that attests |
| | `OperationRecovery` | `OperationOneEffect` | `OpInv`: the sends are numbered in order, whatever a ledger or a reply says is backed by the effect, and, where nothing refuses a second effect, all sends but the last are harmless |
| `DispatchProofs` | `AdapterDispatch` | `DispatchJournalTruthful`, `DispatchRefinesOneUse` | `AdapterInv`: one claim for an envelope, a journal holds only what was claimed for it, every step of an attempt is backed by the registry, and what ran was consumed |
| | `FileBridge` | `MirrorThreaded` | `ThreadInv`: a file is an agent's or the mirror of a row, a pass's listing has what its files reply to, and every row made of a file has the parent that `Threaded` asks for |
| `ExecutionProofs` | `ExecutionBridge` | `BridgeSoleWriter`, `BridgeDeliveredOnce`, `BridgeClosed` | `BridgeInv`: a running command is a job of this process or the process is in doubt, and it has a row that will put the next process in doubt; a thread that may act knows that its row is running, nothing of it was begun, and, for a writer of the workspace, that no command runs |
| | `RunLedger` | `RunsOneLive` | `RunInv`: an executor that may be alive holds the lease of its session, and a runner that is launching or judging owns the row it goes by |
| | `LeaseCustody` | `CustodyOneSuccessor`, `CustodyReceiptsStayTrue`, `CustodyOneReceipt` | `LeaseInv`: one row per transaction, at most one receipt in it, in agreement with the outcome, and every receipt given out is still in its row |
| `LedgerProofs` | `AtlasRuntime` | `AtlasJournalReplays`, `AtlasRunsBacked` | `AtlasInv`: the whole lines of the file replay to a consistent memory, which is the one of the live process while no append raised, and at most a torn line follows them |
| | `Ledger` | `LedgerAlwaysVerifies`, `LedgerAppendOnly`, `LedgerCheckpointsHold`, `LedgerDirectlyAfter`, `LedgerBindingStable` | `LedgerInv`: the committed rows and those of the open transaction verify, the latter extend the former, and in both the last row of a source has its highest sequence number |
| | `Merkle` | `InclusionExact`, `EveryEventProvable`, `RootBinds` | none (operators); the rounds of `merkle_root`, of the path and of its verifier are followed side by side |
| `DialogueProofs` | `PerpetualDialogue` | `DialogueNothingLost`, `DialogueStartedNeverStalls`, `DialogueTurnsCanEnd`, `DialogueFencedIssue` | `DialogueInv`: the rows hang together (a wake belongs to a baton closed to be continued; work under way has exactly one thing that carries it on; a leased wake has the fence of its work item), and what a scheduler was told is not ahead of them |
| `TransportProofs` | `DialogueTransport` | `TransportOneTask` | `TransportInv`: one driver at most is between the insertion of the journal's row and the record of its task, the row has the task that was started, and READY is written for a kept one |
| | `PerpetualDialogue` | `DialogueWakesBounded` | `WakesInv`: what was issued and what the carrier of a work item may still issue are together within the first grant |
| `DeliveryProofs` | `BusRelay` | `RelayNeverReplays`, `RelayFramesDealt` | `RelayInv`: the journal in memory is the one on disk, whatever was handed over, is in hand or waits is in it, and a message is in one place at most; `FrameInv`, while the transcript was not cut below an offset: no process and no saved cursor is further than the frames dealt with |
| | `ClaudeHook` | `HooksPassNothingOver` | `HookInv`: whatever is behind a session's cursor, or behind the cursor a hook process has read, was shown, was there before the route, or is about to be printed by that process |

They hold for any values of the constants that satisfy the named assumptions:
leases last at least a tick, the bounds are natural numbers, `Casefold` is
idempotent, intents are verified ones, no enrollment is named like a table state,
`NoRequest` is no request, and the ids that agents choose for bus messages do not
start like the ones the file bridge makes (`f.` and `s.`), nor is one used both for a
file and for a row (`MailAssumption`). `RelayNeverReplays` is proved under `Alone`,
one relay at a time: with two, `relay_stale` refutes it. `ReconcileTruthful` is about
every plan that fits the schema (`FitsSchema`: one change or more, and times that
compare).

* **Registry.** An operation is a composition of few changes of the database:
  close, publish, acquire, insert. `SafeDb` is preserved by each of them. `Settled`
  and `LogFaithful` are false in the middle of a transaction and are restored at its
  end, which is why they are apart. The strengthening is needed since a fresh fence
  exceeds an old one only if the counter bounds all old ones. Arrival order is a
  relation between the database before and after (`Evolves`) that every change
  satisfies and that chains. A late write is the last one under its claim because a
  closed claim never comes back, and `assert_fence` clears nobody for it. That the loop
  of `_promote_waiters` is one step is an induction along the rows it read
  (`PromotionLoop`): when claim n has its turn, exactly the unblocked waiters before it
  are held, with the next fences in order, and what blocks n is what blocked it at the
  start: a claim promoted before it came earlier and stood in its way, held or waiting.
  `OverlapIsPlace` says what the
  prefix comparison of `resources_overlap` decides, and with it `RegistryPlacesApart`
  reads exclusion off the places themselves, at every depth.
* **Intent custody.** That an intent starts one execution is not inductive: it needs
  that the process about to execute is the one the row names and that nothing ran
  for that row. The refinement maps `none`, `reserved` and closed rows to unused,
  spent and closed, and each step changes one row or one count. A receipt attests
  because `reconcile` credits an expected change only to a delta that shows it
  (`ReconcileTruthful`), and what it is given is part of the world.
* **Operation recovery.** The cases are two. A backend that proves it refuses a second
  append needs no care. Otherwise the client sends again only when all earlier sends
  are known to have had no effect, and `Cautious` says where that knowledge comes from.
* **Ledger.** `append` looks for a source's highest number and `verify` for its last
  row; `Tipped` says that they are one row. A batch of any length is covered because
  each of its events is a step inside the transaction.
* **Merkle tree.** One round of the verifier reaches the builder's node of the next level
  exactly when it was at the builder's node of this one and took its sibling
  (`OneRound`): hashes are injective, so a wrong node stays wrong. Going down from the
  root that gives the event and every step of the path; going up, acceptance. Levels
  halve, so both walks arrive at one node (`LevelsNarrow`). The induction along the
  rounds is a least counterexample (`RoundsUp`, `RoundsDown`). `RootBinds` follows: the
  path of one ledger is accepted by the root of the other.
* **Atlas.** Replaying is a fold over the file. `ReplayOneMore`, proved by the least
  index where two readings would differ, says that one more line is one more step;
  every append keeps `AtlasInv` by it, without induction over the file.
* **Lease custody.** A receipt stays true because the row it came from is unique and
  keeps its outcome; the head is the chain of committed handoffs because the swap
  compares the fence as well as the head.
* **Adapter dispatch.** The registry is append-only and is appended to at a checkpoint,
  so a claim, a consumption and the file they name stay what they are; the refinement
  maps a claimed envelope to spent, one that ran to used and one with a terminal
  receipt to closed.
* **Dialogue.** One lemma per transaction shows that it keeps the invariant. That work
  has exactly one continuation is kept because a closing creates a wake in the step
  that closes the baton and an issue consumes the wake in the step that makes the next;
  that nothing under way stalls needs the status of the conversation to follow what is active or
  due, which each transaction recomputes. `WakesBounded` is a sum along the chain of
  wakes; since one thing carries a work item on, it is enough to bound what was issued
  plus the budget of that one.
* **Transport.** The journal's primary key makes one driver the creator. What a driver
  remembers (`Supported`) is backed by the row it wrote.
* **File bridge.** What a reply answers has one name in the table. A pass looks it up
  in its own listing, which is older than the directory; it finds the name because
  the listing is closed under replies. A row the reply may refer to is not refused, so
  a note means that there was none.
* **Runs.** That one executor is alive does not follow from the rows, whose state lags
  behind the process. `Leasing` ties the process to the lease, which is released only
  by the runner that knows the process has stopped, or by an owner that settles it.
* **Execution bridge.** Whatever a round over the jobs may do is stated once
  (`JobMoves`, `RowMoves`), and the watcher, `command_read`, `call` and the failure of
  the channel are instances. `SoleWriter` needs the locks (two threads that may write
  never serve at once), the check of `_effect` and the doubt a restart inherits.
* **Relay.** Each step moves a message from one place to the next (row, batch, hand,
  steer file, thread), and writes the journal before it hands anything over, so a
  crash may lose a pointer and never doubles it. Frames are dealt with before any
  offset passes them, in memory and on disk.
* **Hook.** Two hook processes of a session may print and save in any order. Each saves
  a cursor that is justified by what it knew when it read, and what is shown stays
  shown, so the later save passes over nothing either.

`RegistryTypes`, `RegistryOwnOverlap`, `CustodyGranted`, `CustodyOneExecution`,
`CustodyFinal`, `LedgerCheckpointsHold`, `LedgerBindingStable`, `CustodyOneReceipt`,
`DialogueTurnsCanEnd` and the inductive invariants are proved and need no run.
`ReconcileTruthful` is `ReportTruthful`, and `InclusionExact` is `PathsProve`, for inputs
of any size.

Only model-checked:

* liveness (`Served`, `PollersKeepTheirPlace`, `JobsSettle`, `PointersFlow`,
  `Mirrored`): fairness is out of the prover's reach;
* in `OverlapIsSharedPlace`, what `normalize_resource` does to empty segments:
  it is a `SelectSeq`, whose library definition the provers cannot unfold. What follows,
  the comparison of normalized resources, is proved (`OverlapIsPlace`);
* what the violation runs refute.

## 5. Not modelled

* Cryptography, canonical encoding and schemas (taken as injective and unforgeable),
  file permissions and path checks, platform collectors, user interfaces, pure builders
  and verifiers of documents, damage to a database file from outside. This is most of
  the repository by size: code without state, or I/O.
* Stores without a model: the observer anchor (one compare-and-advance of a file, by
  replacement, under a file lock), turn memory (rows that are only inserted, each in one
  transaction that first looks for them), the Uroboros authority ledger (one-use
  decisions by `append_at_checkpoint`, which is modelled) and route-memory store, the
  seed catalog (a copy that can be rebuilt), and the action log but for its append,
  which is the effect of `OperationRecovery`. Key
  lifecycle has no store: it folds signed transitions.
* `galaxy_ppv4_bridge.py` calls the dialogue store: each tool is a sequence of its
  transactions with argument checks, and the model takes the transactions in any order.
* In modelled parts: the stream parser and job object of a run enter by how a run ends;
  output buffers and workspace paths of the bridge are left out; an Atlas append that
  raises part-way and is followed by another leaves a line no later open accepts, which
  `JournalReplays` sets apart (`faults`); a relay serves one thread, its rate limits
  delay and do not decide, `--baseline` takes everything that is pending (the code the
  first 50), and a transcript record carries one frame; one file bridge runs, and ids
  are short and need no escaping; rows that registered addresses exchange are those of
  the built-in agents.
* Simplifications of single operations: a reply file answers a file or row that exists,
  so the fallback of `file_bridge.py:131` to a parent that is a row's own id is not met;
  `DeliveryCache` also refuses a transition out of order or with another digest
  (`gateway.py:100-105`), and leaving that out only adds behaviours; an attempt that
  fails while its journal is created (`adapter_runtime.py:1288-1295`) ends as `GiveUp`
  ends it; the two transactions that end a run (`launcher.py:124-127`) are one step, the
  state between them being that of a run whose cancellation was requested; appends
  inside a caller's own transaction (`ledger.py:597-601`), and the validator that may
  veto a commit, are left out.
