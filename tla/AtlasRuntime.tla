---------------------------- MODULE AtlasRuntime ----------------------------
(***************************************************************************)
(* AtlasL0Runtime (atlas_runtime.py): one process at a time (a lock file)  *)
(* takes alarms, routes them to a model tier, hands routes to an external  *)
(* executor and accepts its results.  Its memory is a fold over a journal  *)
(* file.  An operation checks its guards, writes a record, and only then   *)
(* applies it: _apply_record repeats checks on a record that is durable.   *)
(*                                                                         *)
(* A signal is [incident, alarm, tier, ready]: tier is what _required_route*)
(* makes of its severity, age and recurrence, and ready says that          *)
(* _select_model found a model.  route_id digests the receipt, which holds *)
(* neither the subject nor the time nor the cursor: a route is the signal. *)
(* Signatures, digests and the activity of lease and policy are not        *)
(* modelled; an operation they refuse changes nothing.                     *)
(***************************************************************************)
EXTENDS Naturals, FiniteSets, Sequences

CONSTANTS Signals, Subjects,
          Cooldown, CoalesceWindow,   \* the runtime policy, in units of time
          MaxEvents,                  \* max_events of the runtime policy
          LastTime,                   \* bound: observation times
          MaxFaults                   \* bound: writes that fail in a live process

VARIABLES file,     \* the journal: numbered records, and what a cut write left
          atlas,    \* the memory of the live process, or Down
          faults    \* appends that raised in a process that lives on

atlasVars == <<file, atlas, faults>>

Down == [up |-> FALSE]
NoRoute == [alarm |-> "none"]
Line(seq, rec) == [seq |-> seq, rec |-> rec]
Torn == Line(0, [kind |-> "torn"])         \* bytes without a newline, at the end
Garbage == Line(0, [kind |-> "garbage"])   \* a line that does not parse

Groups == {s.incident : s \in Signals} \X Subjects
NoGroup == [seen |-> 0, until |-> 0, tier |-> 0, route |-> NoRoute]

\* The memory after __init__ and before the first record.
Blank == [up |-> TRUE, count |-> 0, cursor |-> 0, events |-> <<>>,
          groups |-> [g \in Groups |-> NoGroup],
          routes |-> {}, runs |-> {}, results |-> [r \in {} |-> ""]]

----------------------------------------------------------------------------
(* _apply_record.  Admits holds the checks that can tell apart records the *)
(* operations build; Applied is the state after a record.                  *)

AdmitsAlarm(m, rec) ==
  /\ rec.cursor = m.cursor + 1
  /\ rec.at >= m.groups[rec.group].seen
  /\ rec.superseded # NoRoute => rec.superseded \in m.routes \ m.runs

AdmitsRequest(m, rec) ==
  /\ rec.route \in m.routes
  /\ rec.route.ready
  /\ rec.route \notin m.runs \cup DOMAIN m.results

AdmitsResult(m, rec) ==
  /\ rec.route \in m.runs \ DOMAIN m.results
  /\ rec.status = "completed" => rec.route \in m.routes

Admits(m, rec) ==
  \/ rec.kind = "init"
  \/ rec.kind = "alarm" /\ AdmitsAlarm(m, rec)
  \/ rec.kind = "ack" /\ rec.route \in m.routes \ m.runs
  \/ rec.kind = "request" /\ AdmitsRequest(m, rec)
  \/ rec.kind = "result" /\ AdmitsResult(m, rec)

AppliedAlarm(m, rec) ==
  [m EXCEPT !.cursor = rec.cursor,
            !.events = Append(@, rec),
            !.routes = (@ \ {rec.superseded}) \cup ({rec.route} \ {NoRoute}),
            !.groups[rec.group] =
               [seen |-> rec.at, until |-> rec.until, tier |-> rec.tier,
                route |-> IF rec.route = NoRoute THEN @.route ELSE rec.route]]

AppliedResult(m, rec) ==
  [m EXCEPT !.runs = @ \ {rec.route},
            !.results = [r \in DOMAIN @ \cup {rec.route} |->
                           IF r = rec.route THEN rec.status ELSE @[r]],
            !.routes = IF rec.status = "completed" THEN @ \ {rec.route} ELSE @]

Applied(m, rec) ==
  LET next == CASE rec.kind = "init" -> m
                [] rec.kind = "alarm" -> AppliedAlarm(m, rec)
                [] rec.kind = "ack" -> [m EXCEPT !.routes = @ \ {rec.route}]
                [] rec.kind = "request" -> [m EXCEPT !.runs = @ \cup {rec.route}]
                [] rec.kind = "result" -> AppliedResult(m, rec)
  IN [next EXCEPT !.count = @ + 1]

\* One round of the loop of _load_or_initialize: Down when _verify_record or
\* _apply_record refuses the line.
Reread(m, line) ==
  IF m.up /\ line.seq = m.count /\ Admits(m, line.rec) THEN Applied(m, line.rec) ELSE Down

\* The memory _load_or_initialize makes of whole lines.
Replayed(lines) ==
  LET memory[n \in 0..Len(lines)] ==
        IF n = 0 THEN Blank ELSE Reread(memory[n - 1], lines[n])
  IN memory[Len(lines)]

----------------------------------------------------------------------------
(* The process: open, close, and _append, which writes, syncs and applies. *)

\* The part of the file _load_or_initialize keeps: it truncates a torn tail.
Whole == IF file # <<>> /\ file[Len(file)] = Torn THEN SubSeq(file, 1, Len(file) - 1) ELSE file

\* Text written behind a torn tail ends the torn line.
Written(text) ==
  IF Whole = file THEN Append(file, text)
  ELSE Append(Whole, IF text = Torn THEN Torn ELSE Garbage)

Alive == atlas.up

\* __init__: the journal is read back, or begun, which a crash may cut.
OpenRuntime ==
  /\ ~Alive
  /\ IF Whole = <<>>
     THEN \/ /\ file' = <<Line(0, [kind |-> "init"])>>
             /\ atlas' = Applied(Blank, [kind |-> "init"])
          \/ file' = <<Torn>> /\ UNCHANGED atlas
     ELSE /\ file' = Whole
          /\ atlas' = Replayed(Whole)
  /\ UNCHANGED faults

CloseRuntime ==
  /\ Alive
  /\ atlas' = Down
  /\ UNCHANGED <<file, faults>>

\* The append of rec succeeds; is cut by a crash, before or after the record is whole;
\* or raises after a part or all of the record was written, and the process lives on
\* with a memory that does not know of it.  A record that is written and then refused
\* by _apply_record also raises.
AppendRecord(rec) ==
  LET line == Line(atlas.count, rec)
  IN \/ /\ file' = Written(line)
        /\ atlas' = IF Admits(atlas, rec) THEN Applied(atlas, rec) ELSE atlas
        /\ UNCHANGED faults
     \/ \E text \in {Torn, line} : /\ file' = Written(text)
                                 /\ atlas' = Down
                                 /\ UNCHANGED faults
     \/ \E text \in {Torn, line} : /\ faults < MaxFaults
                                 /\ file' = Written(text)
                                 /\ faults' = faults + 1
                                 /\ UNCHANGED atlas

----------------------------------------------------------------------------
(* The operations.  A repeated delivery of an alarm or a result that is    *)
(* already in memory is answered without a record.                         *)

Seen(g) == \E k \in DOMAIN atlas.events : atlas.events[k].group = g

Later(a, b) == IF a >= b THEN a ELSE b

\* Mutated form: a route is superseded although its run is under way.
MaySupersedeRunning(superseded) == TRUE

\* The check of ingest_alarm before it supersedes a route.
MaySupersede(superseded) == superseded \notin atlas.runs

\* ingest_alarm: the first alarm of a group, one of a higher tier, and one after the
\* window of a group whose route was settled get a route; the others are coalesced.
IngestAlarm(signal, subject, at) ==
  LET g == <<signal.incident, subject>>
      current == atlas.groups[g]
      window == Later(current.seen + CoalesceWindow, current.until)
      upgrade == Seen(g) /\ signal.tier > current.tier
      waiting == Seen(g) /\ current.route \in atlas.routes
      routed == ~Seen(g) \/ upgrade \/ (at > window /\ ~waiting)
      superseded == IF upgrade /\ waiting THEN current.route ELSE NoRoute
  IN /\ Alive
     /\ Len(atlas.events) < MaxEvents
     /\ at >= current.seen
     /\ MaySupersede(superseded)
     /\ AppendRecord([kind |-> "alarm", cursor |-> atlas.cursor + 1, group |-> g, at |-> at,
                      until |-> IF routed THEN at + Cooldown ELSE current.until,
                      tier |-> IF routed THEN signal.tier ELSE current.tier,
                      route |-> IF routed THEN signal ELSE NoRoute,
                      superseded |-> superseded])

\* matching_events of build_cognitive_continuation
RoutedBy(r) == {k \in DOMAIN atlas.events : atlas.events[k].route = r}

\* Mutated form: a route that has run may be requested again.
UnrequestedNow(r) == r \notin atlas.runs

\* The first check of build_cognitive_run_request.
Unrequested(r) == r \notin atlas.runs \cup DOMAIN atlas.results

BuildRunRequest(r) ==
  /\ Alive
  /\ Unrequested(r)
  /\ r \in atlas.routes
  /\ Cardinality(RoutedBy(r)) = 1
  /\ r.ready
  /\ AppendRecord([kind |-> "request", route |-> r])

AcceptRunResult(r, status) ==
  /\ Alive
  /\ r \in atlas.runs \ DOMAIN atlas.results
  /\ status = "completed" => r \in atlas.routes
  /\ AppendRecord([kind |-> "result", route |-> r, status |-> status])

Settlable(r) == r \in atlas.routes \ atlas.runs

AcknowledgeRoute(r) ==
  /\ Alive
  /\ Settlable(r)
  /\ AppendRecord([kind |-> "ack", route |-> r])

AtlasInit ==
  /\ file = <<>>
  /\ atlas = Down
  /\ faults = 0

AtlasNext ==
  \/ OpenRuntime \/ CloseRuntime
  \/ \E s \in Signals, subject \in Subjects, t \in 0..LastTime : IngestAlarm(s, subject, t)
  \/ \E r \in Signals :
       \/ BuildRunRequest(r)
       \/ \E status \in {"completed", "failed"} : AcceptRunResult(r, status)
       \/ AcknowledgeRoute(r)

----------------------------------------------------------------------------
(* Properties.                                                             *)

\* Unless an append raised in a process that lived on, the journal can always be read
\* back, and reading it back gives the memory of the process that wrote it: what an
\* operation lets through, _apply_record accepts, although it checks a record only
\* once it is durable (_append, _load_or_initialize).
JournalReplays ==
  faults = 0 /\ file # <<>> =>
    /\ Whole # <<>> => Replayed(Whole) # Down
    /\ Alive => atlas = Replayed(file)

\* A run that was handed to the executor keeps its route until its result is in,
\* whatever alarms and acknowledgements come meanwhile, so that no completed run is
\* refused; and, as long as no append raised, a route is handed out only once
\* (build_cognitive_run_request, accept_cognitive_run_result, acknowledge_route).
RunsBacked ==
  Alive =>
    /\ atlas.runs \subseteq atlas.routes \ DOMAIN atlas.results
    /\ faults = 0 => \A k, n \in DOMAIN file :
         file[k].rec.kind = "request" /\ file[k].rec = file[n].rec => k = n
=============================================================================
