----------------------------- MODULE ClaudeHook -----------------------------
(***************************************************************************)
(* Bus pointers for Claude sessions (bus_claude_hook.py) and the routes    *)
(* they follow (agent_registry.py): a session reads the mailbox of its own *)
(* address, and the legacy mailbox "claude" while that is aliased to it.   *)
(*                                                                         *)
(* A hook process collects pointers under the registry's lock, prints them *)
(* and advances the session's cursors under the lock again.  A route that  *)
(* changes between the hook's first look and the lock makes it give up.    *)
(***************************************************************************)
EXTENDS MessageStore

CONSTANTS
  Sessions,
  AddressOf(_),  \* the address a session registers
  HookMail,      \* messages to those addresses and to "claude"
  Hooks,         \* hook processes
  MaxPointers    \* pointers per call (20)

ASSUME PointersAssumption == MaxPointers \in Nat

VARIABLES
  registered,    \* sessions in agents-registry.json
  alias,         \* the address "claude" is aliased to, or NoAddress
  seen,          \* claude-hook-seen: [Sessions -> [Mailboxes -> seq]]
  hook,          \* [Hooks -> the memory of the process]
  shown,         \* [Sessions -> ids of the messages pointed out]
  passed         \* [Sessions -> ids that were there before the route]

hookState == <<registered, alias, seen, hook, shown, passed>>
hookVars == <<storeVars, hookState>>

NoAddress == "nowhere"
Claude == "claude"

Mailboxes == {AddressOf(s) : s \in Sessions} \cup {Claude}

Ready == [pc |-> "ready", session |-> "none", rows |-> {}, cursor |-> [a \in Mailboxes |-> 0]]

HookInit ==
  /\ StoreInit
  /\ registered = {} /\ alias = NoAddress
  /\ seen = [s \in Sessions |-> [a \in Mailboxes |-> 0]]
  /\ hook = [h \in Hooks |-> Ready]
  /\ shown = [s \in Sessions |-> {}] /\ passed = [s \in Sessions |-> {}]

Larger(m, n) == IF m >= n THEN m ELSE n

Top(rows, floor) == IF rows = {} THEN floor ELSE CHOOSE n \in {r.seq : r \in rows} :
                                                   \A r \in rows : r.seq <= n

----------------------------------------------------------------------------
(* agent_registry.py                                                       *)

\* _initialize_claude_cursor: the backlog of a mailbox is passed over.
SkipBacklog(s, mailbox) ==
  LET old == {r \in table : r.msg.to = mailbox}
  IN /\ seen' = [seen EXCEPT ![s][mailbox] = Larger(@, Top(old, 0))]
     /\ passed' = [passed EXCEPT ![s] = @ \cup {r.msg.id : r \in old}]

\* register, which does nothing for a session that is registered.  The cursor is saved
\* first: a crash may leave it without the route.
Register(s) ==
  /\ s \notin registered
  /\ registered' \in {registered, registered \cup {s}}
  /\ SkipBacklog(s, AddressOf(s))
  /\ UNCHANGED <<storeVars, alias, hook, shown>>

\* set_claude_alias, by a caller whose expectation holds.
SetAlias(s) ==
  /\ s \in registered
  /\ alias # AddressOf(s)
  /\ alias' \in {alias, AddressOf(s)}
  /\ SkipBacklog(s, Claude)
  /\ UNCHANGED <<storeVars, registered, hook, shown>>

\* claude_mailboxes
Routes(s) ==
  IF s \notin registered THEN {}
  ELSE {AddressOf(s)} \cup (IF alias = AddressOf(s) THEN {Claude} ELSE {})

----------------------------------------------------------------------------
(* bus_claude_hook.py                                                      *)

\* The first rows by seq.
Cut(rows) == {r \in rows : Cardinality({q \in rows : q.seq < r.seq}) < MaxPointers}

News(s) == UNION {Cut({r \in Pending(a) : r.seq > seen[s][a]}) : a \in Routes(s)}

\* Mutated form: the cursor covers what was read, and not only what is printed.
CursorOfNews(s) ==
  [a \in Mailboxes |->
     IF a \in Routes(s) THEN Larger(seen[s][a], Top({r \in News(s) : r.msg.to = a}, 0))
                        ELSE seen[s][a]]

CursorOf(s) ==
  [a \in Mailboxes |->
     IF a \in Routes(s) THEN Larger(seen[s][a], Top({r \in Cut(News(s)) : r.msg.to = a}, 0))
                        ELSE seen[s][a]]

Collect(h, s) ==
  /\ hook[h].pc = "ready"
  /\ News(s) # {}
  /\ hook' = [hook EXCEPT ![h] = [pc |-> "collected", session |-> s, rows |-> Cut(News(s)),
                                  cursor |-> CursorOf(s)]]
  /\ UNCHANGED <<storeVars, registered, alias, seen, shown, passed>>

Show(h) ==
  /\ hook[h].pc = "collected"
  /\ shown' = [shown EXCEPT ![hook[h].session] = @ \cup {r.msg.id : r \in hook[h].rows}]
  /\ hook' = [hook EXCEPT ![h].pc = "shown"]
  /\ UNCHANGED <<storeVars, registered, alias, seen, passed>>

\* The cursors only grow, whatever another hook of the session did meanwhile.
Advance(h) ==
  /\ hook[h].pc = "shown"
  /\ seen' = [seen EXCEPT ![hook[h].session] =
                [a \in Mailboxes |-> Larger(@[a], hook[h].cursor[a])]]
  /\ hook' = [hook EXCEPT ![h] = Ready]
  /\ UNCHANGED <<storeVars, registered, alias, shown, passed>>

\* The process ends anywhere, or finds the registry busy.
GiveUp(h) ==
  /\ hook[h].pc # "ready"
  /\ hook' = [hook EXCEPT ![h] = Ready]
  /\ UNCHANGED <<storeVars, registered, alias, seen, shown, passed>>

HookTraffic == Traffic(HookMail) /\ UNCHANGED hookState

HookNext ==
  \/ \E s \in Sessions : Register(s) \/ SetAlias(s) \/ \E h \in Hooks : Collect(h, s)
  \/ \E h \in Hooks : Show(h) \/ Advance(h) \/ GiveUp(h)
  \/ HookTraffic

----------------------------------------------------------------------------
\* "Only pointers already printed advance this session's cursor": a message that still
\* waits in a mailbox of the session is behind its cursor only if the session was
\* pointed to it, or the message was there before the route.
NothingPassedOver ==
  \A s \in Sessions : \A a \in Routes(s) : \A r \in Pending(a) :
    r.seq <= seen[s][a] => r.msg.id \in shown[s] \cup passed[s]
=============================================================================
