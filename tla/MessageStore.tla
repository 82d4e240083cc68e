---------------------------- MODULE MessageStore ----------------------------
(***************************************************************************)
(* The message table of the LLM bus (bus.py: MessageStore), which the HTTP *)
(* server, local_cli.py, the relay and the file bridge all open.           *)
(*                                                                         *)
(* A message is [id, from, to, body, parent, mode]: parent is its reply_to *)
(* or NoId, mode the delivery a Codex recipient gets (none given: steer).  *)
(* An id is a tuple of strings, since the file bridge builds ids from ids. *)
(* A row is [seq, msg, status, live].  It is live until its expires_at;    *)
(* rows that are not live stay in the table until the next _prune.         *)
(***************************************************************************)
EXTENDS Naturals, FiniteSets

CONSTANT MaxSeq   \* bound: rows after which no client posts and no row lapses

VARIABLES
  table,      \* the set of rows
  lastSeq     \* AUTOINCREMENT: a seq is never used again

storeVars == <<table, lastSeq>>

NoId == <<>>

StoreInit == table = {} /\ lastSeq = 0

\* _prune
Kept(rows) == {r \in rows : r.live}

WithId(rows, id) == {r \in rows : r.msg.id = id}

\* What a reply may refer to: a message its sender had from its addressee.
Parents(rows, m) ==
  {r \in WithId(rows, m.parent) : r.msg.to = m.from /\ r.msg.from = m.to}

\* post, up to its decision.
Outcome(m) ==
  LET same == WithId(Kept(table), m.id)
  IN IF \E r \in same : r.msg = m THEN "duplicate"
     ELSE IF same # {} THEN "conflict"
     ELSE IF m.parent # NoId /\ Parents(Kept(table), m) = {} THEN "invalid"
     ELSE "posted"

\* The row a reply refers to is replied, whether it was acknowledged or not.
Replied(rows, id) ==
  {IF r.msg.id = id THEN [r EXCEPT !.status = "replied"] ELSE r : r \in rows}

Row(m) == [seq |-> lastSeq + 1, msg |-> m, status |-> "pending", live |-> TRUE]

\* post: a conflict or an invalid reply raises, and the transaction is rolled back
\* with its _prune.
Post(m) ==
  LET outcome == Outcome(m)
  IN \/ /\ outcome = "posted"
        /\ table' = Replied(Kept(table), m.parent) \cup {Row(m)}
        /\ lastSeq' = lastSeq + 1
     \/ /\ outcome = "duplicate"
        /\ table' = Kept(table)
        /\ UNCHANGED lastSeq
     \/ /\ outcome \in {"conflict", "invalid"}
        /\ UNCHANGED storeVars

\* ack: only a pending row changes; the rows that have expired go in any case.
Ack(id, recipient) ==
  /\ table' = {IF r.msg.id = id /\ r.msg.to = recipient /\ r.status = "pending"
               THEN [r EXCEPT !.status = "acked"] ELSE r : r \in Kept(table)}
  /\ UNCHANGED lastSeq

\* inbox, which prunes what it reads.
Inbox ==
  /\ table' = Kept(table)
  /\ UNCHANGED lastSeq

\* External: the time of a row runs out.
Lapse(r) ==
  /\ r \in table
  /\ r.live
  /\ table' = (table \ {r}) \cup {[r EXCEPT !.live = FALSE]}
  /\ UNCHANGED lastSeq

\* What senders, recipients and time do to the table.
Traffic(mail) ==
  \/ lastSeq < MaxSeq /\ \E m \in mail : Post(m)
  \/ lastSeq < MaxSeq /\ \E r \in table : Lapse(r)
  \/ \E m \in mail : Ack(m.id, m.to)
  \/ Inbox

\* What a reader of pending messages for an address is given.
Pending(address) == {r \in table : r.msg.to = address /\ r.status = "pending" /\ r.live}
=============================================================================
