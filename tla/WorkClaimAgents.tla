-------------------------- MODULE WorkClaimAgents --------------------------
(***************************************************************************)
(* The agents that share a WorkClaimRegistry.  An agent acts on the claims *)
(* whose ids it knows.  It may crash at any point and start again without  *)
(* memory: what it held or awaited stays in the database, with nobody to   *)
(* renew, release, poll or cancel it.  The id of a claim that is handed    *)
(* over may not reach its successor.                                       *)
(***************************************************************************)
EXTENDS WorkClaims

VARIABLE known   \* known[a]: the claims agent a can still name

agentVars == <<db, known>>

AgentInit == Init /\ known = [a \in Agents |-> {}]

\* The decision of an operation reaches its caller.
Learns(a, c) == known' = [known EXCEPT ![a] = @ \cup {c}]

AgentClaim(a, R, ttl, lag) ==
  \/ ClaimRejected(a, R, lag) /\ UNCHANGED known
  \/ ClaimAdmitted(a, R, ttl, lag) /\ Learns(a, db'.last)

AgentPoll(a, lag) == \E c \in known[a] : Poll(c, lag) /\ UNCHANGED known

AgentRenew(a, ttl, lag) ==
  \E c \in known[a], f \in Fences : Renew(c, a, f, ttl, lag) /\ UNCHANGED known

AgentRelease(a, lag) ==
  \E c \in known[a], f \in Fences : Release(c, a, f, lag) /\ UNCHANGED known

AgentCancel(a, lag) == \E c \in known[a] : Cancel(c, a, lag) /\ UNCHANGED known

AgentHandoff(a, s, lag) ==
  \E c \in known[a], f \in Fences :
    /\ Handoff(c, a, f, s, lag)
    /\ Learns(s, db'.last) \/ UNCHANGED known

Crash(a) ==
  /\ known[a] # {}
  /\ known' = [known EXCEPT ![a] = {}]
  /\ UNCHANGED db

\* "Unless its requester keeps polling": an agent that knows of a waiting claim
\* polls it before the lease of the claim runs out.
Timely ==
  \A a \in Agents : \A c \in known[a] :
    db.rows[c].status = "waiting" => db.rows[c].left > 1

AgentTick == Timely /\ Tick /\ UNCHANGED known

AgentNext ==
  \/ AgentTick
  \/ \E a \in Agents : Crash(a)
  \/ \E a \in Agents, lag \in Lags :
       \/ \E R \in Radii, ttl \in Ttls : AgentClaim(a, R, ttl, lag)
       \/ AgentPoll(a, lag)
       \/ \E ttl \in Ttls : AgentRenew(a, ttl, lag)
       \/ AgentRelease(a, lag)
       \/ AgentCancel(a, lag)
       \/ \E s \in Agents : AgentHandoff(a, s, lag)

AgentSafety == AgentInit /\ [][AgentNext]_agentVars

(***************************************************************************)
(* Fairness.  Clocks advance.  An agent that knows of a waiting claim      *)
(* polls it again and again, which is what the docstring asks of it.  An   *)
(* agent that knows of a claim it holds gets its work done and releases    *)
(* it, whatever else it waits for.  Nothing is assumed of renewals,        *)
(* cancellations, new claims and crashes.  Of handoffs Served assumes that *)
(* they come to an end.                                                    *)
(***************************************************************************)
Followed(c) == db.rows[c].agent # NoAgent /\ c \in known[db.rows[c].agent]
Awaited(c) == db.rows[c].status = "waiting" /\ Followed(c)
Worked(c) == db.rows[c].status = "acquired" /\ Followed(c)

Attend(c) ==
  /\ \/ Awaited(c) /\ Poll(c, 0)
     \/ Worked(c) /\ Release(c, db.rows[c].agent, db.rows[c].fence, 0)
  /\ UNCHANGED known

AgentFairness ==
  /\ WF_agentVars(AgentTick)
  /\ \A c \in Claims : WF_agentVars(Attend(c))

AgentSpec == AgentSafety /\ AgentFairness

----------------------------------------------------------------------------
(* What the registry promises its users.                                   *)

\* A held claim is handed over to a successor.
HandsOver ==
  \E c \in Claims : db.rows[c].status = "acquired" /\ db'.rows[c].status = "handed_off"

\* Nobody who keeps polling waits forever, unless claims are handed over forever: the
\* claim is acquired or withdrawn, or its agent crashes.  Holders and earlier waiters
\* that crashed do not stand in the way: the waiter's own polls expire them.  Handoffs
\* do.  A successor goes before every waiter, so two agents that hand a claim to each
\* other keep a waiter out as long as they go on; the bound MaxClaims would end that
\* by itself, which is why the property says it.
Served ==
  <>[][~HandsOver]_agentVars => \A c \in Claims : Awaited(c) ~> ~Awaited(c)

\* A claim that is polled in time is never expired under its requester's feet.
PollersKeepTheirPlace ==
  [][\A c \in Claims : Awaited(c) => db'.rows[c].status # "expired"]_agentVars
=============================================================================
