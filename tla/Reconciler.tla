----------------------------- MODULE Reconciler -----------------------------
(***************************************************************************)
(* reconcile (reconciler.py): the classification of observed changes       *)
(* against one signed ChangeIntent.                                        *)
(*                                                                         *)
(* A slot stands for a (selector, operation) pair, and a diff for a pair   *)
(* of before and after digests.  A change an intent expects is             *)
(* [slot, diff].  An observed delta is [here, complete, slot, diff, at,    *)
(* post]: here says that its tenant and node are those of the intent's     *)
(* target.  An intent is taken to be verified (Verified): its signature    *)
(* was checked, and verify_change_intent accepted its window and scope.    *)
(***************************************************************************)
EXTENDS Sequences, Naturals, FiniteSets

NoIndex == 0

\* change-intent.schema.json: a list of one change or more, and times that compare.
FitsSchema(intent) ==
  /\ Len(intent.expected) \in Nat \ {0}
  /\ DOMAIN intent.expected = 1..Len(intent.expected)
  /\ intent.created \in Nat /\ intent.from \in Nat /\ intent.until \in Nat

\* verify_change_intent, after the signature.
Verified(intent) ==
  /\ FitsSchema(intent)
  /\ intent.from <= intent.until
  /\ intent.created <= intent.until
  /\ \A i \in DOMAIN intent.expected : intent.expected[i].slot \in intent.scope

\* exact_scope_indexes
Indexes(intent, delta) ==
  {i \in DOMAIN intent.expected : intent.expected[i].slot = delta.slot}

\* Mutated form: the window has no end.
InWindowOpen(intent, delta) == delta.at >= intent.from

InWindow(intent, delta) == delta.at >= intent.from /\ delta.at <= intent.until

\* What is said of a delta that matches one expected change, in time.
Outcome(change, delta) ==
  IF change.diff # delta.diff THEN "authorized_partial"
  ELSE IF delta.post = "PASS" THEN "authorized_success"
  ELSE IF delta.post = "FAIL" THEN "authorized_failed"
  ELSE "authorized_partial"

\* The loop body: the first test that applies decides.
Classify(intent, delta) ==
  LET idx == Indexes(intent, delta)
  IN IF ~delta.here THEN "scope_breach"
     ELSE IF ~delta.complete THEN "sensor_gap"
     ELSE IF intent.retrospective \/ intent.created > delta.at THEN "retrospective_claim"
     ELSE IF ~InWindow(intent, delta) THEN "unrecorded_change"
     ELSE IF Cardinality(idx) > 1 THEN "ambiguous"
     ELSE IF idx = {} THEN "scope_breach"
     ELSE Outcome(intent.expected[CHOOSE i \in idx : TRUE], delta)

Authorized == {"authorized_success", "authorized_failed", "authorized_partial"}

\* matched_expected, after the loop.
Matched(intent, observed) ==
  UNION {Indexes(intent, observed[k]) :
           k \in {k \in DOMAIN observed : Classify(intent, observed[k]) \in Authorized}}

Missing(intent, observed) == DOMAIN intent.expected \ Matched(intent, observed)

\* _result, by its classification and the position of its delta or expected change.
Entry(class, delta, index) == [class |-> class, delta |-> delta, index |-> index]

\* The index a result carries: only an unambiguous one, and not for every class.
EntryIndex(intent, delta) ==
  IF Classify(intent, delta) \in Authorized \cup {"retrospective_claim", "unrecorded_change"}
       /\ Cardinality(Indexes(intent, delta)) = 1
  THEN CHOOSE i \in Indexes(intent, delta) : TRUE
  ELSE NoIndex

\* The j-th smallest number of S.
Nth(S, j) == CHOOSE i \in S : Cardinality({m \in S : m < i}) = j - 1

Reconcile(intent, observed) ==
  LET missing == Missing(intent, observed)
      absence == IF Matched(intent, observed) # {} THEN "authorized_partial"
                                                   ELSE "planned_not_observed"
  IN IF observed = <<>>
     THEN <<Entry("planned_not_observed", NoIndex, NoIndex)>>
     ELSE [k \in DOMAIN observed |->
             Entry(Classify(intent, observed[k]), k, EntryIndex(intent, observed[k]))]
          \o [j \in 1..Cardinality(missing) |-> Entry(absence, NoIndex, Nth(missing, j))]

Clean(results) == \A k \in DOMAIN results : results[k].class = "authorized_success"

----------------------------------------------------------------------------
(* What a report says.                                                     *)

\* One observation that shows change i of the intent made, exactly and in time.
Shows(intent, delta, i) ==
  /\ delta.here /\ delta.complete /\ delta.post = "PASS"
  /\ delta.slot = intent.expected[i].slot /\ delta.diff = intent.expected[i].diff
  /\ ~intent.retrospective
  /\ intent.created <= delta.at /\ intent.from <= delta.at /\ delta.at <= intent.until

\* A report without a blemish means that the plan was carried out and nothing else:
\* the observations can be assigned to the expected changes such that each shows
\* the one it is assigned to and every change is shown, and no two expected changes
\* compete for a slot that was touched.
CarriedOut(intent, observed) ==
  \E shown \in [DOMAIN observed -> DOMAIN intent.expected] :
    /\ \A i \in DOMAIN intent.expected : \E k \in DOMAIN observed : shown[k] = i
    /\ \A k \in DOMAIN observed : Shows(intent, observed[k], shown[k])
    /\ \A i, j \in DOMAIN intent.expected :
         intent.expected[i].slot = intent.expected[j].slot => i = j

\* Nothing is reported twice or dropped: every observation has one entry and every
\* expected change that no observation was credited to has one.
Accounts(intent, observed, results) ==
  \/ observed = <<>> /\ ~Clean(results)
  \/ /\ \A k \in DOMAIN observed :
          Cardinality({n \in DOMAIN results : results[n].delta = k}) = 1
     /\ \A i \in DOMAIN intent.expected :
          LET credited == {n \in DOMAIN results : /\ results[n].index = i
                                                  /\ results[n].delta # NoIndex
                                                  /\ results[n].class \in Authorized}
              noted == {n \in DOMAIN results : results[n].index = i /\ results[n].delta = NoIndex}
          IN IF credited = {} THEN Cardinality(noted) = 1 ELSE noted = {}

\* A report is without a blemish exactly when the plan was carried out, so that no
\* blemish is hidden by another delta and none is invented; and every observed delta
\* and every expected change has its place in it, once.
Truthful(intent, observed) ==
  LET report == Reconcile(intent, observed)
  IN /\ Clean(report) <=> CarriedOut(intent, observed)
     /\ Accounts(intent, observed, report)
=============================================================================
