--------------------------- MODULE MCAutomatorQueue ---------------------------
(* Instances of AutomatorQueue for TLC. *)
EXTENDS AutomatorQueue, TLC

CONSTANTS w1, w2

\* Two jobs of one idempotency key.
SharedKey == [i \in Ids |-> "k"]
Allowed == [i \in Ids |-> "allowed"]
\* A gated job and its authorized resubmission.
GatedFirst == [i \in Ids |-> IF i = 1 THEN "gated" ELSE "allowed"]

\* Three emissions, and two kinds of disturbance; workers that overlap have two
\* emissions to meet over, and one if something else is going on besides.  A key whose
\* records overlapping workers destroy can be executed for ever: twice is enough.
FewEmissions ==
    /\ emits[1] + emits[2] <= IF "overlap" \in disturbed THEN 3 - Cardinality(disturbed)
                               ELSE 3
    /\ Cardinality(disturbed) <= 2
    /\ runs["k"] <= 2

Swap == Permutations(Workers)
===============================================================================
