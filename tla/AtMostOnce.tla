------------------------------ MODULE AtMostOnce ------------------------------
(***************************************************************************)
(* What the request paths of WARPBLACK promise to whoever files a request: *)
(* a request is taken once, its effect happens at most once, it is         *)
(* answered at most once, and nothing happens to the machine on its behalf *)
(* after the answer.  The exclusive claim files of github_queue.py and     *)
(* runtime_canary.py, and the task directories of construct.py, exist to   *)
(* implement this; GitHubQueue, RuntimeCanary and PatchConstruct refine it.*)
(***************************************************************************)
EXTENDS Naturals

CONSTANT Requests

VARIABLES
    begun,      \* requests that have been taken
    effects,    \* number of times the effect of a request happened
    answers     \* number of answers given to a request

vars == <<begun, effects, answers>>

TypeOK ==
    /\ begun \subseteq Requests
    /\ effects \in [Requests -> Nat]
    /\ answers \in [Requests -> Nat]

Init ==
    /\ begun = {}
    /\ effects = [r \in Requests |-> 0]
    /\ answers = [r \in Requests |-> 0]

Begin(r) ==
    /\ r \notin begun
    /\ begun' = begun \cup {r}
    /\ UNCHANGED <<effects, answers>>

\* A request may be refused, or lost in a crash, so an effect is never owed.
Effect(r) ==
    /\ r \in begun
    /\ effects[r] = 0
    /\ answers[r] = 0
    /\ effects' = [effects EXCEPT ![r] = 1]
    /\ UNCHANGED <<begun, answers>>

Answer(r) ==
    /\ r \in begun
    /\ answers[r] = 0
    /\ answers' = [answers EXCEPT ![r] = 1]
    /\ UNCHANGED <<begun, effects>>

Next == \E r \in Requests : Begin(r) \/ Effect(r) \/ Answer(r)

Spec == Init /\ [][Next]_vars
===============================================================================
