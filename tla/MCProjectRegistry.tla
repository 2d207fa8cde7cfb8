--------------------------- MODULE MCProjectRegistry ---------------------------
(* An instance of ProjectRegistry for TLC. *)
EXTENDS ProjectRegistry, TLC

CONSTANTS c1, c2

\* 2 lies in 1; 2 and 3 have one name.
Nested == [p \in Paths |-> IF p = 2 THEN {1} ELSE {}]
SharedName == [p \in Paths |-> IF p = 1 THEN "x" ELSE "y"]

Swaps == Permutations(Calls)
===============================================================================
