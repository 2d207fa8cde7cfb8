------------------------------- MODULE MCBridge -------------------------------
(* An instance of Bridge for TLC. *)
EXTENDS Bridge, TLC

CONSTANTS a1, a2, c1, c2, t1, t2, p1, p2

\* A patch applies once; the two patches are of different files.
Separate == [p \in Patches |-> {p}]

Swaps == Permutations(Absorbs) \cup Permutations(Calls)
            \cup Permutations(Tasks) \cup Permutations(Patches)
===============================================================================
