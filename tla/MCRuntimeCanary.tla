--------------------------- MODULE MCRuntimeCanary ---------------------------
(* An instance of RuntimeCanary for TLC. *)
EXTENDS RuntimeCanary, TLC

CONSTANTS c1, c2

Swap == Permutations(Callers)
===============================================================================
