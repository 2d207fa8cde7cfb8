------------------------------- MODULE MCService -------------------------------
(* An instance of Service for TLC. *)
EXTENDS Service, TLC

CONSTANTS e1, e2, b1, b2, x, y, n1, n2

Plain == [program |-> "reader", sub |-> "none", risky |-> FALSE, confined |-> TRUE,
          cwd |-> TRUE, timely |-> TRUE, approved |-> FALSE]

\* A command of each kind the policy tells apart.
Kinds ==
    {Plain,
     [Plain EXCEPT !.confined = FALSE],
     [Plain EXCEPT !.cwd = FALSE],
     [Plain EXCEPT !.program = "denied"],
     [Plain EXCEPT !.program = "other"],
     [Plain EXCEPT !.program = "git", !.sub = "safe", !.risky = TRUE]}

Swaps == Permutations(Calls) \cup Permutations(Certifiers)
            \cup Permutations(Dirs) \cup Permutations(Numbers)
===============================================================================
