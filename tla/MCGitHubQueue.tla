---------------------------- MODULE MCGitHubQueue ----------------------------
(* Instances of GitHubQueue for TLC. *)
EXTENDS GitHubQueue, TLC

CONSTANTS w1, w2, w3, here, there

OneWorkspace == [w \in Watchers |-> here]
TwoWorkspaces == [w \in Watchers |-> IF w = w3 THEN there ELSE here]

SwapTwo == Permutations({w1, w2})

\* Bounds of the safety run: the owner meddles with at most one issue (either
\* the older or the younger), and the repository stays private.
OneMeddled == private /\ Cardinality(meddled) <= 1
===============================================================================
