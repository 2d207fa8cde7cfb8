-------------------------------- MODULE Policy --------------------------------
(***************************************************************************)
(* The command policy (policy.py) over what it tells commands apart by.    *)
(* What flags are risky and which arguments are paths is abstracted to two *)
(* attributes of a command, risky and confined; cwd is whether the working *)
(* directory is inside the workspace, timely whether timeout_s passes as   *)
(* between 0 and 900.  NaN does, and no program outlives its start with    *)
(* it.                                                                     *)
(***************************************************************************)

\* "denied" is HARD_DENY, "reader" READ_ONLY.
Programs == {"denied", "reader", "git", "other"}

\* The subcommand of git: none, one that only reads, remote with arguments that
\* only read, remote with others, any other.
Subcommands == {"none", "safe", "remote-read", "remote", "other"}

Command == [program : Programs, sub : Subcommands, risky : BOOLEAN,
            confined : BOOLEAN, cwd : BOOLEAN, timely : BOOLEAN,
            approved : BOOLEAN]

Risks == {"blocked", "low", "approval-required", "elevated"}

LowRead(k) == k.program = "reader" /\ ~k.risky /\ k.confined

LowGit(k) ==
    /\ k.program = "git"
    /\ k.sub \in {"safe", "remote-read"}
    /\ ~k.risky /\ k.confined

\* Mutant of Risk: the approval is looked at before the denied programs.
RiskApprovedFirst(k) ==
    IF ~k.timely \/ ~k.cwd THEN "blocked"
    ELSE IF LowRead(k) \/ LowGit(k) THEN "low"
    ELSE IF k.approved THEN "elevated"
    ELSE IF k.program = "denied" THEN "blocked" ELSE "approval-required"

\* decide
Risk(k) ==
    IF ~k.timely \/ ~k.cwd \/ k.program = "denied" THEN "blocked"
    ELSE IF LowRead(k) \/ LowGit(k) THEN "low"
    ELSE IF k.approved THEN "elevated" ELSE "approval-required"

Allowed(k) == Risk(k) \in {"low", "elevated"}
===============================================================================
