----------------------------- MODULE TaskEnvelope -----------------------------
(***************************************************************************)
(* TaskEnvelopeV1 (task_envelope.py): the states of a task and the moves   *)
(* transition() allows.  A task is a record of what its moves depend on:   *)
(* its state, its risk and whether it has an approval reference.           *)
(***************************************************************************)
EXTENDS Naturals

States == {"PROPOSED", "APPROVED", "RUNNING", "BLOCKED", "NEEDS_REVIEW",
           "VERIFIED", "DONE"}
Risks == {"read_only", "mutation", "high_impact"}
Tasks == [state : States, risk : Risks, approval : BOOLEAN]

TRANSITIONS ==
    [PROPOSED     |-> {"APPROVED", "BLOCKED"},
     APPROVED     |-> {"RUNNING", "BLOCKED"},
     RUNNING      |-> {"BLOCKED", "NEEDS_REVIEW", "VERIFIED"},
     BLOCKED      |-> {"APPROVED"},
     NEEDS_REVIEW |-> {"APPROVED", "BLOCKED", "VERIFIED"},
     VERIFIED     |-> {"DONE"},
     DONE         |-> {}]

\* transition() raises unless this holds.
MayMove(task, next, evidence) ==
    /\ next \in TRANSITIONS[task.state]
    /\ (next = "APPROVED" /\ task.risk # "read_only") => task.approval
    /\ next \in {"VERIFIED", "DONE"} => evidence

Moved(task, next) == [task EXCEPT !.state = next]

\* The moves are made one after another; the first that is refused raises.
\* f[n] is the task after n of them.
MovesTo(task, path, evidence) ==
    LET f[n \in 0..2] == IF n = 0 THEN task ELSE Moved(f[n - 1], path[n])
    IN  \A n \in 1..2 : MayMove(f[n - 1], path[n], evidence)
===============================================================================
