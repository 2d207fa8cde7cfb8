----------------------------- MODULE RuntimeCanary -----------------------------
(***************************************************************************)
(* The read-only Git canary (runtime_canary.py).                           *)
(*                                                                         *)
(* A call claims its request id with an exclusively created file, reads    *)
(* the project's git status twice, certifies two equal readings and writes *)
(* one immutable result.  A call that finds the id claimed executes        *)
(* nothing: it rejects another envelope, replays the result, or reports    *)
(* NEEDS_REVIEW.  Calls run in processes of their own and may overlap; one *)
(* may end at any step, with a claim or result file created and not yet    *)
(* filled; the project changes, and its registration with it, meanwhile.   *)
(***************************************************************************)
EXTENDS Integers, Sequences, TaskEnvelope

CONSTANTS
    Callers,
    Ids,            \* request ids
    Envelopes,      \* fingerprints of task envelopes
    Trees           \* what git status may report of the project

ASSUME TreeAssumption == "invalid" \notin Trees
ASSUME EnvelopeAssumption == Envelopes \cap {"absent", "torn"} = {}

VARIABLES
    claims,     \* the claim file of each id: absent, torn or an envelope
    results,    \* the result file of each id: absent, torn or its final state
    tree,       \* the state of the project's work tree
    active,     \* whether the registry has the project, active, under the root
    pc, call, task, readings,   \* of each call in progress
    reply,      \* what each caller got from its last call
    \* history, read by properties only
    spawns,     \* git status processes started for each id
    seen        \* what they read, in order, by id

disk == <<claims, results>>
project == <<tree, active>>
locals == <<pc, call, task, readings>>
history == <<spawns, seen>>
vars == <<disk, project, locals, reply, history>>

Steps == {"idle", "claim", "fill_claim", "compare", "replay", "observe",
          "readback", "conclude", "fill_result"}
Claimant == {"fill_claim", "observe", "readback", "conclude", "fill_result"}
Final == {"BLOCKED", "NEEDS_REVIEW", "DONE"}
Reading == Trees \cup {"invalid", "blocked"}
NoCall == [id |-> "none", envelope |-> "none"]
Proposed == [state |-> "PROPOSED", risk |-> "read_only", approval |-> FALSE]
Calls == [id : Ids, envelope : Envelopes] \cup {NoCall}
Replies == [kind : {"none", "rejected", "first", "replayed"}, call : Calls,
            state : Final \cup {"none"}]
Silence == [kind |-> "none", call |-> NoCall, state |-> "none"]

TypeOK ==
    /\ claims \in [Ids -> Envelopes \cup {"absent", "torn"}]
    /\ results \in [Ids -> Final \cup {"absent", "torn"}]
    /\ tree \in Trees
    /\ active \in BOOLEAN
    /\ pc \in [Callers -> Steps]
    /\ call \in [Callers -> Calls]
    /\ task \in [Callers -> Tasks]
    /\ readings \in [Callers -> Seq(Reading)]
    /\ \A c \in Callers : Len(readings[c]) <= 2
    /\ reply \in [Callers -> Replies]
    /\ spawns \in [Ids -> Nat]
    /\ seen \in [Ids -> Seq(Reading)]

Init ==
    /\ claims = [i \in Ids |-> "absent"]
    /\ results = [i \in Ids |-> "absent"]
    /\ tree \in Trees
    /\ active \in BOOLEAN
    /\ pc = [c \in Callers |-> "idle"]
    /\ call = [c \in Callers |-> NoCall]
    /\ task = [c \in Callers |-> Proposed]
    /\ readings = [c \in Callers |-> <<>>]
    /\ reply = [c \in Callers |-> Silence]
    /\ spawns = [i \in Ids |-> 0]
    /\ seen = [i \in Ids |-> <<>>]

-----------------------------------------------------------------------------
(* Around the calls. *)

Work(t) ==
    /\ t # tree
    /\ tree' = t
    /\ UNCHANGED <<disk, active, locals, reply, history>>

Register ==
    /\ active' = ~active
    /\ UNCHANGED <<disk, tree, locals, reply, history>>

-----------------------------------------------------------------------------
(* One call of run_git_status_canary. *)

GoTo(c, step) == pc' = [pc EXCEPT ![c] = step]

\* The call is over and its local variables are gone.
Return(c) ==
    /\ GoTo(c, "idle")
    /\ call' = [call EXCEPT ![c] = NoCall]
    /\ task' = [task EXCEPT ![c] = Proposed]
    /\ readings' = [readings EXCEPT ![c] = <<>>]

Tell(c, kind, state) ==
    reply' = [reply EXCEPT ![c] = [kind |-> kind, call |-> call[c], state |-> state]]

\* The envelope is validated before anything is claimed, and so is the project:
\* registered, active and under the workspace root.
Enter(c, i, e) ==
    /\ pc[c] = "idle"
    /\ active
    /\ call' = [call EXCEPT ![c] = [id |-> i, envelope |-> e]]
    /\ GoTo(c, "claim")
    /\ UNCHANGED <<disk, project, task, readings, reply, history>>

\* Mutant of Claim: an id whose call left no result is executed again.
ClaimRetried(c) ==
    /\ pc[c] = "claim"
    /\ LET i == call[c].id IN
          IF claims[i] = "absent" \/ (claims[i] = call[c].envelope /\ results[i] = "absent")
          THEN claims' = [claims EXCEPT ![i] = "torn"] /\ GoTo(c, "fill_claim")
          ELSE UNCHANGED claims /\ GoTo(c, "compare")
    /\ UNCHANGED <<results, project, call, task, readings, reply, history>>

\* _write_once: O_CREAT | O_EXCL makes the file, then its content is written.
Claim(c) ==
    /\ pc[c] = "claim"
    /\ LET i == call[c].id IN
          IF claims[i] = "absent"
          THEN claims' = [claims EXCEPT ![i] = "torn"] /\ GoTo(c, "fill_claim")
          ELSE UNCHANGED claims /\ GoTo(c, "compare")
    /\ UNCHANGED <<results, project, call, task, readings, reply, history>>

FillClaim(c) ==
    /\ pc[c] = "fill_claim"
    /\ claims' = [claims EXCEPT ![call[c].id] = call[c].envelope]
    /\ task' = [task EXCEPT ![c] = Moved(Moved(@, "APPROVED"), "RUNNING")]
    /\ MovesTo(task[c], <<"APPROVED", "RUNNING">>, FALSE)
    /\ GoTo(c, "observe")
    /\ UNCHANGED <<results, project, call, readings, reply, history>>

\* Mutant of Compare: any claim of the id will do.
CompareId(c) ==
    /\ pc[c] = "compare"
    /\ GoTo(c, "replay")
    /\ UNCHANGED <<disk, project, call, task, readings, reply, history>>

\* Another envelope's claim, or one that does not parse, is a ValueError.
Compare(c) ==
    /\ pc[c] = "compare"
    /\ IF claims[call[c].id] = call[c].envelope
       THEN GoTo(c, "replay") /\ UNCHANGED <<call, task, readings, reply>>
       ELSE Return(c) /\ Tell(c, "rejected", "none")
    /\ UNCHANGED <<disk, project, history>>

Replay(c) ==
    /\ pc[c] = "replay"
    /\ LET r == results[call[c].id] IN
          Tell(c, "replayed", IF r \in Final THEN r ELSE "NEEDS_REVIEW")
    /\ Return(c)
    /\ UNCHANGED <<disk, project, history>>

\* dispatch_action and _safe_result: the tree, a reading that does not certify,
\* or (ActionError, PolicyError) no reading at all, which ends the loop.
Read(c, x) ==
    /\ x \in {tree, "invalid", "blocked"}
    /\ readings' = [readings EXCEPT ![c] = Append(@, x)]
    /\ spawns' = [spawns EXCEPT ![call[c].id] = @ + 1]
    /\ seen' = [seen EXCEPT ![call[c].id] = Append(@, x)]
    /\ UNCHANGED <<disk, project, call, task, reply>>

Observe(c) ==
    /\ pc[c] = "observe"
    /\ \E x \in Reading :
          /\ Read(c, x)
          /\ GoTo(c, IF x \in Trees THEN "readback" ELSE "conclude")

\* Mutant of Readback: a reading that does not certify is taken again.
ReadbackRetried(c) ==
    /\ pc[c] = "readback"
    /\ \E x \in Reading :
          Read(c, x) /\ GoTo(c, IF x = "invalid" THEN "readback" ELSE "conclude")

Readback(c) ==
    /\ pc[c] = "readback"
    /\ \E x \in Reading : Read(c, x)
    /\ GoTo(c, "conclude")

\* Mutant of Verified: two valid readings, equal or not.
VerifiedTwice(rs) == Len(rs) = 2 /\ rs[2] \in Trees

Verified(rs) == Len(rs) = 2 /\ rs[1] = rs[2]
Blocked(rs) == rs[Len(rs)] = "blocked"

\* The final state, then _write_once creates the result file.
Conclude(c) ==
    /\ pc[c] = "conclude"
    /\ results[call[c].id] = "absent"
    /\ LET rs == readings[c] IN
          \/ /\ Blocked(rs)
             /\ MayMove(task[c], "BLOCKED", FALSE)
             /\ task' = [task EXCEPT ![c] = Moved(@, "BLOCKED")]
          \/ /\ Verified(rs)
             /\ MovesTo(task[c], <<"VERIFIED", "DONE">>, TRUE)
             /\ task' = [task EXCEPT ![c] = Moved(Moved(@, "VERIFIED"), "DONE")]
          \/ /\ ~Blocked(rs) /\ ~Verified(rs)
             /\ MayMove(task[c], "NEEDS_REVIEW", FALSE)
             /\ task' = [task EXCEPT ![c] = Moved(@, "NEEDS_REVIEW")]
    /\ results' = [results EXCEPT ![call[c].id] = "torn"]
    /\ GoTo(c, "fill_result")
    /\ UNCHANGED <<claims, project, call, readings, reply, history>>

\* Mutant of FillResult: the result is told before its content is on disk.
FillResultLater(c) ==
    /\ pc[c] = "fill_result"
    /\ Tell(c, "first", task[c].state)
    /\ Return(c)
    /\ UNCHANGED <<disk, project, history>>

FillResult(c) ==
    /\ pc[c] = "fill_result"
    /\ results' = [results EXCEPT ![call[c].id] = task[c].state]
    /\ Tell(c, "first", task[c].state)
    /\ Return(c)
    /\ UNCHANGED <<claims, project, history>>

\* Mutant of Die: an exception removes the claim on its way out.
DieReleasing(c) ==
    /\ pc[c] # "idle"
    /\ claims' = [claims EXCEPT ![call[c].id] =
                     IF pc[c] \in Claimant THEN "absent" ELSE @]
    /\ Return(c)
    /\ reply' = [reply EXCEPT ![c] = Silence]
    /\ UNCHANGED <<results, project, history>>

\* The process is killed, or an exception that is not caught ends the call.
Die(c) ==
    /\ pc[c] # "idle"
    /\ Return(c)
    /\ reply' = [reply EXCEPT ![c] = Silence]
    /\ UNCHANGED <<disk, project, history>>

-----------------------------------------------------------------------------
Step(c) ==
    \/ Claim(c)
    \/ FillClaim(c)
    \/ Compare(c)
    \/ Replay(c)
    \/ Observe(c)
    \/ Readback(c)
    \/ Conclude(c)
    \/ FillResult(c)

Next ==
    \/ \E t \in Trees : Work(t)
    \/ Register
    \/ \E c \in Callers :
          \/ \E i \in Ids, e \in Envelopes : Enter(c, i, e)
          \/ Step(c)
          \/ Die(c)

Spec == Init /\ [][Next]_vars

-----------------------------------------------------------------------------
(* Properties. *)

\* docs/READ_ONLY_CANARY.md: "there is no subprocess replay".  However many
\* calls, crashes and retries, an id is observed once and read back once.
NoSubprocessReplay == \A i \in Ids : spawns[i] <= 2

\* A certified result stands on exactly two readings, valid and equal, made for
\* its id; whatever else was read, and whoever reads the result, it is not DONE.
CertifiedTwice == \A i \in Ids : results[i] = "DONE" =>
    /\ Len(seen[i]) = 2
    /\ seen[i][1] = seen[i][2]
    /\ seen[i][1] \in Trees

\* A caller that was answered with a result, its own or a replay, filed the very
\* envelope that claimed the id.
AnsweredItsEnvelope == \A c \in Callers : reply[c].kind \in {"first", "replayed"} =>
    claims[reply[c].call.id] = reply[c].call.envelope

\* runtime_canary.py:36, "claim and result records are immutable": whatever other
\* calls do and wherever a process dies, a record once filled never changes, and
\* a result file once created is never removed.
RecordsAreFinal ==
    [][\A i \in Ids :
          /\ claims[i] \in Envelopes => claims'[i] = claims[i]
          /\ results[i] \in Final => results'[i] = results[i]
          /\ results[i] # "absent" => results'[i] # "absent"]_vars

\* No caller believes more than the disk: DONE is told only of an id whose result
\* file says DONE, so that every later call will be told the same.
DoneIsRecorded == \A c \in Callers :
    reply[c].state = "DONE" => results[reply[c].call.id] = "DONE"

\* The request paths' promise, with an observation and its read-back as one
\* effect and the creation of the result as the answer.
Once == INSTANCE AtMostOnce WITH
    Requests <- Ids,
    begun <- {i \in Ids : claims[i] # "absent"},
    effects <- [i \in Ids |-> (spawns[i] + 1) \div 2],
    answers <- [i \in Ids |-> IF results[i] = "absent" THEN 0 ELSE 1]

\* Claiming, observing and recording implement AtMostOnce: an id is claimed once,
\* observed at most once after that, and its result created at most once.
RefinesAtMostOnce == Once!Spec
===============================================================================
