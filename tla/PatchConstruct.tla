---------------------------- MODULE PatchConstruct ----------------------------
(***************************************************************************)
(* Patch construction (construct.py), as the HTTP bridge (server.py) and   *)
(* local processes (cli.py, github_queue.py) use it.                       *)
(*                                                                         *)
(* A call makes the directory of its task, loads the project memory,       *)
(* records patch and manifest, and runs through the executor, one after    *)
(* the other: git apply --check, git apply, the checks, git status and git *)
(* diff.  The bridge's handler threads do it under construct_lock; local   *)
(* processes do it without a lock.  A caller whose connection times out is *)
(* told nothing, the thread runs on, and the caller may ask again.  When a *)
(* process dies, the command it was running does not: it may still change  *)
(* the tree.                                                               *)
(*                                                                         *)
(* Only calls that pass the validation at the top are modelled: the others *)
(* raise before anything is touched.                                       *)
(***************************************************************************)
EXTENDS Naturals, FiniteSets

CONSTANTS
    Calls,      \* calls of construct, each made once
    Tasks,      \* task ids
    Patches,
    Clash,      \* for each patch, what must not be in the tree for it to apply
    MaxChecks

Doors == {"bridge", "local"}

VARIABLES
    readable,   \* whether readme_state.json parses, or does not exist
    tree,       \* the patches whose change is in the work tree, or part of it
    owner,      \* who made the directory of each task: nobody or one call
    lock,       \* who holds construct_lock: nobody or one call
    pc, call,   \* of each call
    passed,     \* checks that have passed
    status,     \* the status in the result
    \* history, read by properties only
    base,       \* the tree git apply --check was given
    starts,     \* times git apply was started for each task
    odd         \* what has happened besides calls by the bridge

locals == <<pc, call, passed, status>>
history == <<base, starts, odd>>
vars == <<readable, tree, owner, lock, locals, history>>

\* What the executor makes of a command: exit code 0, another one, a timeout,
\* or an exception (refused by policy, no such program, output that is not text,
\* an audit file that cannot be written, after the command ran).
Outcomes == {"ok", "failed", "timeout", "raised"}
Statuses == {"none", "rejected", "failed-apply", "needs-review", "done", "raised"}
Jobs == [task : Tasks, patch : Patches, checks : 0..MaxChecks, door : Doors]
NoJob == [task |-> "none"]
\* What a call that died was running, and is possibly running still.
Orphans == {"orphan_apply", "orphan_check"}
Ended == {"told", "dead"} \cup Orphans
Steps == {"new", "lock", "mkdir", "context", "apply_check", "apply", "return",
          "check", "read_back"} \cup Ended

TypeOK ==
    /\ readable \in BOOLEAN
    /\ tree \subseteq Patches
    /\ owner \in [Tasks -> SUBSET Calls]
    /\ lock \subseteq Calls
    /\ pc \in [Calls -> Steps]
    /\ call \in [Calls -> Jobs \cup {NoJob}]
    /\ passed \in [Calls -> 0..MaxChecks]
    /\ status \in [Calls -> Statuses]
    /\ base \in [Calls -> SUBSET Patches]
    /\ starts \in [Tasks -> Nat]
    /\ odd \subseteq {"overlap", "edit", "timeout", "orphan"}

Init ==
    /\ readable = TRUE
    /\ tree = {}
    /\ owner = [t \in Tasks |-> {}]
    /\ lock = {}
    /\ pc = [c \in Calls |-> "new"]
    /\ call = [c \in Calls |-> NoJob]
    /\ passed = [c \in Calls |-> 0]
    /\ status = [c \in Calls |-> "none"]
    /\ base = [c \in Calls |-> {}]
    /\ starts = [t \in Tasks |-> 0]
    /\ odd = {}

-----------------------------------------------------------------------------
(* Around the calls. *)

\* An absorb is writing readme_state.json, or has left it readable or not.
Absorb ==
    /\ readable' = ~readable
    /\ UNCHANGED <<tree, owner, lock, locals, history>>

\* The user, or what an earlier check left running, puts the change of a patch in the
\* tree, or takes it out.
Edit(p) ==
    /\ tree' = IF p \in tree THEN tree \ {p} ELSE tree \cup {p}
    /\ odd' = odd \cup {"edit"}
    /\ UNCHANGED <<readable, owner, lock, locals, base, starts>>

-----------------------------------------------------------------------------
Running(c) == pc[c] \notin Ended \cup {"new"}

GoTo(c, step) == pc' = [pc EXCEPT ![c] = step]

\* Mutant of Leave: an exception leaves construct_lock taken.
LeaveHolding(c, s) ==
    /\ GoTo(c, "told")
    /\ status' = [status EXCEPT ![c] = s]
    /\ lock' = IF call[c].door = "bridge" /\ s # "raised" THEN {} ELSE lock

\* construct returns or raises, the with block ends, and the caller is told.
Leave(c, s) ==
    /\ GoTo(c, "told")
    /\ status' = [status EXCEPT ![c] = s]
    /\ lock' = IF call[c].door = "bridge" THEN {} ELSE lock

\* A call by a local process overlaps another when either is under way.
Ask(c, j) ==
    /\ pc[c] = "new"
    /\ call' = [call EXCEPT ![c] = j]
    /\ GoTo(c, IF j.door = "bridge" THEN "lock" ELSE "mkdir")
    /\ odd' = IF \E d \in Calls : Running(d) /\ "local" \in {j.door, call[d].door}
              THEN odd \cup {"overlap"} ELSE odd
    /\ UNCHANGED <<readable, tree, owner, lock, passed, status, base, starts>>

\* Mutant of Lock: the handler does not take construct_lock.
LockNothing(c) ==
    /\ pc[c] = "lock"
    /\ GoTo(c, "mkdir")
    /\ UNCHANGED <<readable, tree, owner, lock, call, passed, status, history>>

\* with self.server.construct_lock
Lock(c) ==
    /\ pc[c] = "lock"
    /\ lock = {}
    /\ lock' = {c}
    /\ GoTo(c, "mkdir")
    /\ UNCHANGED <<readable, tree, owner, call, passed, status, history>>

\* Mutant of MakeDir: mkdir(exist_ok=True).
MakeDirAgain(c) ==
    /\ pc[c] = "mkdir"
    /\ owner' = [owner EXCEPT ![call[c].task] = {c}]
    /\ GoTo(c, "context")
    /\ UNCHANGED <<readable, tree, lock, call, passed, status, history>>

\* mkdir(exist_ok=False): the directory of a task is made once, ever.
MakeDir(c) ==
    /\ pc[c] = "mkdir"
    /\ LET t == call[c].task IN
          IF owner[t] = {}
          THEN /\ owner' = [owner EXCEPT ![t] = {c}]
               /\ GoTo(c, "context")
               /\ UNCHANGED <<lock, status>>
          ELSE Leave(c, "raised") /\ UNCHANGED owner
    /\ UNCHANGED <<readable, tree, call, passed, history>>

\* absorber.load(), without readme_lock; then change.patch, CONTEXT.md and
\* task.json, which this call alone writes, and may fail to.
Context(c) ==
    /\ pc[c] = "context"
    /\ \/ readable /\ GoTo(c, "apply_check") /\ UNCHANGED <<lock, status>>
       \/ Leave(c, "raised")
    /\ UNCHANGED <<readable, tree, owner, call, passed, history>>

Fits(c) == Clash[call[c].patch] \cap tree = {}

Note(outcome) == odd' = odd \cup ({outcome} \cap {"timeout"})

\* A program of the user's choice leaves any tree behind.
Rework(outcome) ==
    /\ tree' \in SUBSET Patches
    /\ odd' = odd \cup ({outcome} \cap {"timeout"})
                  \cup (IF tree' = tree THEN {} ELSE {"edit"})

\* Mutant of ApplyCheck: its exit code is not looked at.
ApplyCheckUnread(c) ==
    /\ pc[c] = "apply_check"
    /\ GoTo(c, "apply")
    /\ base' = [base EXCEPT ![c] = tree]
    /\ UNCHANGED <<readable, tree, owner, lock, call, passed, status, starts, odd>>

\* git apply --check
ApplyCheck(c) ==
    /\ pc[c] = "apply_check"
    /\ \E o \in {IF Fits(c) THEN "ok" ELSE "failed", "timeout", "raised"} :
          /\ Note(o)
          /\ CASE o = "ok" -> GoTo(c, "apply") /\ UNCHANGED <<lock, status>>
               [] o = "raised" -> Leave(c, "raised")
               [] OTHER -> Leave(c, "rejected")
    /\ base' = [base EXCEPT ![c] = tree]
    /\ UNCHANGED <<readable, tree, owner, call, passed, starts>>

Patched(c) == tree \cup {call[c].patch}

\* What git apply may leave of the tree: nothing of a patch that does not fit; of one
\* that does, all if it succeeds, and any part if it is cut short.
Applied(c, o) ==
    IF ~Fits(c) THEN {tree} ELSE IF o = "ok" THEN {Patched(c)} ELSE {tree, Patched(c)}

\* git apply; it may fail on a patch that fits, for a file it may not write or a full
\* disk, and be killed by the timeout, and an exception may follow it.
Apply(c) ==
    /\ pc[c] = "apply"
    /\ \E o \in Outcomes :
          /\ o = "ok" => Fits(c)
          /\ Note(o)
          /\ tree' \in Applied(c, o)
          /\ status' = [status EXCEPT ![c] = CASE o = "ok" -> "none"
                                               [] o = "raised" -> "raised"
                                               [] OTHER -> "failed-apply"]
          /\ GoTo(c, IF o = "ok" THEN "check" ELSE "return")
    /\ starts' = [starts EXCEPT ![call[c].task] = @ + 1]
    /\ UNCHANGED <<readable, owner, lock, call, passed, base>>

\* The result of a git apply that did not succeed.
Return(c) ==
    /\ pc[c] = "return"
    /\ Leave(c, status[c])
    /\ UNCHANGED <<readable, tree, owner, call, passed, history>>

\* Mutant of Check: one check more than was asked for.
CheckOneMore(c) ==
    /\ pc[c] = "check"
    /\ passed[c] <= call[c].checks
    /\ passed' = [passed EXCEPT ![c] = @ + 1]
    /\ UNCHANGED <<readable, tree, owner, lock, pc, call, status, history>>

\* The next check; the first that does not pass is the last.
Check(c) ==
    /\ pc[c] = "check"
    /\ passed[c] < call[c].checks
    /\ \E o \in Outcomes :
          /\ Rework(o)
          /\ CASE o = "ok" -> /\ passed' = [passed EXCEPT ![c] = @ + 1]
                              /\ UNCHANGED <<pc, lock, status>>
               [] o = "raised" -> Leave(c, "raised") /\ UNCHANGED passed
               [] OTHER -> /\ status' = [status EXCEPT ![c] = "needs-review"]
                           /\ GoTo(c, "read_back")
                           /\ UNCHANGED <<lock, passed>>
    /\ UNCHANGED <<readable, owner, call, base, starts>>

Checked(c) ==
    /\ pc[c] = "check"
    /\ passed[c] = call[c].checks
    /\ status' = [status EXCEPT ![c] = "done"]
    /\ GoTo(c, "read_back")
    /\ UNCHANGED <<readable, tree, owner, lock, call, passed, history>>

\* git status and git diff: whatever their exit codes, the status stands.
ReadBack(c) ==
    /\ pc[c] = "read_back"
    /\ Leave(c, status[c]) \/ Leave(c, "raised")
    /\ UNCHANGED <<readable, tree, owner, call, passed, history>>

\* The bridge dies with all its threads and its lock; a local process alone.
Victims(door) == {c \in Calls : Running(c) /\ call[c].door = door}

\* What is left of a call that dies at this step.
Left(step) == CASE step = "apply" -> "orphan_apply"
                [] step = "check" -> "orphan_check"
                [] OTHER -> "dead"

Kill(cs) ==
    /\ pc' = [c \in Calls |-> IF c \in cs THEN Left(pc[c]) ELSE pc[c]]
    /\ lock' = lock \ cs
    /\ UNCHANGED <<readable, tree, owner, call, passed, status, history>>

Crash ==
    \/ Kill(Victims("bridge"))
    \/ \E c \in Victims("local") : Kill({c})

\* What the command of a call that died makes of the tree after it.
Orphan(c) ==
    /\ \/ /\ pc[c] = "orphan_apply"
          /\ tree' \in Applied(c, "ok") \cup Applied(c, "failed")
          /\ starts' = [starts EXCEPT ![call[c].task] = @ + 1]
       \/ /\ pc[c] = "orphan_check"
          /\ tree' \in SUBSET Patches
          /\ UNCHANGED starts
    /\ GoTo(c, "dead")
    /\ odd' = odd \cup {"orphan"}
    /\ UNCHANGED <<readable, owner, lock, call, passed, status, base>>

-----------------------------------------------------------------------------
Step(c) ==
    \/ \E j \in Jobs : Ask(c, j)
    \/ Lock(c)
    \/ MakeDir(c)
    \/ Context(c)
    \/ ApplyCheck(c)
    \/ Apply(c)
    \/ Return(c)
    \/ Check(c)
    \/ Checked(c)
    \/ ReadBack(c)

Next ==
    \/ Absorb
    \/ Crash
    \/ \E p \in Patches : Edit(p)
    \/ \E c \in Calls : Step(c) \/ Orphan(c)

Spec == Init /\ [][Next]_vars

-----------------------------------------------------------------------------
(* Properties. *)

\* What excludes that anything but the calls of one bridge touched the tree: no local
\* process beside it, no edit by the user or by a check, and no command that outlived
\* a bridge that died.
Undisturbed == odd \subseteq {"timeout"}

\* Undisturbed, the checks of a call see the tree its patch was tried against with
\* this patch added, and nothing a concurrent call did: what is told "done" was
\* validated as it stands.
ValidatedAsApplied == Undisturbed =>
    \A c \in Calls : pc[c] \in {"check", "read_back"} =>
        tree = base[c] \cup {call[c].patch}

\* Undisturbed, a patch that passed git apply --check still fits when git apply is
\* about to run, on the very tree it was tried against.
CheckedPatchFits == Undisturbed =>
    \A c \in Calls : pc[c] = "apply" => tree = base[c] /\ Fits(c)

\* README.md:384: "validation stops on the first failure and returns
\* `needs-review`".  A call whose validation ends without getting through, its patch
\* in the tree, is answered needs-review.
FailedValidationNeedsReview ==
    [][\A c \in Calls : (pc[c] = "check" /\ pc'[c] = "told")
          => status'[c] = "needs-review"]_vars

\* A task id is a claim: however often a caller whose answer was lost asks again,
\* by either door, whatever crashed, git apply is started at most once for it, and
\* it is answered at most once, after that.
Once == INSTANCE AtMostOnce WITH
    Requests <- Tasks,
    begun <- {t \in Tasks : owner[t] # {}},
    effects <- starts,
    answers <- [t \in Tasks |->
        IF \E c \in Calls : owner[t] = {c} /\ pc[c] = "told" THEN 1 ELSE 0]

RefinesAtMostOnce == Once!Spec
===============================================================================
