---------------------------- MODULE AutomatorQueue ----------------------------
(***************************************************************************)
(* The BlackMamba Automator bridge (automator_queue.py).                   *)
(*                                                                         *)
(* Automator, an external program, drops job files in jobs/ and moves      *)
(* result files from results/ to processed/ when it has ingested them.     *)
(* Worker processes take the first job file in name order, look in both    *)
(* directories for a result with the job's idempotency key, execute the    *)
(* job or replay that result, write the result and move the job file away. *)
(* Nothing claims a job: the key lookup is the only guard against          *)
(* executing it twice.  Every file operation is a step of its own, so that *)
(* a crash, Automator or another worker can come between any two of them,  *)
(* and a result is written in three: its temporary file is opened, which   *)
(* empties it, filled, and renamed.  That file is named after the job, so  *)
(* that two workers on one job share it.                                   *)
(*                                                                         *)
(* A job file is named after its job_id, as Automator names them, unless   *)
(* the id cannot be a file name; several ids may carry one idempotency     *)
(* key.                                                                    *)
(***************************************************************************)
EXTENDS Integers, FiniteSets

CONSTANTS
    Workers,
    MaxId,      \* job ids, in the order of their file names
    Keys,
    KeyOf,      \* the idempotency_key of each job
    KindOf,     \* what _execute makes of each job
    Unwritable, \* jobs whose job_id cannot be a file name
    MaxEmit     \* bound: times Automator may emit a job

Ids == 1..MaxId

\* "allowed": dispatched to its adapter.  "gated": answered "blocked".
\* "invalid": its adapter raises before it has any effect.
Kinds == {"allowed", "gated", "invalid"}

ASSUME SizeAssumption == MaxId \in Nat /\ MaxEmit \in Nat
ASSUME JobAssumption == KeyOf \in [Ids -> Keys] /\ KindOf \in [Ids -> Kinds]
ASSUME UnwritableAssumption == Unwritable \subseteq Ids
ASSUME KeyAssumption == {"unknown", "none", "empty", "torn"} \cap Keys = {}

Statuses == {"validated", "blocked", "failed"}
Result == [key : Keys \cup {"unknown"}, status : Statuses]

\* What stands for no file, and for files that do not parse: one that nothing has been
\* written to, and one that two workers wrote to, or one not to the end.
None == [key |-> "none", status |-> "failed"]
Empty == [key |-> "empty", status |-> "failed"]
Torn == [key |-> "torn", status |-> "failed"]
Contents == Result \cup {None, Empty, Torn}

Dirs == {"results", "processed"}
Paths == Dirs \X Ids

\* results/<job_id>...tmp, which no glob lists, and what a closed handle refers to.
Temp(i) == <<"temp", i>>
Places == Paths \cup {Temp(i) : i \in Ids}
Closed == <<"closed", 0>>
Disturbances == {"overlap", "ingest", "tear", "crash"}

VARIABLES
    jobs,       \* each job file: absent, torn (partly written) or whole
    disk,       \* the result file at each path, and the temporary ones
    emits,      \* times each job was emitted
    pc,         \* the next step of each worker
    cur,        \* the job whose file it took
    todo,       \* result files it has listed and not read yet
    out,        \* the result it is about to write
    executed,   \* whether it got that result by executing the job
    handle,     \* where the file is that it has open for writing
    \* history, read by properties only
    runs,       \* executions by key, less those whose process died before it
                \* could write their result, or failed to
    disturbed   \* what has happened around the workers so far

files == <<jobs, disk, handle>>
locals == <<cur, todo, out, executed>>
history == <<runs, disturbed>>
vars == <<files, emits, pc, locals, history>>

Steps == {"down", "idle", "parse", "list", "read", "execute", "write", "fill", "rename",
          "raised", "move"}
Working == Steps \ {"down", "idle"}
Writing == {"write", "fill", "rename"}

TypeOK ==
    /\ jobs \in [Ids -> {"absent", "torn", "whole"}]
    /\ disk \in [Places -> Contents]
    /\ emits \in [Ids -> 0..MaxEmit]
    /\ pc \in [Workers -> Steps]
    /\ cur \in [Workers -> 0..MaxId]
    /\ todo \in [Workers -> SUBSET Paths]
    /\ out \in [Workers -> Result \cup {None}]
    /\ executed \in [Workers -> BOOLEAN]
    /\ handle \in [Workers -> Places \cup {Closed}]
    /\ runs \in [Keys -> Nat]
    /\ disturbed \subseteq Disturbances

Init ==
    /\ jobs = [i \in Ids |-> "absent"]
    /\ disk = [p \in Places |-> None]
    /\ emits = [i \in Ids |-> 0]
    /\ pc = [w \in Workers |-> "down"]
    /\ cur = [w \in Workers |-> 0]
    /\ todo = [w \in Workers |-> {}]
    /\ out = [w \in Workers |-> None]
    /\ executed = [w \in Workers |-> FALSE]
    /\ handle = [w \in Workers |-> Closed]
    /\ runs = [k \in Keys |-> 0]
    /\ disturbed = {}

-----------------------------------------------------------------------------
(* Files. *)

\* A rename replaces what was there.  Who has the moved file open follows it; who has
\* the replaced one open writes to a file that has no name any more.
Rename(from, to) ==
    /\ disk' = [disk EXCEPT ![to] = disk[from], ![from] = None]
    /\ handle' = [w \in Workers |-> IF handle[w] = from THEN to
                                   ELSE IF handle[w] = to THEN Closed ELSE handle[w]]

-----------------------------------------------------------------------------
(* Automator. *)

Disturb(what) == disturbed' = disturbed \cup what

Emit(i) ==
    /\ jobs[i] = "absent"
    /\ emits[i] < MaxEmit
    /\ emits' = [emits EXCEPT ![i] = @ + 1]
    /\ \/ jobs' = [jobs EXCEPT ![i] = "whole"] /\ UNCHANGED disturbed
       \/ jobs' = [jobs EXCEPT ![i] = "torn"] /\ Disturb({"tear"})
    /\ UNCHANGED <<disk, handle, pc, locals, runs>>

Complete(i) ==
    /\ jobs[i] = "torn"
    /\ jobs' = [jobs EXCEPT ![i] = "whole"]
    /\ UNCHANGED <<disk, handle, emits, pc, locals, history>>

\* results/x is renamed to processed/x, over what an earlier emission left.
Ingest(i) ==
    /\ disk[<<"results", i>>] # None
    /\ Rename(<<"results", i>>, <<"processed", i>>)
    /\ Disturb(IF \E w \in Workers : pc[w] = "read" THEN {"ingest"} ELSE {})
    /\ UNCHANGED <<jobs, emits, pc, locals, runs>>

-----------------------------------------------------------------------------
(* A worker. *)

GoTo(w, step) == pc' = [pc EXCEPT ![w] = step]

\* Leaving _consume, or the process, its local variables are gone.
Leave(w, step) ==
    /\ GoTo(w, step)
    /\ cur' = [cur EXCEPT ![w] = 0]
    /\ todo' = [todo EXCEPT ![w] = {}]
    /\ out' = [out EXCEPT ![w] = None]
    /\ executed' = [executed EXCEPT ![w] = FALSE]

Start(w) ==
    /\ pc[w] = "down"
    /\ GoTo(w, "idle")
    /\ UNCHANGED <<files, emits, locals, history>>

\* run_once: pending[0], which another worker may be working on already.
Take(w) ==
    /\ pc[w] = "idle"
    /\ \E i \in Ids :
          /\ jobs[i] # "absent"
          /\ \A j \in 1..(i - 1) : jobs[j] = "absent"
          /\ cur' = [cur EXCEPT ![w] = i]
    /\ Disturb(IF \E v \in Workers \ {w} : pc[v] \in Working
               THEN {"overlap"} ELSE {})
    /\ GoTo(w, "parse")
    /\ UNCHANGED <<files, emits, todo, out, executed, runs>>

\* Mutant of Parse: the except clause moves a bad file away without a result.
ParseSilently(w) ==
    /\ pc[w] = "parse"
    /\ GoTo(w, IF jobs[cur[w]] = "whole" THEN "list" ELSE "move")
    /\ UNCHANGED <<files, emits, cur, todo, out, executed, history>>

\* The except clause: a file that is gone or does not parse is answered under
\* its name, with the key "unknown".
Parse(w) ==
    /\ pc[w] = "parse"
    /\ IF jobs[cur[w]] = "whole"
       THEN GoTo(w, "list") /\ UNCHANGED out
       ELSE /\ out' = [out EXCEPT ![w] = [key |-> "unknown", status |-> "failed"]]
            /\ GoTo(w, "write")
    /\ UNCHANGED <<files, emits, cur, todo, executed, history>>

\* Mutant of List: only results/ is searched.
ListResults(w) ==
    /\ pc[w] = "list"
    /\ todo' = [todo EXCEPT ![w] = {p \in Paths : p[1] = "results" /\ disk[p] # None}]
    /\ GoTo(w, "read")
    /\ UNCHANGED <<files, emits, cur, out, executed, history>>

\* Both globs.  A result that moves between them is in both lists, and is read
\* in processed/ first, so taking them as one step leaves no behaviour out.
List(w) ==
    /\ pc[w] = "list"
    /\ todo' = [todo EXCEPT ![w] = {p \in Paths : disk[p] # None}]
    /\ GoTo(w, "read")
    /\ UNCHANGED <<files, emits, cur, out, executed, history>>

\* sorted(result_paths): all of processed/ before results/, each by name.
Before(p, q) == \/ p[1] = "processed" /\ q[1] = "results"
                \/ p[1] = q[1] /\ p[2] <= q[2]

\* What a worker does with the first file left, which replays as r.
ReadAs(w, p, r) ==
    /\ pc[w] = "read"
    /\ p \in todo[w]
    /\ \A q \in todo[w] : Before(p, q)
    /\ IF disk[p].key = KeyOf[cur[w]]
       THEN /\ out' = [out EXCEPT ![w] = r]
            /\ todo' = [todo EXCEPT ![w] = {}]
            /\ GoTo(w, "write")
       ELSE /\ todo' = [todo EXCEPT ![w] = @ \ {p}]
            /\ UNCHANGED <<out, pc>>
    /\ UNCHANGED <<files, emits, cur, executed, history>>

\* Mutant of Read: a replay is reported as a validated job.
ReadAsValidated(w) ==
    \E p \in todo[w] : ReadAs(w, p, [disk[p] EXCEPT !.status = "validated"])

\* Mutant of Read: a replay loses the key of what it replays.
ReadAnonymous(w) ==
    \E p \in todo[w] : ReadAs(w, p, [disk[p] EXCEPT !.key = "unknown"])

\* A file that has gone, does not parse or holds another key is skipped; the first match
\* is replayed under the new job's id.
Read(w) == \E p \in todo[w] : ReadAs(w, p, disk[p])

NotFound(w) ==
    /\ pc[w] = "read"
    /\ todo[w] = {}
    /\ GoTo(w, "execute")
    /\ UNCHANGED <<files, emits, locals, history>>

\* Mutant of Outcome: a refusal has a status of its own.
OutcomeUnlisted(i) == IF KindOf[i] = "gated" THEN {"refused"} ELSE {"failed"}

Outcome(i) == CASE KindOf[i] = "gated" -> {"blocked"}
                [] KindOf[i] = "invalid" -> {"failed"}
                [] KindOf[i] = "allowed" -> {"validated", "failed"}

\* _execute: the authorization gate first; then an adapter, whose validators
\* decide the status.  What it raises becomes a "failed" result of the key.
Execute(w) ==
    /\ pc[w] = "execute"
    /\ LET k == KeyOf[cur[w]]
           allowed == KindOf[cur[w]] = "allowed"
       IN  /\ \E s \in Outcome(cur[w]) :
                 out' = [out EXCEPT ![w] = [key |-> k, status |-> s]]
           /\ executed' = [executed EXCEPT ![w] = allowed]
           /\ runs' = IF allowed THEN [runs EXCEPT ![k] = @ + 1] ELSE runs
    /\ GoTo(w, "write")
    /\ UNCHANGED <<files, emits, cur, todo, disturbed>>

\* The result is named after the job_id, or the file if that did not parse.
Nameable(w) == out[w].key = "unknown" \/ cur[w] \notin Unwritable

\* The result of an execution is lost.
Lose(w) ==
    runs' = IF executed[w] THEN [runs EXCEPT ![KeyOf[cur[w]]] = @ - 1] ELSE runs

\* _write_result is outside the try: if it raises, the worker ends, and the job file
\* stays where it is.
GiveUp(w) == GoTo(w, "raised") /\ Lose(w)

\* temp.write_text opens the file, and empties the one that is there, unless there can
\* be no such file or the system refuses.
Open(w) ==
    /\ pc[w] = "write"
    /\ \/ /\ Nameable(w)
          /\ disk' = [disk EXCEPT ![Temp(cur[w])] = Empty]
          /\ handle' = [handle EXCEPT ![w] = Temp(cur[w])]
          /\ GoTo(w, "fill")
          /\ UNCHANGED runs
       \/ GiveUp(w) /\ UNCHANGED <<disk, handle>>
    /\ UNCHANGED <<jobs, emits, locals, disturbed>>

\* The file a worker has open becomes one of these texts, wherever it is by now, and is
\* closed.
Put(w, texts) ==
    /\ disk' \in IF handle[w] = Closed THEN {disk}
                 ELSE {[disk EXCEPT ![handle[w]] = t] : t \in texts}
    /\ handle' = [handle EXCEPT ![w] = Closed]

\* Over what another worker wrote since the file was opened, a result leaves that one's
\* tail behind unless it is at least as long.
Over(w) == IF disk[handle[w]] = Empty THEN {out[w]} ELSE {out[w], Torn}

Fill(w) ==
    /\ pc[w] = "fill"
    /\ Put(w, Over(w))
    /\ GoTo(w, "rename")
    /\ UNCHANGED <<jobs, emits, locals, history>>

\* A full disk: nothing is written, or not all.
FailToFill(w) ==
    /\ pc[w] = "fill"
    /\ Put(w, {disk[handle[w]], Torn})
    /\ GiveUp(w)
    /\ UNCHANGED <<jobs, emits, locals, disturbed>>

\* temp.replace(path), whoever filled that file; another worker may have renamed it.
Publish(w) ==
    /\ pc[w] = "rename"
    /\ disk[Temp(cur[w])] # None
    /\ Rename(Temp(cur[w]), <<"results", cur[w]>>)
    /\ GoTo(w, "move")
    /\ UNCHANGED <<jobs, emits, locals, history>>

FailToPublish(w) ==
    /\ pc[w] = "rename"
    /\ GiveUp(w)
    /\ UNCHANGED <<files, emits, locals, disturbed>>

Raise(w) ==
    /\ pc[w] = "raised"
    /\ Leave(w, "down")
    /\ UNCHANGED <<files, emits, history>>

\* Mutant of Move: a file that does not parse stays in the queue.
MoveParsed(w) ==
    /\ pc[w] = "move"
    /\ CASE jobs[cur[w]] = "absent" -> Leave(w, "down") /\ UNCHANGED jobs
         [] jobs[cur[w]] = "torn" -> Leave(w, "idle") /\ UNCHANGED jobs
         [] OTHER -> Leave(w, "idle") /\ jobs' = [jobs EXCEPT ![cur[w]] = "absent"]
    /\ UNCHANGED <<disk, handle, emits, history>>

\* path.replace(destination), outside the try: without the file, the worker ends.
Move(w) ==
    /\ pc[w] = "move"
    /\ IF jobs[cur[w]] = "absent"
       THEN Leave(w, "down") /\ UNCHANGED jobs
       ELSE Leave(w, "idle") /\ jobs' = [jobs EXCEPT ![cur[w]] = "absent"]
    /\ UNCHANGED <<disk, handle, emits, history>>

\* The process is killed; what it had open is closed as it is, or cut.
Crash(w) ==
    /\ pc[w] \notin {"down", "raised"}
    /\ IF pc[w] \in Writing THEN Lose(w) ELSE UNCHANGED runs
    /\ Put(w, {disk[handle[w]], Torn})
    /\ Disturb({"crash"})
    /\ Leave(w, "down")
    /\ UNCHANGED <<jobs, emits>>

-----------------------------------------------------------------------------
Consume(w) ==
    \/ Take(w)
    \/ Parse(w)
    \/ List(w)
    \/ Read(w)
    \/ NotFound(w)
    \/ Execute(w)
    \/ Open(w)
    \/ Fill(w)
    \/ FailToFill(w)
    \/ Publish(w)
    \/ FailToPublish(w)
    \/ Raise(w)
    \/ Move(w)

Next ==
    \/ \E i \in Ids : Emit(i) \/ Complete(i) \/ Ingest(i)
    \/ \E w \in Workers : Start(w) \/ Consume(w) \/ Crash(w)

Spec == Init /\ [][Next]_vars

Fairness == \A w \in Workers : WF_vars(Start(w)) /\ WF_vars(Consume(w))

FairSpec == Spec /\ Fairness

-----------------------------------------------------------------------------
(* Properties. *)

Quiet(allowed) == disturbed \subseteq allowed

\* One worker, whole job files and an Automator that does not ingest during a
\* lookup: a key is executed once, and again only for an execution whose process died
\* or failed before its result was in place.
ExecutedOncePerLoss ==
    Quiet({"crash"}) => \A k \in Keys : runs[k] <= 1

\* Whatever crashes, fails and tears: a job file that was emitted is still in jobs/ or
\* has a result under its id, whole as long as workers have not overlapped.  Two on one
\* job share its temporary file, so that one may put there what the other has just
\* emptied or half overwritten, and move the job away over it; but even then, none
\* disappears without a file under its id.
NoJobVanishes == \A i \in Ids : emits[i] > 0 =>
    \/ jobs[i] # "absent"
    \/ \E d \in Dirs : disk[<<d, i>>] \in
          IF "overlap" \in disturbed THEN Contents \ {None} ELSE Result

Recorded(k) == \E p \in Paths : disk[p].key = k

\* Without torn files or a second worker, a key that has a result on disk never
\* loses its last one: replays, ingestion over an older emission and crashes
\* included.
RecordsAreKept ==
    [][\A k \in Keys : (Recorded(k) /\ disturbed' \subseteq {"crash", "ingest"})
          => Recorded(k)']_vars

\* Replays agree: all results of one key report the same status.
ReplaysAgree == Quiet({"crash"}) => \A p, q \in Paths :
    (disk[p].key = disk[q].key /\ disk[p].key \in Keys)
        => disk[p].status = disk[q].status

\* Once the workers are no longer killed and can write their results, every job file is
\* consumed, whatever ended them before, up to the first whose id cannot be a file
\* name: that one ends every worker that takes it.
EveryJobConsumed ==
    <>[][\A w \in Workers :
            ~Crash(w) /\ (pc'[w] = "raised" => cur[w] \in Unwritable)]_vars
        => \A i \in Ids : (\A u \in Unwritable : i < u) =>
               (jobs[i] # "absent" ~> jobs[i] = "absent")

\* automator_queue.py:203: results Automator has moved into processed/ "must
\* continue to suppress duplicate execution after ledger ingestion".
IngestionKeepsSuppressing ==
    Quiet({"ingest"}) => \A k \in Keys : runs[k] <= 1
===============================================================================
