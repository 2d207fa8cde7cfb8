------------------------------- MODULE Execution -------------------------------
(***************************************************************************)
(* Commands through TerminalExecutor (executor.py) and its ledger          *)
(* (audit.py), from the doors that lead there: POST /v1/execute, straight  *)
(* or by the XARVIS adapter (xarvis.py), the typed capabilities files.read *)
(* and git.status (capabilities.py) and the command line.                  *)
(*                                                                         *)
(* The policy decides, the program runs, a line goes to the ledger, the    *)
(* caller is told.  The ledger is one file that all processes append to.   *)
(* A line that a full disk cuts short has no end, so that the next one, of *)
(* whichever process, is written into it and neither can be read.          *)
(*                                                                         *)
(* An append that fails closes its descriptor twice.  Between the two, a   *)
(* thread of the bridge may be given the number: the second closes what    *)
(* that thread has opened, and its file object goes on with a number that  *)
(* is free, or denotes what yet another thread has opened.                 *)
(***************************************************************************)
EXTENDS Naturals, Sequences, FiniteSets, Policy

CONSTANTS
    Calls,      \* each made once; a client that retries makes another
    Commands,   \* the commands asked for, approval aside
    MaxCuts,    \* bound: ledger writes cut short
    Numbers,    \* descriptors of the bridge that an append may be given
    None

VARIABLES
    pc, ask, cmd,   \* of each call; cmd is what the executor is given
    outcome,        \* of each call: how its program ended, if it was started
    ledger,         \* the complete lines that parse, and those that do not
    unended,        \* the last line has no end
    descriptor,     \* of the bridge: what each number denotes
    fd,             \* of each call in the bridge: the number its append was given
    theirs,         \* the numbers that files of other threads of the bridge hold
    \* history, read by properties only
    cuts,           \* how many lines were cut short
    failed          \* an append of the bridge has failed

file == <<ledger, unended, cuts>>
table == <<descriptor, fd, theirs>>
vars == <<pc, ask, cmd, outcome, file, table, failed>>

\* claims: the request says it is approved; granted: the operator approves it.
Requests ==
    [door : {"http", "local"}, command : Commands, claims : BOOLEAN]
        \cup [door : {"xarvis"}, command : Commands, claims : BOOLEAN, granted : BOOLEAN]
        \cup [door : {"capability"}]
NoRequest == [door |-> "none"]
NoCommand == [program |-> "none"]

Results == {"zero", "non-zero", "timeout"}
\* "garbage": its output, in whole or as far as it got, is not text, or its timeout_s
\* was not a number.
Outcomes == Results \cup {"none", "running", "garbage"}
Ended == {"told", "refused", "error", "dead"}
Steps == {"new", "resolve", "decide", "start", "run", "record", "append", "close"}
            \cup Ended

Line == [event : {"result"}, call : Calls, outcome : Results]
            \cup [event : {"denied"}, call : Calls]
            \cup [event : {"unreadable"}]
Unreadable == [event |-> "unreadable"]

TypeOK ==
    /\ pc \in [Calls -> Steps]
    /\ ask \in [Calls -> Requests \cup {NoRequest}]
    /\ cmd \in [Calls -> Command \cup {NoCommand}]
    /\ outcome \in [Calls -> Outcomes]
    /\ ledger \in Seq(Line)
    /\ unended \in BOOLEAN
    /\ descriptor \in [Numbers -> {"free", "ledger", "other"}]
    /\ fd \in [Calls -> Numbers \cup {None}]
    /\ theirs \subseteq Numbers
    /\ cuts \in 0 .. MaxCuts
    /\ failed \in BOOLEAN

Init ==
    /\ pc = [c \in Calls |-> "new"]
    /\ ask = [c \in Calls |-> NoRequest]
    /\ cmd = [c \in Calls |-> NoCommand]
    /\ outcome = [c \in Calls |-> "none"]
    /\ ledger = <<>>
    /\ unended = FALSE
    /\ descriptor = [n \in Numbers |-> "free"]
    /\ fd = [c \in Calls |-> None]
    /\ theirs = {}
    /\ cuts = 0
    /\ failed = FALSE

-----------------------------------------------------------------------------
Running(c) == pc[c] \notin Ended \cup {"new"}

GoTo(c, step) == pc' = [pc EXCEPT ![c] = step]

\* What the capabilities run: cat or git status, never approved.  The policy takes a
\* file of the workspace whose name begins with ~ for one that is elsewhere.
Capability(program, sub, confined) ==
    [program |-> program, sub |-> sub, risky |-> FALSE, confined |-> confined,
     cwd |-> TRUE, timely |-> TRUE, approved |-> FALSE]
Reads == {Capability("reader", "none", TRUE), Capability("reader", "none", FALSE),
          Capability("git", "safe", TRUE)}

\* The executor's approved flag: the request's own, or, by XARVIS, the caller's.
Approved(r) == IF r.door = "xarvis" THEN r.granted ELSE r.claims

\* XarvisAdapter: a payload that claims approval is refused.
Forbidden(r) == r.door = "xarvis" /\ r.claims

Ask(c, r) ==
    /\ pc[c] = "new"
    /\ ask' = [ask EXCEPT ![c] = r]
    /\ IF Forbidden(r)
       THEN GoTo(c, "refused") /\ UNCHANGED cmd
       ELSE IF r.door = "capability"
       THEN GoTo(c, "resolve") /\ \E k \in Reads : cmd' = [cmd EXCEPT ![c] = k]
       ELSE /\ GoTo(c, "decide")
            /\ cmd' = [cmd EXCEPT ![c] = [r.command EXCEPT !.approved = Approved(r)]]
    /\ UNCHANGED <<outcome, file, table, failed>>

\* _resolve_target, _read_file, _git_status: the target is there, inside the workspace,
\* and of the right kind and size.
Resolve(c) ==
    /\ pc[c] = "resolve"
    /\ \E step \in {"decide", "refused"} : GoTo(c, step)
    /\ UNCHANGED <<ask, cmd, outcome, file, table, failed>>

Decided(c) ==
    /\ pc[c] = "decide"
    /\ GoTo(c, IF Allowed(cmd[c]) THEN "start" ELSE "record")
    /\ UNCHANGED <<ask, cmd, outcome, file, table, failed>>

\* subprocess.run: there is no such program, or it starts.
Start(c) ==
    /\ pc[c] = "start"
    /\ \/ GoTo(c, "error") /\ UNCHANGED outcome
       \/ GoTo(c, "run") /\ outcome' = [outcome EXCEPT ![c] = "running"]
    /\ UNCHANGED <<ask, cmd, file, table, failed>>

\* It ends or is timed out; output that is not text raises ValueError, and so does a
\* timeout_s that is not a number, which ends the program at once.
End(c) ==
    /\ pc[c] = "run"
    /\ \E how \in Results \cup {"garbage"} :
         /\ outcome' = [outcome EXCEPT ![c] = how]
         /\ GoTo(c, IF how = "garbage" THEN "error" ELSE "record")
    /\ UNCHANGED <<ask, cmd, file, table, failed>>

\* Mutant of LineOf: a timeout is recorded as an exit.
LineOfExit(c) ==
    IF outcome[c] = "none" THEN [event |-> "denied", call |-> c]
    ELSE [event |-> "result", call |-> c,
          outcome |-> IF outcome[c] = "zero" THEN "zero" ELSE "non-zero"]

\* record_result, record_denied
LineOf(c) ==
    IF outcome[c] = "none" THEN [event |-> "denied", call |-> c]
    ELSE [event |-> "result", call |-> c, outcome |-> outcome[c]]

\* A whole line is appended, into the one before it if that has no end.
Written(line) ==
    /\ ledger' = IF unended THEN ledger ELSE Append(ledger, line)
    /\ unended' = FALSE
    /\ UNCHANGED cuts

\* A part of a line is, to make a line that cannot be read.
Cut ==
    /\ cuts < MaxCuts
    /\ cuts' = cuts + 1
    /\ ledger' = IF unended THEN ledger ELSE Append(ledger, Unreadable)
    /\ unended' = TRUE

InBridge(c) == ask[c].door # "local"

\* Mutant of Open: the line is written while the program may still run.
OpenEarly(c) ==
    /\ pc[c] \in {"run", "record"}
    /\ GoTo(c, "append")
    /\ IF InBridge(c)
       THEN \E n \in Numbers :
              /\ descriptor[n] = "free"
              /\ descriptor' = [descriptor EXCEPT ![n] = "ledger"]
              /\ fd' = [fd EXCEPT ![c] = n]
       ELSE UNCHANGED <<descriptor, fd>>
    /\ UNCHANGED <<ask, cmd, outcome, file, theirs, failed>>

\* os.open, which may fail; any free number may be the lowest.
Open(c) ==
    /\ pc[c] = "record"
    /\ \/ GoTo(c, "error") /\ UNCHANGED <<descriptor, fd>>
       \/ /\ GoTo(c, "append")
          /\ IF InBridge(c)
             THEN \E n \in Numbers :
                    /\ descriptor[n] = "free"
                    /\ descriptor' = [descriptor EXCEPT ![n] = "ledger"]
                    /\ fd' = [fd EXCEPT ![c] = n]
             ELSE UNCHANGED <<descriptor, fd>>
    /\ UNCHANGED <<ask, cmd, outcome, file, theirs, failed>>

Denotes(c) == IF InBridge(c) THEN descriptor[fd[c]] ELSE "ledger"

\* Whatever the number denotes is closed.
Closes(c) ==
    IF InBridge(c) THEN descriptor' = [descriptor EXCEPT ![fd[c]] = "free"]
    ELSE UNCHANGED descriptor

\* The line is written, into the ledger or whatever the number denotes now; the with
\* block closes it, and the caller is told a result or the policy's refusal.
Answer(c) ==
    /\ pc[c] = "append"
    /\ \/ Denotes(c) = "ledger" /\ Written(LineOf(c))
       \/ Denotes(c) = "other" /\ UNCHANGED file
    /\ Closes(c)
    /\ fd' = [fd EXCEPT ![c] = None]
    /\ GoTo(c, IF outcome[c] = "none" THEN "refused" ELSE "told")
    /\ UNCHANGED <<ask, cmd, outcome, theirs, failed>>

\* Mutant of Fail: the exception ends in _append.
FailQuietly(c) ==
    /\ pc[c] = "append"
    /\ UNCHANGED file \/ Cut
    /\ Closes(c)
    /\ fd' = [fd EXCEPT ![c] = None]
    /\ GoTo(c, IF outcome[c] = "none" THEN "refused" ELSE "told")
    /\ UNCHANGED <<ask, cmd, outcome, theirs, failed>>

\* write, flush or fsync fails: nothing was written, or a part, or all of it.  The
\* with block closes the number, too.
Fail(c) ==
    /\ pc[c] = "append"
    /\ \/ UNCHANGED file
       \/ Denotes(c) = "ledger" /\ (Cut \/ Written(LineOf(c)))
    /\ Closes(c)
    /\ GoTo(c, IF InBridge(c) THEN "close" ELSE "error")
    /\ failed' = (failed \/ InBridge(c))
    /\ UNCHANGED <<ask, cmd, outcome, fd, theirs>>

\* os.close(fd) in the except clause; OSError leaves execute.
CloseAgain(c) ==
    /\ pc[c] = "close"
    /\ Closes(c)
    /\ fd' = [fd EXCEPT ![c] = None]
    /\ GoTo(c, "error")
    /\ UNCHANGED <<ask, cmd, outcome, file, theirs, failed>>

\* Another thread of the bridge opens a file, or takes a connection, and is given a
\* number that is free, one that an append still uses or is going to close.
OpenElsewhere(n) ==
    /\ descriptor[n] = "free"
    /\ \E c \in Calls : pc[c] \in {"append", "close"} /\ fd[c] = n
    /\ descriptor' = [descriptor EXCEPT ![n] = "other"]
    /\ theirs' = theirs \cup {n}
    /\ UNCHANGED <<pc, ask, cmd, outcome, file, fd, failed>>

\* It closes what it holds to be its own.
CloseElsewhere(n) ==
    /\ n \in theirs
    /\ descriptor' = [descriptor EXCEPT ![n] = "free"]
    /\ theirs' = theirs \ {n}
    /\ UNCHANGED <<pc, ask, cmd, outcome, file, fd, failed>>

Victims(door) ==
    {c \in Calls : Running(c) /\ (ask[c].door = "local") = (door = "local")}

\* A process ends with all its threads; the programs they started go on unwatched.
Kill(calls) ==
    /\ pc' = [c \in Calls |-> IF c \in calls THEN "dead" ELSE pc[c]]
    /\ fd' = [c \in Calls |-> IF c \in calls THEN None ELSE fd[c]]
    /\ UNCHANGED <<ask, cmd, outcome, file, failed>>

BridgeDies ==
    /\ Kill(Victims("bridge"))
    /\ descriptor' = [n \in Numbers |-> "free"]
    /\ theirs' = {}

LocalDies(c) == c \in Victims("local") /\ Kill({c}) /\ UNCHANGED <<descriptor, theirs>>

Step(c) ==
    \/ \E r \in Requests : Ask(c, r)
    \/ Resolve(c) \/ Decided(c) \/ Start(c) \/ End(c)
    \/ Open(c) \/ Answer(c) \/ Fail(c) \/ CloseAgain(c)

Elsewhere == \E n \in Numbers : OpenElsewhere(n) \/ CloseElsewhere(n)

Next ==
    \/ \E c \in Calls : Step(c) \/ LocalDies(c)
    \/ Elsewhere
    \/ BridgeDies

Spec == Init /\ [][Next]_vars

-----------------------------------------------------------------------------
(* Properties. *)

Started(c) == outcome[c] # "none"

\* What only reads inside the workspace, and so needs nobody's approval.
Harmless(k) ==
    /\ \/ k.program = "reader"
       \/ k.program = "git" /\ k.sub \in {"safe", "remote-read"}
    /\ ~k.risky /\ k.confined

\* A program that is started is never a denied one, runs inside the workspace and
\* for a bounded time, and if it may do more than read, was approved: by the
\* request, or, by XARVIS, by the operator and not by the request.
Sanctioned ==
    \A c \in Calls : Started(c) =>
        /\ cmd[c].program # "denied" /\ cmd[c].cwd /\ cmd[c].timely
        /\ \/ Harmless(cmd[c])
           \/ ask[c].door \in {"http", "local"} /\ ask[c].claims
           \/ ask[c].door = "xarvis" /\ ask[c].granted /\ ~ask[c].claims

Lines == {ledger[i] : i \in 1 .. Len(ledger)}

\* The ledger never misreports: a result line gives the outcome of a program that
\* was started, a denial is of a command that never was, and a call has one line.
LedgerTellsTrue ==
    /\ \A l \in Lines :
          /\ l.event = "result" => outcome[l.call] = l.outcome
          /\ l.event = "denied" => ~Started(l.call)
    /\ \A i, j \in 1 .. Len(ledger) :
          ledger[i].event # "unreadable" /\ ledger[j].event # "unreadable"
            /\ ledger[i].call = ledger[j].call => i = j

\* A call that was told a result or a policy's refusal.
Answered(c) == pc[c] = "told" \/ (pc[c] = "refused" /\ ask[c].door # "capability"
                                    /\ cmd[c] # NoCommand)

OnRecord(c) == \E l \in Lines : l.event # "unreadable" /\ l.call = c

\* What was answered is on record, however many processes and threads write: a line
\* cut short takes no more than one answered call's line with it.  After an append of
\* the bridge has failed nothing of the kind is certain any more.
AnsweredIsOnRecord == ~failed =>
    Cardinality({c \in Calls : Answered(c) /\ ~OnRecord(c)}) <= cuts
===============================================================================
