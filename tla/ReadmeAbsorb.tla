----------------------------- MODULE ReadmeAbsorb -----------------------------
(***************************************************************************)
(* Project memory (readme_absorb.py) as the HTTP bridge and local          *)
(* processes use it.                                                       *)
(*                                                                         *)
(* An absorb loads .warpblack/readme_state.json, adds its facts, writes    *)
(* the file back in place and, when the message holds the trigger, writes  *)
(* README.generated.md.  Handler threads of the bridge do all of it under  *)
(* readme_lock (server.py); the CLI and the GitHub watcher run the same    *)
(* code in processes of their own, without a lock.  write_text truncates a *)
(* file, then fills it: each is a step, and the process may die between,   *)
(* or the second fail (a full disk, a character UTF-8 cannot encode).      *)
(*                                                                         *)
(* A fact stands for an item of one of the three sections, up to the       *)
(* normalization _append_unique deduplicates by.                           *)
(***************************************************************************)
EXTENDS FiniteSets

CONSTANTS
    Absorbs,    \* absorb requests, each made once
    Facts,
    Bundles     \* the sets of facts a request may bring

Doors == {"bridge", "local"}

VARIABLES
    memory,     \* readme_state.json
    page,       \* README.generated.md
    lock,       \* who holds readme_lock: nobody or one request
    pc, ask, draft,     \* of each request
    \* history, read by properties only
    odd         \* what has happened besides one bridge that stays up and
                \* can write the memory

files == <<memory, page>>
vars == <<files, lock, pc, ask, draft, odd>>

\* "mixed": two writers filled it, and the longer one's tail is left behind, or a
\* write ended in the middle.
File == [is : {"absent", "empty", "whole", "mixed"}, facts : SUBSET Facts]
Whole(fs) == [is |-> "whole", facts |-> fs]
Absent == [is |-> "absent", facts |-> {}]
Empty == [is |-> "empty", facts |-> {}]
Mixed == [is |-> "mixed", facts |-> {}]

Requests == [facts : Bundles, trigger : BOOLEAN, door : Doors]
Unasked == [facts |-> {}, trigger |-> FALSE, door |-> "local"]
Ended == {"told", "refused", "dead"}
Steps == {"new", "lock", "load", "truncate", "fill", "truncate_page", "fill_page"}
            \cup Ended

TypeOK ==
    /\ memory \in File
    /\ page \in File
    /\ lock \subseteq Absorbs
    /\ pc \in [Absorbs -> Steps]
    /\ ask \in [Absorbs -> Requests \cup {Unasked}]
    /\ draft \in [Absorbs -> SUBSET Facts]
    /\ odd \subseteq {"overlap", "crash", "fail"}

Init ==
    /\ memory = Absent
    /\ page = Absent
    /\ lock = {}
    /\ pc = [a \in Absorbs |-> "new"]
    /\ ask = [a \in Absorbs |-> Unasked]
    /\ draft = [a \in Absorbs |-> {}]
    /\ odd = {}

-----------------------------------------------------------------------------
Running(a) == pc[a] \notin Ended \cup {"new"}

GoTo(a, step) == pc' = [pc EXCEPT ![a] = step]

\* The with block ends: the thread's lock, if it is the bridge's, is free.
Unlock(a) == lock' = IF ask[a].door = "bridge" THEN {} ELSE lock

Leave(a, step) == GoTo(a, step) /\ Unlock(a)

Ask(a, r) ==
    /\ pc[a] = "new"
    /\ ask' = [ask EXCEPT ![a] = r]
    /\ GoTo(a, IF r.door = "bridge" THEN "lock" ELSE "load")
    /\ odd' = IF \E b \in Absorbs : Running(b) /\ "local" \in {r.door, ask[b].door}
              THEN odd \cup {"overlap"} ELSE odd
    /\ UNCHANGED <<files, lock, draft>>

\* Mutant of Lock: the handler does not take readme_lock.
LockNothing(a) ==
    /\ pc[a] = "lock"
    /\ GoTo(a, "load")
    /\ UNCHANGED <<files, lock, ask, draft, odd>>

\* with self.server.readme_lock
Lock(a) ==
    /\ pc[a] = "lock"
    /\ lock = {}
    /\ lock' = {a}
    /\ GoTo(a, "load")
    /\ UNCHANGED <<files, ask, draft, odd>>

\* A new state if there is no file; a file that does not parse raises, and so does a
\* blank project_name.
Load(a) ==
    /\ pc[a] = "load"
    /\ \/ /\ memory.is \in {"absent", "whole"}
          /\ draft' = [draft EXCEPT ![a] = memory.facts \cup ask[a].facts]
          /\ GoTo(a, "truncate")
          /\ UNCHANGED lock
       \/ Leave(a, "refused") /\ UNCHANGED draft
    /\ UNCHANGED <<files, ask, odd>>

\* write_text opens the file, which fails without a trace or empties it.
Truncate(a) ==
    /\ pc[a] = "truncate"
    /\ \/ memory' = Empty /\ GoTo(a, "fill") /\ UNCHANGED lock
       \/ Leave(a, "refused") /\ UNCHANGED memory
    /\ UNCHANGED <<page, ask, draft, odd>>

\* Over what another process filled since, the text leaves that one's tail
\* unless it is at least as long.
Filled(file, fs) ==
    IF file.is = "empty" THEN {Whole(fs)} ELSE {Whole(fs), Mixed}

\* Mutant of Fill: the page is written after the lock is given back.
FillAndUnlock(a) ==
    /\ pc[a] = "fill"
    /\ memory' \in Filled(memory, draft[a])
    /\ Leave(a, IF ask[a].trigger THEN "truncate_page" ELSE "told")
    /\ UNCHANGED <<page, ask, draft, odd>>

Fill(a) ==
    /\ pc[a] = "fill"
    /\ memory' \in Filled(memory, draft[a])
    /\ IF ask[a].trigger
       THEN GoTo(a, "truncate_page") /\ UNCHANGED lock
       ELSE Leave(a, "told")
    /\ UNCHANGED <<page, ask, draft, odd>>

\* The text cannot be encoded, or not all of it written: the request is answered with
\* an error, and the file stays as empty as it is, or cut.
FailToFill(a) ==
    /\ pc[a] = "fill"
    /\ memory' \in {memory, Mixed}
    /\ Leave(a, "refused")
    /\ odd' = odd \cup {"fail"}
    /\ UNCHANGED <<page, ask, draft>>

TruncatePage(a) ==
    /\ pc[a] = "truncate_page"
    /\ \/ page' = Empty /\ GoTo(a, "fill_page") /\ UNCHANGED lock
       \/ Leave(a, "refused") /\ UNCHANGED page
    /\ UNCHANGED <<memory, ask, draft, odd>>

\* render(state): the state this request saved.
FillPage(a) ==
    /\ pc[a] = "fill_page"
    /\ \/ page' \in Filled(page, draft[a]) /\ Leave(a, "told")
       \/ page' \in {page, Mixed} /\ Leave(a, "refused")
    /\ UNCHANGED <<memory, ask, draft, odd>>

\* The bridge dies with all its threads and its lock; a local process alone.
Victims(door) == {a \in Absorbs : Running(a) /\ ask[a].door = door}

\* The processes of these requests end where they are.
Kill(as) ==
    /\ pc' = [a \in Absorbs |-> IF a \in as THEN "dead" ELSE pc[a]]
    /\ lock' = lock \ as
    /\ odd' = odd \cup {"crash"}
    /\ UNCHANGED <<files, ask, draft>>

Crash ==
    \/ Kill(Victims("bridge"))
    \/ \E a \in Victims("local") : Kill({a})

-----------------------------------------------------------------------------
Step(a) ==
    \/ \E r \in Requests : Ask(a, r)
    \/ Lock(a)
    \/ Load(a)
    \/ Truncate(a)
    \/ Fill(a)
    \/ FailToFill(a)
    \/ TruncatePage(a)
    \/ FillPage(a)

Next == Crash \/ \E a \in Absorbs : Step(a)

Spec == Init /\ [][Next]_vars

-----------------------------------------------------------------------------
(* Properties. *)

Told(a) == pc[a] = "told"

\* docs/PROTOCOL.md:66, "absorption persists state": with one bridge that stays up,
\* as long as no write of the memory failed after the file was emptied, what any
\* answered absorb brought is in the file whenever the file can be read, and the file
\* can be read whenever nobody is writing it, however the bridge's threads interleave
\* and whatever else of a request fails.
AbsorbedIsKept == odd = {} =>
    /\ \A a \in Absorbs :
          (Told(a) /\ memory.is = "whole") => ask[a].facts \subseteq memory.facts
    /\ memory.is \in {"empty", "mixed"} => (\E a \in Absorbs : pc[a] = "fill")

\* With one bridge, README.generated.md never shows less than a request that had it
\* written was told: a later request cannot put an older page over it.
PageShowsWhatWasTold == odd = {} =>
    \A a \in Absorbs :
        (Told(a) /\ ask[a].trigger /\ page.is = "whole") => ask[a].facts \subseteq page.facts
===============================================================================
