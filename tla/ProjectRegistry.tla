---------------------------- MODULE ProjectRegistry ----------------------------
(***************************************************************************)
(* The project registry (project_registry.py): one JSON file that several  *)
(* processes, the `projects` command (cli.py) and the Automator worker's   *)
(* workspace.import, load, change in memory and write back.                *)
(*                                                                         *)
(* A process reads the file once, when it starts.  A save writes a         *)
(* temporary file and renames it, so that the file is always whole, but    *)
(* nothing is locked: a save replaces what others saved since the load.    *)
(* A scan saves once for each folder it finds.  Folders come and go        *)
(* meanwhile.  What commands only read, and metadata, are left out.        *)
(*                                                                         *)
(* A project is its folder: an entry's id is a hash of the path.  Folders  *)
(* are numbered in the order of their paths' spelling.                     *)
(***************************************************************************)
EXTENDS Naturals, FiniteSets, FiniteSetsExt, Functions

CONSTANTS
    Calls,          \* processes, each of which makes one call
    Paths,          \* folders
    Marked,         \* those with a project marker, in the reach of a scan
    Above,          \* the folders a folder lies in
    FolderName,     \* the name of a folder, which others may share
    Statuses,       \* what `projects add --status` is given
    Positions,      \* 0-based positions asked for
    None

ASSUME PathsAssumption == Paths \subseteq Nat /\ IsFiniteSet(Paths)

ASSUME PositionsAssumption == Positions \subseteq Nat /\ None \notin Nat

VARIABLES
    file,           \* the registry file: path -> entry
    folders,        \* the folders that exist
    pc, ask,        \* of each call
    mem,            \* of each call: its entries, as it last loaded or saved them
    todo            \* of a scan: what is left to add of what it discovered

vars == <<file, folders, pc, ask, mem, todo>>

Entry == [order : Nat, status : Statuses \cup {"active", "missing"}]
IsRegistry(es) == DOMAIN es \subseteq Paths /\ es \in [DOMAIN es -> Entry]
Nothing == [p \in {} |-> 0]

\* "path" needs the folder to exist, "id" does not.
Keys == [by : {"id", "path"}, of : Paths] \cup [by : {"name"}, of : Range(FolderName)]

Requests ==
    [op : {"add"}, path : Paths, status : Statuses, position : Positions \cup {None}]
        \cup [op : {"scan"}]
        \cup [op : {"move"}, key : Keys, position : Positions]
        \cup [op : {"remove"}, key : Keys]
        \cup [op : {"refresh"}, key : Keys \cup {None}]

Ended == {"ok", "failed", "dead"}
Steps == {"new", "load", "discover", "save"} \cup Ended

TypeOK ==
    /\ IsRegistry(file)
    /\ folders \subseteq Paths
    /\ pc \in [Calls -> Steps]
    /\ ask \in [Calls -> Requests \cup {None}]
    /\ DOMAIN mem = Calls /\ \A c \in Calls : IsRegistry(mem[c])
    /\ todo \in [Calls -> SUBSET Paths]

-----------------------------------------------------------------------------
(* The entries in memory. *)

Size(es) == Cardinality(DOMAIN es)

\* How many of the entries ps come before p.
Place(es, ps, p) == Cardinality({q \in ps : es[q].order < es[p].order})

\* Mutant of Ranked: the step from 1-based positions is taken here too.
RankedShifted(es) ==
    [p \in DOMAIN es |-> [es[p] EXCEPT !.order = Place(es, DOMAIN es, p) - 1]]

\* _normalize_order
Ranked(es) ==
    [p \in DOMAIN es |-> [es[p] EXCEPT !.order = Place(es, DOMAIN es, p)]]

\* Mutant of Reordered: the position is not bounded by the number of the others.
ReorderedUnbounded(es, p, position) ==
    LET others == DOMAIN es \ {p}
        place(q) == Place(es, others, q)
    IN  [q \in DOMAIN es |-> [es[q] EXCEPT !.order =
            IF q = p THEN position
            ELSE IF place(q) < position THEN place(q) ELSE place(q) + 1]]

\* _reorder: taken out, then inserted at the position, or last.
Reordered(es, p, position) ==
    LET others == DOMAIN es \ {p}
        at == IF position < Cardinality(others) THEN position ELSE Cardinality(others)
        place(q) == Place(es, others, q)
    IN  [q \in DOMAIN es |-> [es[q] EXCEPT !.order =
            IF q = p THEN at
            ELSE IF place(q) < at THEN place(q) ELSE place(q) + 1]]

\* An entry there is takes the status, which is "active" unless one is given.
Added(es, p, status, position) ==
    LET known == p \in DOMAIN es
        put == [q \in DOMAIN es \cup {p} |->
                    [order |-> IF q \in DOMAIN es THEN es[q].order ELSE Size(es),
                     status |-> IF q = p THEN status ELSE es[q].status]]
    IN  IF position # None THEN Reordered(put, p, position)
        ELSE IF known THEN put ELSE Ranked(put)

\* Mutant of Removed: the others keep their orders.
RemovedOnly(es, p) == Restrict(es, DOMAIN es \ {p})

Removed(es, p) == Ranked(Restrict(es, DOMAIN es \ {p}))

\* Mutant of Refreshed: a folder that is gone loses its entry.
RefreshedPruned(es, ps) == Ranked(Restrict(es, DOMAIN es \ (ps \ folders)))

\* A folder that is gone marks its entry; one that is back changes only metadata.
Refreshed(es, ps) ==
    [p \in DOMAIN es |->
        IF p \in ps \ folders THEN [es[p] EXCEPT !.status = "missing"] ELSE es[p]]

\* get: the entries a key names, one unless the name is unknown or ambiguous.
Named(es, k) ==
    CASE k.by = "id" -> DOMAIN es \cap {k.of}
      [] k.by = "path" -> DOMAIN es \cap {k.of} \cap folders
      [] OTHER -> {p \in DOMAIN es : FolderName[p] = k.of}

Get(es, k) == IF Cardinality(Named(es, k)) = 1 THEN Named(es, k) ELSE {}

-----------------------------------------------------------------------------
(* Behaviour. *)

\* Any registry and folders earlier calls may have left.
Init ==
    /\ \E S \in SUBSET Paths :
         file \in {es \in [S -> [order : 0 .. Cardinality(S) - 1, status : {"active"}]] :
                       \A p, q \in S : es[p].order = es[q].order => p = q}
    /\ folders \in SUBSET Paths
    /\ pc = [c \in Calls |-> "new"]
    /\ ask = [c \in Calls |-> None]
    /\ mem = [c \in Calls |-> Nothing]
    /\ todo = [c \in Calls |-> {}]

GoTo(c, step) == pc' = [pc EXCEPT ![c] = step]

\* The process ends, and what it had in memory with it.
End(c, step) ==
    /\ GoTo(c, step)
    /\ ask' = [ask EXCEPT ![c] = None]
    /\ mem' = [mem EXCEPT ![c] = Nothing]
    /\ todo' = [todo EXCEPT ![c] = {}]

\* What the CLI refuses, a position below 1 say, changes nothing and is left out.
Ask(c, r) ==
    /\ pc[c] = "new"
    /\ ask' = [ask EXCEPT ![c] = r]
    /\ GoTo(c, "load")
    /\ UNCHANGED <<file, folders, mem, todo>>

\* ProjectRegistry(): the entries, normalized.
Load(c) ==
    /\ pc[c] = "load"
    /\ mem' = [mem EXCEPT ![c] = Ranked(file)]
    /\ GoTo(c, IF ask[c].op = "scan" THEN "discover" ELSE "save")
    /\ UNCHANGED <<file, folders, ask, todo>>

\* _discover_projects: below a marked folder nothing is looked for.
Discover(c) ==
    /\ pc[c] = "discover"
    /\ LET here == Marked \cap folders
           outermost == {p \in here : Above[p] \cap here = {}}
       IN  IF outermost = {} THEN End(c, "ok")
           ELSE /\ todo' = [todo EXCEPT ![c] = outermost]
                /\ GoTo(c, "save")
                /\ UNCHANGED <<ask, mem>>
    /\ UNCHANGED <<file, folders>>

Ready(c, op) == pc[c] = "save" /\ ask[c].op = op

\* _save: the process's entries replace the file.
Save(es) == file' = es /\ UNCHANGED folders

Add(c) ==
    /\ Ready(c, "add")
    /\ ask[c].path \in folders
    /\ Save(Added(mem[c], ask[c].path, ask[c].status, ask[c].position))
    /\ End(c, "ok")

Move(c) ==
    /\ Ready(c, "move")
    /\ \E p \in Get(mem[c], ask[c].key) : Save(Reordered(mem[c], p, ask[c].position))
    /\ End(c, "ok")

Remove(c) ==
    /\ Ready(c, "remove")
    /\ \E p \in Get(mem[c], ask[c].key) : Save(Removed(mem[c], p))
    /\ End(c, "ok")

Refresh(c) ==
    /\ Ready(c, "refresh")
    /\ \/ ask[c].key = None /\ Save(Refreshed(mem[c], DOMAIN mem[c]))
       \/ /\ ask[c].key # None
          /\ \E p \in Get(mem[c], ask[c].key) : Save(Refreshed(mem[c], {p}))
    /\ End(c, "ok")

\* The next folder of a scan is added and saved: "active", whatever it was.
ScanOne(c) ==
    /\ Ready(c, "scan")
    /\ LET p == Min(todo[c])
           es == Added(mem[c], p, "active", None)
       IN  /\ p \in folders
           /\ Save(es)
           /\ IF todo[c] = {p} THEN End(c, "ok")
              ELSE /\ mem' = [mem EXCEPT ![c] = es]
                   /\ todo' = [todo EXCEPT ![c] = @ \ {p}]
                   /\ UNCHANGED <<pc, ask>>

\* ProjectRegistryError: no such folder, or no such project.  What a scan has saved
\* stays, and nothing else is saved.
Fail(c) ==
    /\ pc[c] = "save"
    /\ CASE ask[c].op = "add" -> ask[c].path \notin folders
         [] ask[c].op = "scan" -> Min(todo[c]) \notin folders
         [] OTHER -> ask[c].key # None /\ Get(mem[c], ask[c].key) = {}
    /\ End(c, "failed")
    /\ UNCHANGED <<file, folders>>

\* A process that dies before its rename leaves a temporary file nobody reads.
Die(c) ==
    /\ pc[c] \in {"load", "discover", "save"}
    /\ End(c, "dead")
    /\ UNCHANGED <<file, folders>>

\* The user makes a folder, or removes it or moves it away.
Toggle(p) ==
    /\ folders' = IF p \in folders THEN folders \ {p} ELSE folders \cup {p}
    /\ UNCHANGED <<file, pc, ask, mem, todo>>

Step(c) ==
    \/ \E r \in Requests : Ask(c, r)
    \/ Load(c) \/ Discover(c)
    \/ Add(c) \/ Move(c) \/ Remove(c) \/ Refresh(c) \/ ScanOne(c)
    \/ Fail(c) \/ Die(c)

Next ==
    \/ \E c \in Calls : Step(c)
    \/ \E p \in Paths : Toggle(p)

Spec == Init /\ [][Next]_vars

-----------------------------------------------------------------------------
(* Properties. *)

\* The entries of es are numbered 0, 1, 2 ...
Dense(es) == {es[p].order : p \in DOMAIN es} = 0 .. Size(es) - 1

\* The logical order stays a numbering without gaps or ties, in the file and in
\* every process, whatever adds, moves, removals and scans are interleaved:
\* positions and the listing are read off it.
OrderIsDense ==
    /\ Dense(file)
    /\ \A c \in Calls : Dense(mem[c])

\* c takes a step that saves.
Saves(c) ==
    /\ pc[c] = "save"
    /\ pc'[c] \in {"save", "ok"}
    /\ <<pc[c], todo[c]>> # <<pc'[c], todo'[c]>>

\* What the call of c may take away, and what it puts in a place of its own.
Removes(c) == IF ask[c].op = "remove" THEN Get(mem[c], ask[c].key) ELSE {}
Puts(c) ==
    CASE ask[c].op = "add" -> {ask[c].path}
      [] ask[c].op = "move" -> Get(mem[c], ask[c].key)
      [] ask[c].op = "scan" -> {Min(todo[c])}
      [] OTHER -> {}

\* A project goes out of the registry only when its removal is asked for, or when a
\* process saves that had loaded the file before the project was in it.
LosesOnlyWhatItNeverSaw ==
    [][\A p \in DOMAIN file \ DOMAIN file' :
          \E c \in Calls : Saves(c) /\ (p \notin DOMAIN mem[c] \/ p \in Removes(c))]_vars

\* A save changes the relative order of no two projects but the one it puts, which
\* lands where the call says: at the position, at the end when that is too far,
\* and at the end, too, when it is new and no position is given.
RestKeepsItsPlace ==
    [][\A c \in Calls : Saves(c) =>
          LET last == Size(file') - 1
              before(es, p, q) == es[p].order < es[q].order
          IN  /\ \A p, q \in (DOMAIN mem[c] \cap DOMAIN file') \ Puts(c) :
                    before(mem[c], p, q) <=> before(file', p, q)
              /\ \A p \in Puts(c) :
                    IF ask[c].op # "scan" /\ ask[c].position # None
                    THEN file'[p].order = IF ask[c].position < last
                                          THEN ask[c].position ELSE last
                    ELSE file'[p].order = IF p \in DOMAIN mem[c]
                                          THEN mem[c][p].order ELSE last]_vars
===============================================================================
