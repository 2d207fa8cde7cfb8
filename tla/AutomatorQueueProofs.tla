------------------------- MODULE AutomatorQueueProofs -------------------------
(***************************************************************************)
(* What holds of AutomatorQueue, for every set of workers, any number of   *)
(* jobs and any assignment of keys and kinds to them.                      *)
(*                                                                         *)
(* WorkInv, OpenInv and CountInv hold whatever happens.  The others say    *)
(* what is true as long as certain things have not: with one worker at a   *)
(* time (AloneInv) a temporary file is its own, and a result that appears  *)
(* is whole (OwnInv); with whole job files besides (Calm), a path only     *)
(* ever holds its job's key (KeyInv); and if nothing is ingested during a  *)
(* lookup, a lookup that finds nothing has missed nothing (LookupInv),     *)
(* which is what keeps a key from being executed again (OnceInv) or        *)
(* answered otherwise (AgreeInv).                                          *)
(***************************************************************************)
EXTENDS AutomatorQueue, FiniteSetTheorems, TLAPS

\* The jobs that have a file where their result should be.
Answered == {i \in Ids : \E d \in Dirs : disk[<<d, i>>] # None}

\* A worker at work has a job, and before it moves the job's file it has answered it.
WorkInv == \A w \in Workers :
    /\ pc[w] \in Working => cur[w] \in Ids
    /\ pc[w] \in Writing =>
          out[w] \in Result /\ out[w].key \in {"unknown", KeyOf[cur[w]]}
    /\ pc[w] \notin Writing \cup {"raised", "move"} => ~executed[w]
    /\ pc[w] = "move" => cur[w] \in Answered

\* NoJobVanishes, without saying what the files hold.
VanishInv == \A i \in Ids : emits[i] > 0 => jobs[i] # "absent" \/ i \in Answered

\* A file that is open for writing has a name, so that it is not lost with it.
OpenInv == \A w \in Workers :
    handle[w] # Closed => pc[w] = "fill" /\ disk[handle[w]] # None

\* As long as workers have not overlapped, a worker fills the file it emptied, and
\* renames what it filled.
OwnInv == "overlap" \notin disturbed =>
    /\ \A p \in Paths : disk[p] \in Result \cup {None}
    /\ \A w \in Workers :
          /\ pc[w] = "fill" => handle[w] = Temp(cur[w]) /\ disk[Temp(cur[w])] = Empty
          /\ pc[w] = "rename" => disk[Temp(cur[w])] = out[w]

FileInv == OpenInv /\ OwnInv

\* w has executed a job of key k and not yet written its result.
Holds(w, k) == pc[w] \in Writing /\ executed[w] /\ KeyOf[cur[w]] = k
Holders(k) == {w \in Workers : Holds(w, k)}

\* A step that neither counts an execution nor has one held by another worker.
SameHolders == UNCHANGED runs /\ \A k \in Keys : Holders(k)' = Holders(k)

\* Every execution whose result is still to be written is counted.
CountInv == \A k \in Keys :
    IsFiniteSet(Holders(k)) /\ Cardinality(Holders(k)) <= runs[k]

\* As long as workers have not overlapped, one works at most.
AloneInv == "overlap" \notin disturbed => \A v, w \in Workers :
    pc[v] \in Working /\ pc[w] \in Working => v = w

\* One worker at a time, and no torn job file, so far.
Calm == "overlap" \notin disturbed /\ "tear" \notin disturbed

\* The file of a job at work stays whole until it is moved.
WholeInv == Calm =>
    /\ \A i \in Ids : jobs[i] # "torn"
    /\ \A w \in Workers : pc[w] \in Working => jobs[cur[w]] = "whole"

\* Results are filed under jobs of their key.
KeyInv == Calm =>
    /\ \A p \in Paths : disk[p].key \in {"none", KeyOf[p[2]]}
    /\ \A w \in Workers : pc[w] \in Writing => out[w].key = KeyOf[cur[w]]

\* A lookup that has not found a result of its key has it still to read, or there is
\* none.
LookupInv == Quiet({"crash"}) => \A w \in Workers, p \in Paths :
    pc[w] \in {"read", "execute"} /\ disk[p].key = KeyOf[cur[w]] =>
        pc[w] = "read" /\ p \in todo[w]

\* An execution counted is on disk, or its worker is about to write it.
OnceInv == Quiet({"crash"}) => \A k \in Keys :
    runs[k] <= 1 /\ (runs[k] = 1 => Recorded(k) \/ \E w \in Workers : Holds(w, k))

\* What is about to be written agrees with what is there of its key.
AgreeInv == Quiet({"crash"}) => \A w \in Workers, p \in Paths :
    pc[w] \in Writing /\ disk[p].key = out[w].key => disk[p].status = out[w].status

-----------------------------------------------------------------------------
(* What writing a result does, which is all that most of the proofs need.  *)

SamePaths == \A p \in Paths : disk'[p] = disk[p]
SameUnlessOverlap == "overlap" \notin disturbed => SamePaths

\* The temporary file is opened, or filled.
Prepares(w) ==
    /\ pc[w] \in {"write", "fill"}
    /\ \E s \in {"fill", "rename"} : pc' = [pc EXCEPT ![w] = s]
    /\ SameUnlessOverlap
    /\ UNCHANGED <<jobs, emits, locals, history>>

\* Opening, filling or renaming it fails.
Abandons(w) ==
    /\ pc[w] \in Writing
    /\ GiveUp(w)
    /\ SameUnlessOverlap
    /\ UNCHANGED <<jobs, emits, locals, disturbed>>

\* The result appears.
Publishes(w) ==
    /\ pc[w] = "rename"
    /\ GoTo(w, "move")
    /\ cur[w] \in Answered'
    /\ "overlap" \notin disturbed => \A p \in Paths :
          disk'[p] = IF p = <<"results", cur[w]>> THEN out[w] ELSE disk[p]
    /\ UNCHANGED <<jobs, emits, locals, history>>

-----------------------------------------------------------------------------
\* Splits a step into the actions.
LEMMA StepCases ==
    ASSUME [Next]_vars, NEW P,
           ASSUME NEW i \in Ids, Emit(i) PROVE P,
           ASSUME NEW i \in Ids, Complete(i) PROVE P,
           ASSUME NEW i \in Ids, Ingest(i) PROVE P,
           ASSUME NEW w \in Workers, Start(w) PROVE P,
           ASSUME NEW w \in Workers, Take(w) PROVE P,
           ASSUME NEW w \in Workers, Parse(w) PROVE P,
           ASSUME NEW w \in Workers, List(w) PROVE P,
           ASSUME NEW w \in Workers, NEW p \in todo[w], ReadAs(w, p, disk[p]) PROVE P,
           ASSUME NEW w \in Workers, NotFound(w) PROVE P,
           ASSUME NEW w \in Workers, Execute(w) PROVE P,
           ASSUME NEW w \in Workers, Open(w) PROVE P,
           ASSUME NEW w \in Workers, Fill(w) PROVE P,
           ASSUME NEW w \in Workers, FailToFill(w) PROVE P,
           ASSUME NEW w \in Workers, Publish(w) PROVE P,
           ASSUME NEW w \in Workers, FailToPublish(w) PROVE P,
           ASSUME NEW w \in Workers, Raise(w) PROVE P,
           ASSUME NEW w \in Workers, Move(w) PROVE P,
           ASSUME NEW w \in Workers, Crash(w) PROVE P,
           ASSUME UNCHANGED vars PROVE P
    PROVE  P
  BY DEF Next, Consume, Read

\* No result is taken for the absence of one.
LEMMA NoneIsNoResult ==
    /\ None \notin Result /\ None.key = "none" /\ Empty # None /\ Torn # None
    /\ \A i \in Ids : KeyOf[i] \in Keys /\ KeyOf[i] \notin {"none", "unknown"}
  BY KeyAssumption, JobAssumption DEF None, Empty, Torn, Result

\* Temporary files are not result files.
LEMMA Apart ==
    ASSUME NEW i \in Ids
    PROVE  /\ Temp(i) \in Places /\ Temp(i) \notin Paths
           /\ <<"results", i>> \in Paths /\ <<"processed", i>> \in Paths
           /\ <<"results", i>> # <<"processed", i>>
           /\ Temp(i) # <<"results", i>> /\ Paths \subseteq Places
  BY DEF Temp, Places, Paths, Dirs

\* What a rename does to a place.
LEMMA RenameDisk ==
    ASSUME TypeOK, NEW a \in Places, NEW b \in Places, a # b, Rename(a, b)
    PROVE  /\ \A p \in Places : disk'[p] = IF p = a THEN None
                                 ELSE IF p = b THEN disk[a] ELSE disk[p]
           /\ disk' \in [Places -> Contents]
           /\ \A v \in Workers : handle'[v] = IF handle[v] = a THEN b
                 ELSE IF handle[v] = b THEN Closed ELSE handle[v]
           /\ handle' \in [Workers -> Places \cup {Closed}]
<1>1. disk' = [disk EXCEPT ![b] = disk[a], ![a] = None] /\ None \in Contents
  BY DEF Rename, Contents
<1>2. handle' = [v \in Workers |-> IF handle[v] = a THEN b
                                   ELSE IF handle[v] = b THEN Closed ELSE handle[v]]
  BY DEF Rename
<1>3. handle' \in [Workers -> Places \cup {Closed}]
  BY <1>2 DEF TypeOK
<1>. QED
  BY <1>1, <1>2, <1>3 DEF TypeOK

\* What ingestion does to a path.
LEMMA IngestDisk ==
    ASSUME TypeOK, NEW i \in Ids, Ingest(i)
    PROVE  /\ \A p \in Paths : disk'[p] = IF p = <<"results", i>> THEN None
                  ELSE IF p = <<"processed", i>> THEN disk[<<"results", i>>] ELSE
                       disk[p]
           /\ disk[<<"results", i>>] # None
  BY Apart, RenameDisk DEF Ingest

\* What writing to the open file does: nothing, if it has no name any more.
LEMMA PutDisk ==
    ASSUME TypeOK, NEW w \in Workers, NEW T \in SUBSET Contents, Put(w, T)
    PROVE  /\ \A p \in Places : p # handle[w] => disk'[p] = disk[p]
           /\ \A p \in Places : p = handle[w] => disk'[p] \in T
           /\ handle[w] = Closed => disk' = disk /\ handle' = handle
           /\ disk' \in [Places -> Contents]
           /\ handle' = [handle EXCEPT ![w] = Closed]
           /\ handle' \in [Workers -> Places \cup {Closed}]
<1>0. handle[w] \in Places \cup {Closed} /\ handle' = [handle EXCEPT ![w] = Closed]
  BY DEF Put, TypeOK
<1>1. CASE handle[w] = Closed
  <2>1. Closed \notin Places
    BY DEF Closed, Places, Paths, Dirs, Temp
  <2>. QED
    BY <1>0, <1>1, <2>1 DEF Put, TypeOK
<1>2. CASE handle[w] # Closed
  <2>1. PICK t \in T : disk' = [disk EXCEPT ![handle[w]] = t]
    BY <1>2 DEF Put
  <2>. QED
    BY <1>0, <1>2, <2>1 DEF TypeOK
<1>. QED
  BY <1>1, <1>2

\* The texts that a worker may leave in the file it has open.
LEMMA Texts ==
    ASSUME TypeOK, WorkInv, OpenInv, NEW w \in Workers
    PROVE  /\ pc[w] \in Writing => cur[w] \in Ids /\ out[w] \in Result
           /\ pc[w] = "fill" => Over(w) \subseteq Contents \ {None}
           /\ handle[w] # Closed => {disk[handle[w]], Torn} \subseteq Contents \ {None}
           /\ Torn \in Contents
<1>1. pc[w] \in Writing => cur[w] \in Ids /\ out[w] \in Result
  BY DEF WorkInv, Writing, Working, Steps
<1>2. handle[w] # Closed => disk[handle[w]] \in Contents \ {None}
  BY DEF OpenInv, TypeOK
<1>. QED
  BY <1>1, <1>2, NoneIsNoResult DEF Over, Writing, Contents

\* What leaves a worker alone, and what it does to one that leaves.
LEMMA Leaves ==
    ASSUME TypeOK, NEW w \in Workers, Raise(w) \/ Move(w) \/ Crash(w)
    PROVE  /\ \E s \in {"down", "idle"} : pc' = [pc EXCEPT ![w] = s]
           /\ cur' = [cur EXCEPT ![w] = 0] /\ todo' = [todo EXCEPT ![w] = {}]
           /\ out' = [out EXCEPT ![w] = None] /\ executed' = [executed EXCEPT ![w] =
                FALSE]
           /\ UNCHANGED emits /\ disturbed \subseteq disturbed'
           /\ Raise(w) \/ Move(w) => UNCHANGED <<disk, handle>>
  BY DEF Raise, Move, Crash, Leave, GoTo, files, history, Disturb

-----------------------------------------------------------------------------
(* The files.  *)

\* Two workers at work are an overlap.
LEMMA OneWriter ==
    ASSUME AloneInv, "overlap" \notin disturbed, NEW v \in Workers, NEW w \in Workers,
           pc[v] \in Working, pc[w] \in Working
    PROVE  v = w
  BY DEF AloneInv

\* A step of a worker that has no file open, and does not open one.
LEMMA FileKept ==
    ASSUME TypeOK, FileInv, NEW w \in Workers, UNCHANGED <<disk, handle>>,
           disturbed \subseteq disturbed', handle[w] = Closed,
           pc' = [pc EXCEPT ![w] = pc'[w]], pc'[w] \notin {"fill", "rename"},
           \A v \in Workers \ {w} : cur'[v] = cur[v] /\ out'[v] = out[v]
    PROVE  FileInv'
<1>1. \A v \in Workers \ {w} : pc'[v] = pc[v]
  BY DEF TypeOK
<1>2. OpenInv'
  BY <1>1 DEF FileInv, OpenInv
<1>3. OwnInv'
  BY <1>1 DEF FileInv, OwnInv
<1>. QED
  BY <1>2, <1>3 DEF FileInv

\* A step that does not touch workers or result files.
LEMMA FileSame ==
    ASSUME FileInv, UNCHANGED <<disk, handle, pc, locals>>, disturbed \subseteq
         disturbed'
    PROVE  FileInv'
  BY DEF FileInv, OpenInv, OwnInv, locals

\* An open file keeps a name when files are renamed.
LEMMA OpenKept ==
    ASSUME TypeOK, OpenInv, NEW a \in Places, NEW b \in Places, a # b, Rename(a, b),
           disk[a] # None, \A v \in Workers : pc[v] = "fill" => pc'[v] = "fill"
    PROVE  OpenInv'
<1> SUFFICES ASSUME NEW v \in Workers, handle'[v] # Closed
             PROVE  pc'[v] = "fill" /\ disk'[handle'[v]] # None
  BY DEF OpenInv
<1>1. /\ handle'[v] = IF handle[v] = a THEN b
                      ELSE IF handle[v] = b THEN Closed ELSE handle[v]
      /\ \A p \in Places : disk'[p] = IF p = a THEN None
                                      ELSE IF p = b THEN disk[a] ELSE disk[p]
  BY RenameDisk
<1>2. a # Closed /\ handle[v] \in Places \cup {Closed}
  BY DEF Closed, Places, Paths, Dirs, Temp, TypeOK
<1>3. handle[v] # Closed /\ pc[v] = "fill" /\ disk[handle[v]] # None
  BY <1>1, <1>2 DEF OpenInv
<1>4. CASE handle[v] = a
  BY <1>1, <1>3, <1>4
<1>5. CASE handle[v] # a
  <2>1. handle'[v] = handle[v] /\ handle[v] # b /\ handle[v] \in Places
    BY <1>1, <1>2, <1>3, <1>5
  <2>. QED
    BY <1>1, <1>3, <1>5, <2>1
<1>. QED
  BY <1>4, <1>5

\* A worker that is cut short while it has a file open leaves that file, and if workers
\* have not overlapped, no result has changed.
LEMMA FileCut ==
    ASSUME TypeOK, WorkInv, AloneInv, FileInv, NEW w \in Workers,
           Put(w, {disk[handle[w]], Torn}), disturbed \subseteq disturbed',
           pc' = [pc EXCEPT ![w] = pc'[w]], pc'[w] \notin {"fill", "rename"},
           \A v \in Workers \ {w} : cur'[v] = cur[v] /\ out'[v] = out[v]
    PROVE  FileInv'
<1>1. CASE handle[w] = Closed
  <2>1. disk' = disk /\ handle' = handle
    BY <1>1 DEF Put, TypeOK
  <2>. QED
    BY <1>1, <2>1, FileKept
<1>2. CASE handle[w] # Closed
  <2>1. /\ {disk[handle[w]], Torn} \subseteq Contents \ {None}
        /\ {disk[handle[w]], Torn} \in SUBSET Contents
        /\ pc[w] = "fill" /\ pc[w] \in Working /\ cur[w] \in Ids
    BY <1>2, Texts DEF FileInv, OpenInv, WorkInv, Working, Steps, Writing
  <2>2. \A v \in Workers \ {w} : pc'[v] = pc[v]
    BY DEF TypeOK
  <2>3. OpenInv'
    BY <2>1, <2>2, PutDisk DEF FileInv, OpenInv, TypeOK
  <2>4. "overlap" \notin disturbed => \A v \in Workers : pc'[v] \notin {"fill",
       "rename"}
    BY <2>1, <2>2, OneWriter DEF TypeOK, Working, Steps
  <2>5. "overlap" \notin disturbed => SamePaths
    <3>1. \A p \in Places : p # handle[w] => disk'[p] = disk[p]
      BY <2>1, PutDisk
    <3>2. "overlap" \notin disturbed => handle[w] \notin Paths
      BY <2>1, Apart DEF FileInv, OwnInv
    <3>. QED
      BY <2>1, <3>1, <3>2, Apart DEF SamePaths
  <2>6. OwnInv'
    BY <2>4, <2>5 DEF FileInv, OwnInv, SamePaths
  <2>. QED
    BY <2>3, <2>6 DEF FileInv
<1>. QED
  BY <1>1, <1>2

\* What the renaming of a result does to a path.
LEMMA PublishDisk ==
    ASSUME TypeOK, WorkInv, FileInv, NEW w \in Workers, Publish(w)
    PROVE  /\ cur[w] \in Answered'
           /\ "overlap" \notin disturbed => \A p \in Paths :
                 disk'[p] = IF p = <<"results", cur[w]>> THEN out[w] ELSE disk[p]
<1>1. cur[w] \in Ids /\ pc[w] = "rename" /\ disk[Temp(cur[w])] # None
  BY Texts DEF Publish, FileInv, Writing
<1>2. \A p \in Paths :
         disk'[p] = IF p = <<"results", cur[w]>> THEN disk[Temp(cur[w])] ELSE disk[p]
  <2>1. /\ Temp(cur[w]) \in Places /\ <<"results", cur[w]>> \in Places
        /\ Temp(cur[w]) # <<"results", cur[w]>>
        /\ Rename(Temp(cur[w]), <<"results", cur[w]>>)
    BY <1>1, Apart DEF Publish
  <2>2. \A p \in Places : disk'[p] = IF p = Temp(cur[w]) THEN None
           ELSE IF p = <<"results", cur[w]>> THEN disk[Temp(cur[w])] ELSE disk[p]
    BY <2>1, RenameDisk
  <2>. QED
    BY <1>1, <2>2, Apart
<1>3. "overlap" \notin disturbed => disk[Temp(cur[w])] = out[w]
  BY <1>1 DEF FileInv, OwnInv
<1>4. cur[w] \in Answered'
  BY <1>1, <1>2, Apart DEF Answered, Dirs
<1>. QED
  BY <1>2, <1>3, <1>4

\* Files are opened, filled and renamed by whoever took the job.
LEMMA FileStep ==
    ASSUME TypeOK, WorkInv, AloneInv, FileInv, [Next]_vars
    PROVE  FileInv'
<1>1. ASSUME NEW i \in Ids, Emit(i) PROVE FileInv'
  BY <1>1, FileSame DEF Emit, Disturb
<1>2. ASSUME NEW i \in Ids, Complete(i) PROVE FileInv'
  BY <1>2, FileSame DEF Complete, history
<1>3. ASSUME NEW i \in Ids, Ingest(i) PROVE FileInv'
  <2>1. /\ <<"results", i>> \in Places /\ <<"processed", i>> \in Places
        /\ disk[<<"results", i>>] # None /\ <<"results", i>> # <<"processed", i>>
        /\ Rename(<<"results", i>>, <<"processed", i>>)
    BY <1>3, Apart DEF Ingest
  <2>2. UNCHANGED <<pc, cur, out>> /\ disturbed \subseteq disturbed'
    BY <1>3 DEF Ingest, Disturb, locals
  <2>3. OpenInv'
    <3>1. \A v \in Workers : pc[v] = "fill" => pc'[v] = "fill"
      BY <2>2
    <3>. QED
      BY <2>1, <3>1, OpenKept DEF FileInv
  <2>4. ASSUME "overlap" \notin disturbed, NEW p \in Paths PROVE disk'[p] \in Result
       \cup {None}
    <3>1. \A q \in Paths : disk[q] \in Result \cup {None}
      BY <2>4 DEF FileInv, OwnInv
    <3>. QED
      BY <1>3, <3>1, Apart, IngestDisk
  <2>5. \A j \in Ids : Temp(j) # <<"results", i>> /\ Temp(j) # <<"processed", i>>
    BY DEF Temp
  <2>6. \A j \in Ids : disk'[Temp(j)] = disk[Temp(j)]
    BY <2>1, <2>5, Apart, RenameDisk
  <2>7. \A v \in Workers : pc[v] \in {"fill", "rename"} => cur[v] \in Ids
    BY DEF WorkInv, Working, Steps
  <2>8. \A v \in Workers : \A j \in Ids : handle[v] = Temp(j) => handle'[v] = Temp(j)
    BY <2>1, <2>5, Apart, RenameDisk
  <2>9. OwnInv'
    BY <2>2, <2>4, <2>6, <2>7, <2>8 DEF FileInv, OwnInv
  <2>. QED
    BY <2>3, <2>9 DEF FileInv
<1>4. ASSUME NEW w \in Workers, Start(w) PROVE FileInv'
  <2>1. pc[w] # "fill" /\ UNCHANGED <<disk, handle>> /\ disturbed \subseteq disturbed'
    BY <1>4 DEF Start, GoTo, files, locals, history
  <2>2. pc' = [pc EXCEPT ![w] = pc'[w]] /\ pc'[w] \notin {"fill", "rename"}
    BY <1>4 DEF Start, GoTo, TypeOK
  <2>3. \A v \in Workers \ {w} : cur'[v] = cur[v] /\ out'[v] = out[v]
    BY <1>4 DEF Start, GoTo, files, locals, history, TypeOK
  <2>. QED
    BY <2>1, <2>2, <2>3, FileKept DEF FileInv, OpenInv
<1>5. ASSUME NEW w \in Workers, Take(w) PROVE FileInv'
  <2>1. pc[w] # "fill" /\ UNCHANGED <<disk, handle>> /\ disturbed \subseteq disturbed'
    BY <1>5 DEF Take, GoTo, files, Disturb
  <2>2. pc' = [pc EXCEPT ![w] = pc'[w]] /\ pc'[w] \notin {"fill", "rename"}
    BY <1>5 DEF Take, GoTo, TypeOK
  <2>3. \A v \in Workers \ {w} : cur'[v] = cur[v] /\ out'[v] = out[v]
    BY <1>5 DEF Take, GoTo, files, Disturb, TypeOK
  <2>. QED
    BY <2>1, <2>2, <2>3, FileKept DEF FileInv, OpenInv
<1>6. ASSUME NEW w \in Workers, Parse(w) PROVE FileInv'
  <2>1. pc[w] # "fill" /\ UNCHANGED <<disk, handle>> /\ disturbed \subseteq disturbed'
    BY <1>6 DEF Parse, GoTo, files, history
  <2>2. pc' = [pc EXCEPT ![w] = pc'[w]] /\ pc'[w] \notin {"fill", "rename"}
    BY <1>6 DEF Parse, GoTo, TypeOK
  <2>3. \A v \in Workers \ {w} : cur'[v] = cur[v] /\ out'[v] = out[v]
    BY <1>6 DEF Parse, GoTo, files, history, TypeOK
  <2>. QED
    BY <2>1, <2>2, <2>3, FileKept DEF FileInv, OpenInv
<1>7. ASSUME NEW w \in Workers, List(w) PROVE FileInv'
  <2>1. pc[w] # "fill" /\ UNCHANGED <<disk, handle>> /\ disturbed \subseteq disturbed'
    BY <1>7 DEF List, GoTo, files, history
  <2>2. pc' = [pc EXCEPT ![w] = pc'[w]] /\ pc'[w] \notin {"fill", "rename"}
    BY <1>7 DEF List, GoTo, TypeOK
  <2>3. \A v \in Workers \ {w} : cur'[v] = cur[v] /\ out'[v] = out[v]
    BY <1>7 DEF List, GoTo, files, history, TypeOK
  <2>. QED
    BY <2>1, <2>2, <2>3, FileKept DEF FileInv, OpenInv
<1>8. ASSUME NEW w \in Workers, NEW p \in todo[w], ReadAs(w, p, disk[p]) PROVE FileInv'
  <2>1. pc[w] # "fill" /\ UNCHANGED <<disk, handle>> /\ disturbed \subseteq disturbed'
    BY <1>8 DEF ReadAs, GoTo, files, history
  <2>2. pc' = [pc EXCEPT ![w] = pc'[w]] /\ pc'[w] \notin {"fill", "rename"}
    BY <1>8 DEF ReadAs, GoTo, TypeOK
  <2>3. \A v \in Workers \ {w} : cur'[v] = cur[v] /\ out'[v] = out[v]
    BY <1>8 DEF ReadAs, GoTo, files, history, TypeOK
  <2>. QED
    BY <2>1, <2>2, <2>3, FileKept DEF FileInv, OpenInv
<1>9. ASSUME NEW w \in Workers, NotFound(w) PROVE FileInv'
  <2>1. pc[w] # "fill" /\ UNCHANGED <<disk, handle>> /\ disturbed \subseteq disturbed'
    BY <1>9 DEF NotFound, GoTo, files, locals, history
  <2>2. pc' = [pc EXCEPT ![w] = pc'[w]] /\ pc'[w] \notin {"fill", "rename"}
    BY <1>9 DEF NotFound, GoTo, TypeOK
  <2>3. \A v \in Workers \ {w} : cur'[v] = cur[v] /\ out'[v] = out[v]
    BY <1>9 DEF NotFound, GoTo, files, locals, history, TypeOK
  <2>. QED
    BY <2>1, <2>2, <2>3, FileKept DEF FileInv, OpenInv
<1>10. ASSUME NEW w \in Workers, Execute(w) PROVE FileInv'
  <2>1. pc[w] # "fill" /\ UNCHANGED <<disk, handle>> /\ disturbed \subseteq disturbed'
    BY <1>10 DEF Execute, GoTo, files
  <2>2. pc' = [pc EXCEPT ![w] = pc'[w]] /\ pc'[w] \notin {"fill", "rename"}
    BY <1>10 DEF Execute, GoTo, TypeOK
  <2>3. \A v \in Workers \ {w} : cur'[v] = cur[v] /\ out'[v] = out[v]
    BY <1>10 DEF Execute, GoTo, files, TypeOK
  <2>. QED
    BY <2>1, <2>2, <2>3, FileKept DEF FileInv, OpenInv
<1>11. ASSUME NEW w \in Workers, Open(w) PROVE FileInv'
  <2>1. cur[w] \in Ids /\ pc[w] \in Working /\ handle[w] = Closed
    BY <1>11 DEF Open, WorkInv, FileInv, OpenInv, Working, Steps
  <2>2. UNCHANGED <<cur, out, disturbed>>
    BY <1>11 DEF Open, locals
  <2>3. CASE GiveUp(w) /\ UNCHANGED <<disk, handle>>
    BY <2>1, <2>2, <2>3, FileKept DEF GiveUp, GoTo, TypeOK
  <2>4. CASE /\ disk' = [disk EXCEPT ![Temp(cur[w])] = Empty]
             /\ handle' = [handle EXCEPT ![w] = Temp(cur[w])]
             /\ GoTo(w, "fill")
    <3>1. pc' = [pc EXCEPT ![w] = "fill"]
      BY <2>4 DEF GoTo
    <3>2. OpenInv'
      BY <2>1, <2>4, <3>1, Apart, NoneIsNoResult DEF FileInv, OpenInv, TypeOK
    <3>3. "overlap" \notin disturbed =>
             \A v \in Workers \ {w} : pc'[v] \notin {"fill", "rename"}
      BY <2>1, <3>1, OneWriter DEF TypeOK, Working, Steps
    <3>4. SamePaths
      BY <2>1, <2>4, Apart DEF SamePaths, TypeOK
    <3>5. /\ pc'[w] = "fill" /\ handle'[w] = Temp(cur[w])
          /\ disk'[Temp(cur[w])] = Empty
      BY <2>1, <2>4, <3>1, Apart DEF TypeOK
    <3>6. OwnInv'
      BY <2>2, <3>3, <3>4, <3>5 DEF FileInv, OwnInv, SamePaths
    <3>. QED
      BY <3>2, <3>6 DEF FileInv
  <2>. QED
    BY <1>11, <2>3, <2>4 DEF Open
<1>12. ASSUME NEW w \in Workers, Fill(w) PROVE FileInv'
  <2>1. cur[w] \in Ids /\ out[w] \in Result /\ pc[w] \in Working /\ pc[w] = "fill"
    BY <1>12, Texts DEF Fill, FileInv, Writing, Working, Steps
  <2>2. Put(w, Over(w)) /\ pc' = [pc EXCEPT ![w] = "rename"]
        /\ UNCHANGED <<cur, out, disturbed>>
    BY <1>12 DEF Fill, GiveUp, GoTo, locals, history
  <2>3. Over(w) \subseteq Contents \ {None} /\ Over(w) \in SUBSET Contents
    BY <2>1, Texts DEF FileInv
  <2>4. OpenInv'
    BY <2>2, <2>3, PutDisk DEF FileInv, OpenInv, TypeOK
  <2>5. "overlap" \notin disturbed =>
          \A v \in Workers \ {w} : pc'[v] \notin {"fill", "rename"}
    BY <2>1, <2>2, OneWriter DEF TypeOK, Working, Steps
  <2>6. ASSUME "overlap" \notin disturbed
        PROVE  SamePaths /\ disk'[Temp(cur[w])] = out[w]
    <3>1. handle[w] = Temp(cur[w]) /\ Over(w) = {out[w]}
      BY <2>1, <2>6 DEF FileInv, OwnInv, Over
    <3>2. disk'[Temp(cur[w])] \in Over(w)
      BY <2>1, <2>2, <2>3, <3>1, Apart, PutDisk
    <3>3. \A p \in Places : p # Temp(cur[w]) => disk'[p] = disk[p]
      BY <2>2, <2>3, <3>1, PutDisk
    <3>4. SamePaths
      BY <2>1, <3>3, Apart DEF SamePaths
    <3>. QED
      BY <3>1, <3>2, <3>4
  <2>7. pc'[w] = "rename"
    BY <2>2 DEF TypeOK
  <2>8. OwnInv'
    BY <2>2, <2>5, <2>6, <2>7 DEF FileInv, OwnInv, SamePaths
  <2>. QED
    BY <2>4, <2>8 DEF FileInv
<1>13. ASSUME NEW w \in Workers, FailToFill(w) PROVE FileInv'
  <2>1. pc[w] = "fill" /\ Put(w, {disk[handle[w]], Torn})
        /\ pc' = [pc EXCEPT ![w] = "raised"] /\ UNCHANGED <<cur, out, disturbed>>
    BY <1>13 DEF FailToFill, GiveUp, GoTo, locals
  <2>. QED
    BY <2>1, FileCut DEF TypeOK
<1>14. ASSUME NEW w \in Workers, Publish(w) PROVE FileInv'
  <2>1. cur[w] \in Ids /\ out[w] \in Result /\ pc[w] \in Working /\ pc[w] = "rename"
    BY <1>14, Texts DEF Publish, FileInv, Writing, Working, Steps
  <2>2. pc' = [pc EXCEPT ![w] = "move"] /\ UNCHANGED <<cur, out, disturbed>>
    BY <1>14 DEF Publish, GoTo, locals, history
  <2>3. OpenInv'
    <3>1. disk[Temp(cur[w])] # None /\ pc[w] # "fill"
      BY <1>14, <2>1 DEF Publish
    <3>2. \A v \in Workers : pc[v] = "fill" => pc'[v] = "fill"
      BY <2>1, <2>2 DEF TypeOK
    <3>3. /\ Temp(cur[w]) \in Places /\ <<"results", cur[w]>> \in Places
          /\ Temp(cur[w]) # <<"results", cur[w]>>
          /\ Rename(Temp(cur[w]), <<"results", cur[w]>>)
      BY <1>14, <2>1, Apart DEF Publish
    <3>. QED
      BY <3>1, <3>2, <3>3, OpenKept DEF FileInv
  <2>4. "overlap" \notin disturbed =>
          \A v \in Workers \ {w} : pc'[v] \notin {"fill", "rename"}
    BY <2>1, <2>2, OneWriter DEF TypeOK, Working, Steps
  <2>5. ASSUME "overlap" \notin disturbed, NEW p \in Paths PROVE disk'[p] \in Result
       \cup {None}
    <3>1. disk[p] \in Result \cup {None}
      BY <2>5 DEF FileInv, OwnInv
    <3>. QED
      BY <1>14, <2>1, <2>5, <3>1, PublishDisk
  <2>6. pc'[w] = "move"
    BY <2>2 DEF TypeOK
  <2>7. OwnInv'
    BY <2>2, <2>4, <2>5, <2>6 DEF OwnInv
  <2>. QED
    BY <2>3, <2>7 DEF FileInv
<1>15. ASSUME NEW w \in Workers, FailToPublish(w) PROVE FileInv'
  <2>1. pc[w] = "rename" /\ UNCHANGED <<disk, handle, cur, out, disturbed>>
        /\ pc' = [pc EXCEPT ![w] = "raised"]
    BY <1>15 DEF FailToPublish, GiveUp, GoTo, files, locals
  <2>. QED
    BY <2>1, FileKept DEF FileInv, OpenInv, TypeOK
<1>16. ASSUME NEW w \in Workers, Raise(w) PROVE FileInv'
  <2>1. pc[w] # "fill"
    BY <1>16 DEF Raise
  <2>2. pc' = [pc EXCEPT ![w] = pc'[w]] /\ pc'[w] \notin {"fill", "rename"}
    BY <1>16, Leaves DEF TypeOK
  <2>3. \A v \in Workers \ {w} : cur'[v] = cur[v] /\ out'[v] = out[v]
    BY <1>16, Leaves DEF TypeOK
  <2>. QED
    BY <1>16, <2>1, <2>2, <2>3, Leaves, FileKept DEF FileInv, OpenInv
<1>17. ASSUME NEW w \in Workers, Move(w) PROVE FileInv'
  <2>1. pc[w] # "fill"
    BY <1>17 DEF Move
  <2>2. pc' = [pc EXCEPT ![w] = pc'[w]] /\ pc'[w] \notin {"fill", "rename"}
    BY <1>17, Leaves DEF TypeOK
  <2>3. \A v \in Workers \ {w} : cur'[v] = cur[v] /\ out'[v] = out[v]
    BY <1>17, Leaves DEF TypeOK
  <2>. QED
    BY <1>17, <2>1, <2>2, <2>3, Leaves, FileKept DEF FileInv, OpenInv
<1>18. ASSUME NEW w \in Workers, Crash(w) PROVE FileInv'
  <2>1. Put(w, {disk[handle[w]], Torn}) /\ disturbed \subseteq disturbed'
    BY <1>18 DEF Crash, Disturb
  <2>2. pc' = [pc EXCEPT ![w] = "down"]
        /\ cur' = [cur EXCEPT ![w] = 0] /\ out' = [out EXCEPT ![w] = None]
    BY <1>18 DEF Crash, Leave, GoTo
  <2>3. \A v \in Workers \ {w} : cur'[v] = cur[v] /\ out'[v] = out[v]
    BY <2>2 DEF TypeOK
  <2>. QED
    BY <2>1, <2>2, <2>3, FileCut DEF TypeOK
<1>19. ASSUME UNCHANGED vars PROVE FileInv'
  BY <1>19, FileSame DEF vars, files, history
<1>. QED
  BY <1>1, <1>2, <1>3, <1>4, <1>5, <1>6, <1>7, <1>8, <1>9, <1>10, <1>11, <1>12, <1>13,
       <1>14, <1>15, <1>16, <1>17, <1>18, <1>19, StepCases

\* A job that has a result keeps one: files move, but are not removed.
LEMMA StaysAnswered ==
    ASSUME TypeOK, WorkInv, FileInv, [Next]_vars, NEW i \in Answered
    PROVE  i \in Answered'
<1>0. i \in Ids
  BY DEF Answered
<1>1. PICK d \in Dirs : disk[<<d, i>>] # None
  BY DEF Answered
<1>2. \A e \in Dirs : <<e, i>> \in Paths /\ <<e, i>> \in Places
  BY <1>0, Apart DEF Paths
<1>3. ASSUME NEW j \in Ids, Ingest(j) PROVE i \in Answered'
  BY <1>0, <1>1, <1>2, <1>3, IngestDisk DEF Answered, Dirs
<1>4. ASSUME NEW w \in Workers, Publish(w) PROVE i \in Answered'
  <2>1. cur[w] \in Ids /\ disk[Temp(cur[w])] # None
    BY <1>4, Texts DEF Publish, FileInv, Writing
  <2>2. /\ Temp(cur[w]) \in Places /\ <<"results", cur[w]>> \in Places
        /\ Temp(cur[w]) # <<"results", cur[w]>>
        /\ Rename(Temp(cur[w]), <<"results", cur[w]>>)
    BY <1>4, <2>1, Apart DEF Publish
  <2>3. \A p \in Places : disk'[p] = IF p = Temp(cur[w]) THEN None
           ELSE IF p = <<"results", cur[w]>> THEN disk[Temp(cur[w])] ELSE disk[p]
    BY <2>2, RenameDisk
  <2>4. disk'[<<d, i>>] # None
    BY <1>1, <1>2, <2>1, <2>3, Apart
  <2>. QED
    BY <1>0, <2>4 DEF Answered
<1>5. ASSUME NEW w \in Workers, Open(w) PROVE i \in Answered'
  <2>1. disk' = disk \/ disk' = [disk EXCEPT ![Temp(cur[w])] = Empty]
    BY <1>5 DEF Open
  <2>2. disk'[<<d, i>>] # None
    BY <1>1, <1>2, <2>1, NoneIsNoResult DEF TypeOK
  <2>. QED
    BY <1>0, <2>2 DEF Answered
<1>6. ASSUME NEW w \in Workers, Fill(w) PROVE i \in Answered'
  <2>1. Over(w) \subseteq Contents \ {None} /\ Over(w) \in SUBSET Contents
    BY <1>6, Texts DEF Fill, FileInv
  <2>2. disk'[<<d, i>>] # None
    BY <1>1, <1>2, <1>6, <2>1, PutDisk DEF Fill
  <2>. QED
    BY <1>0, <2>2 DEF Answered
<1>7. ASSUME NEW w \in Workers, FailToFill(w) \/ Crash(w) PROVE i \in Answered'
  <2>1. Put(w, {disk[handle[w]], Torn})
    BY <1>7 DEF FailToFill, Crash
  <2>2. CASE handle[w] = Closed
    BY <1>0, <1>1, <2>1, <2>2 DEF Put, Answered
  <2>3. CASE handle[w] # Closed
    <3>1. /\ {disk[handle[w]], Torn} \subseteq Contents \ {None}
          /\ {disk[handle[w]], Torn} \in SUBSET Contents
      BY <2>3, Texts DEF FileInv
    <3>2. disk'[<<d, i>>] # None
      BY <1>1, <1>2, <2>1, <3>1, PutDisk
    <3>. QED
      BY <1>0, <3>2 DEF Answered
  <2>. QED
    BY <2>2, <2>3
<1>8. CASE UNCHANGED disk
  BY <1>0, <1>1, <1>8 DEF Answered
<1>. QED
  BY <1>3, <1>4, <1>5, <1>6, <1>7, <1>8 DEF Next, vars, files, Consume, Emit, Complete,
     Start, Take, Parse, List, Read, ReadAs, NotFound, Execute, FailToPublish, Raise,
          Move

\* Nor does a worker that is cut short while it writes touch a result.
LEMMA CutDisk ==
    ASSUME TypeOK, WorkInv, FileInv, NEW w \in Workers, Put(w, {disk[handle[w]], Torn})
    PROVE  SameUnlessOverlap
<1>1. CASE handle[w] = Closed
  BY <1>1 DEF Put, SameUnlessOverlap, SamePaths
<1>2. CASE handle[w] # Closed
  <2>1. {disk[handle[w]], Torn} \in SUBSET Contents /\ pc[w] = "fill" /\ cur[w] \in Ids
    BY <1>2, Texts DEF FileInv, OpenInv, Writing
  <2>2. \A p \in Places : p # handle[w] => disk'[p] = disk[p]
    BY <2>1, PutDisk
  <2>3. "overlap" \notin disturbed => handle[w] \notin Paths
    BY <2>1, Apart DEF FileInv, OwnInv
  <2>. QED
    BY <2>1, <2>2, <2>3, Apart DEF SameUnlessOverlap, SamePaths
<1>. QED
  BY <1>1, <1>2

\* Splits a step by what it does, so that the other proofs can cite it.
LEMMA EffectCases ==
    ASSUME TypeOK, WorkInv, FileInv, [Next]_vars, NEW P,
           ASSUME NEW i \in Ids, Emit(i) PROVE P,
           ASSUME NEW i \in Ids, Complete(i) PROVE P,
           ASSUME NEW i \in Ids, Ingest(i) PROVE P,
           ASSUME NEW w \in Workers, Start(w) PROVE P,
           ASSUME NEW w \in Workers, Take(w) PROVE P,
           ASSUME NEW w \in Workers, Parse(w) PROVE P,
           ASSUME NEW w \in Workers, List(w) PROVE P,
           ASSUME NEW w \in Workers, NEW p \in todo[w], ReadAs(w, p, disk[p]) PROVE P,
           ASSUME NEW w \in Workers, NotFound(w) PROVE P,
           ASSUME NEW w \in Workers, Execute(w) PROVE P,
           ASSUME NEW w \in Workers, Prepares(w) PROVE P,
           ASSUME NEW w \in Workers, Abandons(w) PROVE P,
           ASSUME NEW w \in Workers, Publishes(w) PROVE P,
           ASSUME NEW w \in Workers, Raise(w) PROVE P,
           ASSUME NEW w \in Workers, Move(w) PROVE P,
           ASSUME NEW w \in Workers, Crash(w) PROVE P,
           ASSUME UNCHANGED vars PROVE P
    PROVE  P
<1>1. ASSUME NEW w \in Workers, Open(w) PROVE Prepares(w) \/ Abandons(w)
  <2>1. pc[w] = "write" /\ UNCHANGED <<jobs, emits, locals, disturbed>> /\ cur[w] \in
       Ids
    BY <1>1, Texts DEF Open, FileInv, Writing
  <2>2. CASE GiveUp(w) /\ UNCHANGED <<disk, handle>>
    BY <2>1, <2>2 DEF Abandons, SameUnlessOverlap, SamePaths, Writing
  <2>3. CASE /\ disk' = [disk EXCEPT ![Temp(cur[w])] = Empty]
             /\ GoTo(w, "fill") /\ UNCHANGED runs
    <3>1. SamePaths
      BY <2>1, <2>3, Apart DEF SamePaths, TypeOK
    <3>. QED
      BY <2>1, <2>3, <3>1 DEF Prepares, SameUnlessOverlap, GoTo, history
  <2>. QED
    BY <1>1, <2>2, <2>3 DEF Open
<1>2. ASSUME NEW w \in Workers, Fill(w) PROVE Prepares(w)
  <2>1. pc[w] = "fill" /\ cur[w] \in Ids /\ Over(w) \in SUBSET Contents
    BY <1>2, Texts DEF Fill, FileInv, Writing
  <2>2. SameUnlessOverlap
    <3>1. \A p \in Places : p # handle[w] => disk'[p] = disk[p]
      BY <1>2, <2>1, PutDisk DEF Fill
    <3>2. "overlap" \notin disturbed => handle[w] \notin Paths
      BY <2>1, Apart DEF FileInv, OwnInv
    <3>. QED
      BY <2>1, <3>1, <3>2, Apart DEF SameUnlessOverlap, SamePaths
  <2>. QED
    BY <1>2, <2>1, <2>2 DEF Fill, Prepares, GoTo
<1>3. ASSUME NEW w \in Workers, FailToFill(w) PROVE Abandons(w)
  <2>1. pc[w] = "fill" /\ Put(w, {disk[handle[w]], Torn}) /\ GiveUp(w)
        /\ UNCHANGED <<jobs, emits, locals, disturbed>>
    BY <1>3 DEF FailToFill
  <2>2. SameUnlessOverlap
    BY <2>1, CutDisk
  <2>. QED
    BY <2>1, <2>2 DEF Abandons, Writing
<1>4. ASSUME NEW w \in Workers, Publish(w) PROVE Publishes(w)
  BY <1>4, PublishDisk DEF Publish, Publishes
<1>5. ASSUME NEW w \in Workers, FailToPublish(w) PROVE Abandons(w)
  BY <1>5 DEF FailToPublish, Abandons, Writing, SameUnlessOverlap, SamePaths, files
<1>. QED
  BY <1>1, <1>2, <1>3, <1>4, <1>5, StepCases

-----------------------------------------------------------------------------
(* The workers.  *)

\* Whoever writes or moves a file has the job it is about.
LEMMA WorkStep ==
    ASSUME TypeOK, WorkInv, FileInv, [Next]_vars
    PROVE  WorkInv'
<1>1. ASSUME NEW i \in Ids, Emit(i) PROVE WorkInv'
  BY <1>1, JobAssumption, NoneIsNoResult, StaysAnswered DEF Emit, Disturb, locals,
       TypeOK, WorkInv, Steps, Working, Writing, Ids
<1>2. ASSUME NEW i \in Ids, Complete(i) PROVE WorkInv'
  BY <1>2, JobAssumption, NoneIsNoResult, StaysAnswered DEF Complete, locals, history,
       TypeOK, WorkInv, Steps, Working, Writing, Ids
<1>3. ASSUME NEW i \in Ids, Ingest(i) PROVE WorkInv'
  BY <1>3, JobAssumption, NoneIsNoResult, StaysAnswered DEF Ingest, Disturb, locals,
       TypeOK, WorkInv, Steps, Working, Writing, Ids
<1>4. ASSUME NEW w \in Workers, Start(w) PROVE WorkInv'
  BY <1>4, JobAssumption, NoneIsNoResult, StaysAnswered DEF Start, GoTo, files, locals,
       history, TypeOK, WorkInv, Steps, Working, Writing, Ids
<1>5. ASSUME NEW w \in Workers, Take(w) PROVE WorkInv'
  BY <1>5, JobAssumption, NoneIsNoResult, StaysAnswered DEF Take, Disturb, GoTo, files,
       TypeOK, WorkInv, Steps, Working, Writing, Ids
<1>6. ASSUME NEW w \in Workers, Parse(w) PROVE WorkInv'
  <2>1. UNCHANGED <<disk, cur, executed>> /\ pc[w] = "parse"
    BY <1>6 DEF Parse, files
  <2>2. CASE jobs[cur[w]] = "whole"
    BY <1>6, <2>1, <2>2, StaysAnswered DEF Parse, GoTo, TypeOK, WorkInv, Working,
         Writing,
       Steps
  <2>3. CASE jobs[cur[w]] # "whole"
    <3>1. [key |-> "unknown", status |-> "failed"] \in Result
      BY DEF Result, Statuses
    <3>. QED
      BY <1>6, <2>1, <2>3, <3>1, StaysAnswered DEF Parse, GoTo, TypeOK, WorkInv,
           Working,
         Writing, Steps
  <2>. QED
    BY <2>2, <2>3
<1>7. ASSUME NEW w \in Workers, List(w) PROVE WorkInv'
  BY <1>7, JobAssumption, NoneIsNoResult, StaysAnswered DEF List, GoTo, files, history,
       TypeOK, WorkInv, Steps, Working, Writing, Ids
<1>8. ASSUME NEW w \in Workers, NEW p \in todo[w], ReadAs(w, p, disk[p]) PROVE WorkInv'
  <2>0. UNCHANGED <<cur, executed>> /\ pc[w] = "read" /\ p \in Paths
    BY <1>8 DEF ReadAs, files, TypeOK
  <2>1. /\ UNCHANGED <<cur, executed>> /\ pc[w] = "read"
        /\ p \in Paths /\ disk[p] \in Contents
        /\ \A v \in Workers : cur[v] \in Answered => cur'[v] \in Answered'
    BY <2>0, StaysAnswered DEF Places, TypeOK
  <2>2. CASE disk[p].key = KeyOf[cur[w]]
    <3>1. cur[w] \in Ids
      BY <2>1 DEF WorkInv, Working, Steps
    <3>2. disk[p] \in Result
      BY <2>1, <2>2, <3>1, KeyAssumption, JobAssumption DEF Contents, None, Empty, Torn
    <3>3. out' = [out EXCEPT ![w] = disk[p]] /\ pc' = [pc EXCEPT ![w] = "write"]
      BY <1>8, <2>2 DEF ReadAs, GoTo
    <3>. QED
      BY <2>1, <2>2, <3>2, <3>3 DEF TypeOK, WorkInv, Working, Writing, Steps
  <2>3. CASE disk[p].key # KeyOf[cur[w]]
    BY <1>8, <2>1, <2>3 DEF ReadAs, WorkInv
  <2>. QED
    BY <2>2, <2>3
<1>9. ASSUME NEW w \in Workers, NotFound(w) PROVE WorkInv'
  BY <1>9, JobAssumption, NoneIsNoResult, StaysAnswered DEF NotFound, GoTo, files,
       locals, history, TypeOK, WorkInv, Steps, Working, Writing, Ids
<1>10. ASSUME NEW w \in Workers, Execute(w) PROVE WorkInv'
  BY <1>10, JobAssumption, NoneIsNoResult, StaysAnswered DEF Execute, GoTo, files,
       Result, Statuses, Outcome, Kinds, TypeOK, WorkInv, Steps, Working, Writing, Ids
<1>11. ASSUME NEW w \in Workers, Prepares(w) PROVE WorkInv'
  <2>1. UNCHANGED <<cur, out, executed>>
    BY <1>11 DEF Prepares, locals
  <2>2. \A v \in Workers : cur[v] \in Answered => cur'[v] \in Answered'
    BY <2>1, StaysAnswered
  <2>3. PICK s \in {"fill", "rename"} : pc' = [pc EXCEPT ![w] = s]
    BY <1>11 DEF Prepares
  <2>. QED
    BY <1>11, <2>1, <2>2, <2>3 DEF Prepares, TypeOK, WorkInv, Working, Writing, Steps
<1>12. ASSUME NEW w \in Workers, Abandons(w) PROVE WorkInv'
  <2>1. UNCHANGED <<cur, out, executed>>
    BY <1>12 DEF Abandons, locals
  <2>2. \A v \in Workers : cur[v] \in Answered => cur'[v] \in Answered'
    BY <2>1, StaysAnswered
  <2>3. pc' = [pc EXCEPT ![w] = "raised"]
    BY <1>12 DEF Abandons, GiveUp, GoTo
  <2>. QED
    BY <1>12, <2>1, <2>2, <2>3 DEF Abandons, TypeOK, WorkInv, Working, Writing, Steps
<1>13. ASSUME NEW w \in Workers, Publishes(w) PROVE WorkInv'
  <2>1. UNCHANGED <<cur, out, executed>>
    BY <1>13 DEF Publishes, locals
  <2>2. \A v \in Workers : cur[v] \in Answered => cur'[v] \in Answered'
    BY <2>1, StaysAnswered
  <2>3. pc' = [pc EXCEPT ![w] = "move"] /\ cur'[w] \in Answered' /\ pc[w] = "rename"
    BY <1>13, <2>1 DEF Publishes, GoTo
  <2>. QED
    BY <1>13, <2>1, <2>2, <2>3 DEF TypeOK, WorkInv, Working, Writing, Steps
<1>14. ASSUME NEW w \in Workers, Raise(w) PROVE WorkInv'
  BY <1>14, Leaves, StaysAnswered DEF TypeOK, WorkInv, Working, Writing, Steps
<1>15. ASSUME NEW w \in Workers, Move(w) PROVE WorkInv'
  BY <1>15, Leaves, StaysAnswered DEF TypeOK, WorkInv, Working, Writing, Steps
<1>16. ASSUME NEW w \in Workers, Crash(w) PROVE WorkInv'
  BY <1>16, Leaves, StaysAnswered DEF TypeOK, WorkInv, Working, Writing, Steps
<1>17. ASSUME UNCHANGED vars PROVE WorkInv'
  BY <1>17, JobAssumption, NoneIsNoResult, StaysAnswered DEF vars, files, locals,
       history, TypeOK, WorkInv, Steps, Working, Writing, Ids
<1>. QED
  BY <1>1, <1>2, <1>3, <1>4, <1>5, <1>6, <1>7, <1>8, <1>9, <1>10, <1>11, <1>12, <1>13,
       <1>14, <1>15, <1>16, <1>17, EffectCases

\* A worker that takes a job while another works is an overlap.
LEMMA AloneStep ==
    ASSUME TypeOK, WorkInv, FileInv, AloneInv, [Next]_vars
    PROVE  AloneInv'
<1>1. ASSUME NEW i \in Ids, Emit(i) PROVE AloneInv'
  BY <1>1 DEF Emit, Disturb, locals, TypeOK, AloneInv, Steps, Working, Writing, Ids
<1>2. ASSUME NEW i \in Ids, Complete(i) PROVE AloneInv'
  BY <1>2 DEF Complete, locals, history, TypeOK, AloneInv, Disturb, Steps, Working,
       Writing, Ids
<1>3. ASSUME NEW i \in Ids, Ingest(i) PROVE AloneInv'
  BY <1>3 DEF Ingest, Disturb, locals, TypeOK, AloneInv, Steps, Working, Writing, Ids
<1>4. ASSUME NEW w \in Workers, Start(w) PROVE AloneInv'
  BY <1>4 DEF Start, GoTo, files, locals, history, TypeOK, AloneInv, Disturb, Steps,
       Working, Writing, Ids
<1>5. ASSUME NEW w \in Workers, Take(w) PROVE AloneInv'
  BY <1>5 DEF Take, Disturb, GoTo, files, TypeOK, AloneInv, Steps, Working, Writing, Ids
<1>6. ASSUME NEW w \in Workers, Parse(w) PROVE AloneInv'
  <2>1. \A v \in Workers : pc'[v] \in Working => pc[v] \in Working
    BY <1>6 DEF Parse, GoTo, TypeOK, Working, Steps
  <2>. QED
    BY <1>6, <2>1 DEF Parse, history, AloneInv
<1>7. ASSUME NEW w \in Workers, List(w) PROVE AloneInv'
  BY <1>7 DEF List, GoTo, files, history, TypeOK, AloneInv, Disturb, Steps, Working,
       Writing, Ids
<1>8. ASSUME NEW w \in Workers, NEW p \in todo[w], ReadAs(w, p, disk[p]) PROVE AloneInv'
  <2>1. \A v \in Workers : pc'[v] \in Working => pc[v] \in Working
    BY <1>8 DEF ReadAs, GoTo, TypeOK, Working, Steps
  <2>. QED
    BY <1>8, <2>1 DEF ReadAs, history, AloneInv
<1>9. ASSUME NEW w \in Workers, NotFound(w) PROVE AloneInv'
  BY <1>9 DEF NotFound, GoTo, files, locals, history, TypeOK, AloneInv, Disturb, Steps,
       Working, Writing, Ids
<1>10. ASSUME NEW w \in Workers, Execute(w) PROVE AloneInv'
  BY <1>10 DEF Execute, GoTo, files, TypeOK, AloneInv, Disturb, Steps, Working, Writing,
       Ids
<1>11. ASSUME NEW w \in Workers, Prepares(w) PROVE AloneInv'
  <2>1. \A v \in Workers : pc'[v] \in Working => pc[v] \in Working
    BY <1>11 DEF Prepares, GoTo, TypeOK, Working, Steps
  <2>. QED
    BY <1>11, <2>1 DEF Prepares, history, AloneInv
<1>12. ASSUME NEW w \in Workers, Abandons(w) PROVE AloneInv'
  <2>1. \A v \in Workers : pc'[v] \in Working => pc[v] \in Working
    BY <1>12 DEF Abandons, GoTo, GiveUp, Writing, TypeOK, Working, Steps
  <2>. QED
    BY <1>12, <2>1 DEF Abandons, history, AloneInv
<1>13. ASSUME NEW w \in Workers, Publishes(w) PROVE AloneInv'
  <2>1. \A v \in Workers : pc'[v] \in Working => pc[v] \in Working
    BY <1>13 DEF Publishes, GoTo, TypeOK, Working, Steps
  <2>. QED
    BY <1>13, <2>1 DEF Publishes, history, AloneInv
<1>14. ASSUME NEW w \in Workers, Raise(w) PROVE AloneInv'
  BY <1>14, Leaves DEF TypeOK, AloneInv, Working, Steps
<1>15. ASSUME NEW w \in Workers, Move(w) PROVE AloneInv'
  BY <1>15, Leaves DEF TypeOK, AloneInv, Working, Steps
<1>16. ASSUME NEW w \in Workers, Crash(w) PROVE AloneInv'
  BY <1>16, Leaves DEF TypeOK, AloneInv, Working, Steps
<1>17. ASSUME UNCHANGED vars PROVE AloneInv'
  BY <1>17 DEF vars, files, locals, history, TypeOK, AloneInv, Disturb, Steps, Working,
       Writing, Ids
<1>. QED
  BY <1>1, <1>2, <1>3, <1>4, <1>5, <1>6, <1>7, <1>8, <1>9, <1>10, <1>11, <1>12, <1>13,
       <1>14, <1>15, <1>16, <1>17, EffectCases

\* The job of the one worker stays where it is.
LEMMA WholeStep ==
    ASSUME TypeOK, WorkInv, FileInv, AloneInv, WholeInv, [Next]_vars
    PROVE  WholeInv'
<1>1. ASSUME NEW i \in Ids, Emit(i) PROVE WholeInv'
  <2>1. CASE jobs' = [jobs EXCEPT ![i] = "whole"] /\ UNCHANGED disturbed
    BY <1>1, <2>1 DEF Emit, locals, TypeOK, WorkInv, WholeInv, Calm
  <2>2. CASE Disturb({"tear"})
    BY <2>2 DEF Disturb, WholeInv, Calm
  <2>. QED
    BY <1>1, <2>1, <2>2 DEF Emit
<1>2. ASSUME NEW i \in Ids, Complete(i) PROVE WholeInv'
  BY <1>2 DEF Complete, locals, history, TypeOK, WorkInv, AloneInv, WholeInv, Calm,
       Disturb, Steps, Working, Ids
<1>3. ASSUME NEW i \in Ids, Ingest(i) PROVE WholeInv'
  BY <1>3 DEF Ingest, Disturb, locals, TypeOK, WorkInv, AloneInv, WholeInv, Calm, Steps,
       Working, Ids
<1>4. ASSUME NEW w \in Workers, Start(w) PROVE WholeInv'
  BY <1>4 DEF Start, GoTo, files, locals, history, TypeOK, WorkInv, AloneInv, WholeInv,
       Calm, Disturb, Steps, Working, Ids
<1>5. ASSUME NEW w \in Workers, Take(w) PROVE WholeInv'
  <2>1. PICK i \in Ids : jobs[i] # "absent" /\ cur' = [cur EXCEPT ![w] = i]
    BY <1>5 DEF Take
  <2>2. UNCHANGED jobs /\ pc' = [pc EXCEPT ![w] = "parse"] /\ (Calm' => Calm)
    BY <1>5 DEF Take, GoTo, files, Disturb, Calm
  <2>3. Calm => jobs[i] = "whole"
    BY <2>1 DEF WholeInv, TypeOK
  <2>. QED
    BY <2>1, <2>2, <2>3 DEF WholeInv, TypeOK
<1>6. ASSUME NEW w \in Workers, Parse(w) PROVE WholeInv'
  BY <1>6 DEF Parse, GoTo, files, history, TypeOK, WorkInv, AloneInv, WholeInv, Calm,
       Disturb, Steps, Working, Ids
<1>7. ASSUME NEW w \in Workers, List(w) PROVE WholeInv'
  BY <1>7 DEF List, GoTo, files, history, TypeOK, WorkInv, AloneInv, WholeInv, Calm,
       Disturb, Steps, Working, Ids
<1>8. ASSUME NEW w \in Workers, NEW p \in todo[w], ReadAs(w, p, disk[p]) PROVE WholeInv'
  BY <1>8 DEF ReadAs, GoTo, files, history, TypeOK, WorkInv, AloneInv, WholeInv, Calm,
       Disturb, Steps, Working, Ids
<1>9. ASSUME NEW w \in Workers, NotFound(w) PROVE WholeInv'
  BY <1>9 DEF NotFound, GoTo, files, locals, history, TypeOK, WorkInv, AloneInv,
       WholeInv, Calm, Disturb, Steps, Working, Ids
<1>10. ASSUME NEW w \in Workers, Execute(w) PROVE WholeInv'
  BY <1>10 DEF Execute, GoTo, files, TypeOK, WorkInv, AloneInv, WholeInv, Calm, Disturb,
       Steps, Working, Ids
<1>11. ASSUME NEW w \in Workers, Prepares(w) PROVE WholeInv'
  <2>1. \A v \in Workers : pc'[v] \in Working => pc[v] \in Working
    BY <1>11 DEF Prepares, GoTo, TypeOK, Working, Steps
  <2>. QED
    BY <1>11, <2>1 DEF Prepares, history, locals, WholeInv, Calm
<1>12. ASSUME NEW w \in Workers, Abandons(w) PROVE WholeInv'
  <2>1. \A v \in Workers : pc'[v] \in Working => pc[v] \in Working
    BY <1>12 DEF Abandons, GoTo, GiveUp, Writing, TypeOK, Working, Steps
  <2>. QED
    BY <1>12, <2>1 DEF Abandons, history, locals, WholeInv, Calm
<1>13. ASSUME NEW w \in Workers, Publishes(w) PROVE WholeInv'
  <2>1. \A v \in Workers : pc'[v] \in Working => pc[v] \in Working
    BY <1>13 DEF Publishes, GoTo, TypeOK, Working, Steps
  <2>. QED
    BY <1>13, <2>1 DEF Publishes, history, locals, WholeInv, Calm
<1>14. ASSUME NEW w \in Workers, Raise(w) PROVE WholeInv'
  BY <1>14, Leaves DEF Raise, files, TypeOK, WholeInv, Calm, Working, Steps
<1>15. ASSUME NEW w \in Workers, Move(w) PROVE WholeInv'
  <2>1. pc[w] \in Working /\ cur[w] \in Ids
    BY <1>15 DEF Move, WorkInv, Working, Steps
  <2>2. Calm => \A v \in Workers : pc'[v] \notin Working
    BY <1>15, <2>1, Leaves DEF AloneInv, Calm, TypeOK, Working, Steps
  <2>3. UNCHANGED disturbed /\ (jobs' = jobs \/ jobs' = [jobs EXCEPT ![cur[w]] =
       "absent"])
    BY <1>15 DEF Move, history
  <2>. QED
    BY <2>1, <2>2, <2>3 DEF WholeInv, Calm, TypeOK
<1>16. ASSUME NEW w \in Workers, Crash(w) PROVE WholeInv'
  BY <1>16, Leaves DEF Crash, files, TypeOK, WholeInv, Calm, Working, Steps
<1>17. ASSUME UNCHANGED vars PROVE WholeInv'
  BY <1>17 DEF vars, files, locals, history, TypeOK, WorkInv, AloneInv, WholeInv, Calm,
       Disturb, Steps, Working, Ids
<1>. QED
  BY <1>1, <1>2, <1>3, <1>4, <1>5, <1>6, <1>7, <1>8, <1>9, <1>10, <1>11, <1>12, <1>13,
       <1>14, <1>15, <1>16, <1>17, EffectCases

\* A job is answered under its own key.
LEMMA KeyStep ==
    ASSUME TypeOK, WorkInv, FileInv, AloneInv, WholeInv, KeyInv, [Next]_vars
    PROVE  KeyInv'
<1>1. ASSUME NEW i \in Ids, Emit(i) PROVE KeyInv'
  BY <1>1, JobAssumption, NoneIsNoResult DEF Emit, Disturb, locals, None, TypeOK,
       WorkInv, AloneInv, WholeInv, KeyInv, Calm, Steps, Working, Writing, Ids
<1>2. ASSUME NEW i \in Ids, Complete(i) PROVE KeyInv'
  BY <1>2, JobAssumption, NoneIsNoResult DEF Complete, locals, history, TypeOK, WorkInv,
       AloneInv, WholeInv, KeyInv, Calm, Disturb, Steps, Working, Writing, Ids
<1>3. ASSUME NEW i \in Ids, Ingest(i) PROVE KeyInv'
  <2>1. \A p \in Paths : p = <<"processed", i>> => p[2] = i
    OBVIOUS
  <2>2. Calm => disk[<<"results", i>>].key \in {"none", KeyOf[i]}
    BY DEF KeyInv, Paths, Dirs
  <2>3. UNCHANGED <<pc, cur, out>> /\ (Calm' => Calm)
    BY <1>3 DEF Ingest, Disturb, Calm, locals
  <2>. QED
    BY <1>3, <2>1, <2>2, <2>3, IngestDisk, NoneIsNoResult DEF KeyInv
<1>4. ASSUME NEW w \in Workers, Start(w) PROVE KeyInv'
  BY <1>4, JobAssumption, NoneIsNoResult DEF Start, GoTo, files, locals, history,
       TypeOK, WorkInv, AloneInv, WholeInv, KeyInv, Calm, Disturb, Steps, Working,
       Writing, Ids
<1>5. ASSUME NEW w \in Workers, Take(w) PROVE KeyInv'
  BY <1>5, JobAssumption, NoneIsNoResult DEF Take, Disturb, GoTo, files, TypeOK,
       WorkInv, AloneInv, WholeInv, KeyInv, Calm, Steps, Working, Writing, Ids
<1>6. ASSUME NEW w \in Workers, Parse(w) PROVE KeyInv'
  <2>1. pc[w] \in Working /\ UNCHANGED <<disk, cur, disturbed>>
    BY <1>6 DEF Parse, files, history, Working, Steps
  <2>2. CASE jobs[cur[w]] = "whole"
    BY <1>6, <2>1, <2>2 DEF Parse, GoTo, KeyInv, Calm, TypeOK, Writing
  <2>3. CASE jobs[cur[w]] # "whole"
    BY <1>6, <2>1, <2>3 DEF WholeInv, KeyInv, Calm
  <2>. QED
    BY <2>2, <2>3
<1>7. ASSUME NEW w \in Workers, List(w) PROVE KeyInv'
  BY <1>7, JobAssumption, NoneIsNoResult DEF List, GoTo, files, history, TypeOK,
       WorkInv, AloneInv, WholeInv, KeyInv, Calm, Disturb, Steps, Working, Writing, Ids
<1>8. ASSUME NEW w \in Workers, NEW p \in todo[w], ReadAs(w, p, disk[p]) PROVE KeyInv'
  <2>1. UNCHANGED <<disk, cur, disturbed>>
    BY <1>8 DEF ReadAs, files, history
  <2>2. CASE disk[p].key = KeyOf[cur[w]]
    BY <1>8, <2>1, <2>2 DEF ReadAs, GoTo, KeyInv, Calm, TypeOK, Writing
  <2>3. CASE disk[p].key # KeyOf[cur[w]]
    BY <1>8, <2>1, <2>3 DEF ReadAs, KeyInv, Calm
  <2>. QED
    BY <2>2, <2>3
<1>9. ASSUME NEW w \in Workers, NotFound(w) PROVE KeyInv'
  BY <1>9, JobAssumption, NoneIsNoResult DEF NotFound, GoTo, files, locals, history,
       TypeOK, WorkInv, AloneInv, WholeInv, KeyInv, Calm, Disturb, Steps, Working,
       Writing, Ids
<1>10. ASSUME NEW w \in Workers, Execute(w) PROVE KeyInv'
  BY <1>10, JobAssumption, NoneIsNoResult DEF Execute, GoTo, files, TypeOK, WorkInv,
       AloneInv, WholeInv, KeyInv, Calm, Disturb, Steps, Working, Writing, Ids
<1>11. ASSUME NEW w \in Workers, Prepares(w) PROVE KeyInv'
  <2>1. \A v \in Workers : pc'[v] \in Writing => pc[v] \in Writing
    BY <1>11 DEF Prepares, TypeOK, Writing
  <2>2. UNCHANGED <<out, cur, disturbed>> /\ (Calm => SamePaths)
    BY <1>11 DEF Prepares, locals, history, SameUnlessOverlap, Calm
  <2>. QED
    BY <2>1, <2>2 DEF KeyInv, SamePaths, Calm
<1>12. ASSUME NEW w \in Workers, Abandons(w) PROVE KeyInv'
  <2>1. \A v \in Workers : pc'[v] \in Writing => pc[v] \in Writing
    BY <1>12 DEF Abandons, GiveUp, GoTo, TypeOK, Writing
  <2>2. UNCHANGED <<out, cur, disturbed>> /\ (Calm => SamePaths)
    BY <1>12 DEF Abandons, locals, history, SameUnlessOverlap, Calm
  <2>. QED
    BY <2>1, <2>2 DEF KeyInv, SamePaths, Calm
<1>13. ASSUME NEW w \in Workers, Publishes(w) PROVE KeyInv'
  <2>1. \A p \in Paths : p = <<"results", cur[w]>> => p[2] = cur[w]
    OBVIOUS
  <2>2. pc[w] \in Writing /\ \A v \in Workers : pc'[v] \in Writing => pc[v] \in Writing
    BY <1>13 DEF Publishes, GoTo, TypeOK, Writing
  <2>3. UNCHANGED <<out, cur, disturbed>>
    BY <1>13 DEF Publishes, locals, history
  <2>4. Calm => \A p \in Paths : disk'[p].key \in {"none", KeyOf[p[2]]}
    BY <1>13, <2>1, <2>2 DEF Publishes, Calm, KeyInv
  <2>. QED
    BY <2>2, <2>3, <2>4 DEF KeyInv, Calm
<1>14. ASSUME NEW w \in Workers, Raise(w) PROVE KeyInv'
  BY <1>14, Leaves DEF Raise, files, TypeOK, KeyInv, Calm, Writing, Steps
<1>15. ASSUME NEW w \in Workers, Move(w) PROVE KeyInv'
  BY <1>15, Leaves DEF Move, history, files, TypeOK, KeyInv, Calm, Writing, Steps
<1>16. ASSUME NEW w \in Workers, Crash(w) PROVE KeyInv'
  <2>1. \A v \in Workers : pc'[v] \in Writing =>
           pc[v] \in Writing /\ out'[v] = out[v] /\ cur'[v] = cur[v]
    BY <1>16, Leaves DEF TypeOK, Writing
  <2>2. Calm' => Calm /\ SamePaths
    BY <1>16, Leaves, CutDisk DEF Crash, Calm, SameUnlessOverlap
  <2>. QED
    BY <2>1, <2>2 DEF KeyInv, SamePaths
<1>17. ASSUME UNCHANGED vars PROVE KeyInv'
  BY <1>17, JobAssumption, NoneIsNoResult DEF vars, files, locals, history, TypeOK,
       WorkInv, AloneInv, WholeInv, KeyInv, Calm, Disturb, Steps, Working, Writing, Ids
<1>. QED
  BY <1>1, <1>2, <1>3, <1>4, <1>5, <1>6, <1>7, <1>8, <1>9, <1>10, <1>11, <1>12, <1>13,
       <1>14, <1>15, <1>16, <1>17, EffectCases

\* A job file goes when its job has been answered.
LEMMA VanishStep ==
    ASSUME TypeOK, WorkInv, FileInv, VanishInv, [Next]_vars
    PROVE  VanishInv'
<1>1. ASSUME NEW i \in Ids, Emit(i) PROVE VanishInv'
  BY <1>1, StaysAnswered DEF Emit, Disturb, locals, TypeOK, WorkInv, VanishInv, Steps,
       Working, Ids
<1>2. ASSUME NEW i \in Ids, Complete(i) PROVE VanishInv'
  BY <1>2, StaysAnswered DEF Complete, locals, history, TypeOK, WorkInv, VanishInv,
       Steps, Working, Ids
<1>3. ASSUME NEW i \in Ids, Ingest(i) PROVE VanishInv'
  BY <1>3, StaysAnswered DEF Ingest, Disturb, locals, TypeOK, WorkInv, VanishInv, Steps,
       Working, Ids
<1>4. ASSUME NEW w \in Workers, Start(w) PROVE VanishInv'
  BY <1>4, StaysAnswered DEF Start, GoTo, files, locals, history, TypeOK, WorkInv,
       VanishInv, Steps, Working, Ids
<1>5. ASSUME NEW w \in Workers, Take(w) PROVE VanishInv'
  BY <1>5, StaysAnswered DEF Take, Disturb, GoTo, files, TypeOK, WorkInv, VanishInv,
       Steps, Working, Ids
<1>6. ASSUME NEW w \in Workers, Parse(w) PROVE VanishInv'
  BY <1>6, StaysAnswered DEF Parse, GoTo, files, history, TypeOK, WorkInv, VanishInv,
       Steps, Working, Ids
<1>7. ASSUME NEW w \in Workers, List(w) PROVE VanishInv'
  BY <1>7, StaysAnswered DEF List, GoTo, files, history, TypeOK, WorkInv, VanishInv,
       Steps, Working, Ids
<1>8. ASSUME NEW w \in Workers, NEW p \in todo[w], ReadAs(w, p, disk[p]) PROVE
     VanishInv'
  BY <1>8, StaysAnswered DEF ReadAs, GoTo, files, history, TypeOK, WorkInv, VanishInv,
       Steps, Working, Ids
<1>9. ASSUME NEW w \in Workers, NotFound(w) PROVE VanishInv'
  BY <1>9, StaysAnswered DEF NotFound, GoTo, files, locals, history, TypeOK, WorkInv,
       VanishInv, Steps, Working, Ids
<1>10. ASSUME NEW w \in Workers, Execute(w) PROVE VanishInv'
  BY <1>10, StaysAnswered DEF Execute, GoTo, files, TypeOK, WorkInv, VanishInv, Steps,
       Working, Ids
<1>11. ASSUME NEW w \in Workers, Prepares(w) PROVE VanishInv'
  BY <1>11, StaysAnswered DEF Prepares, TypeOK, WorkInv, VanishInv, Steps, Working, Ids
<1>12. ASSUME NEW w \in Workers, Abandons(w) PROVE VanishInv'
  BY <1>12, StaysAnswered DEF Abandons, TypeOK, WorkInv, VanishInv, Steps, Working, Ids
<1>13. ASSUME NEW w \in Workers, Publishes(w) PROVE VanishInv'
  BY <1>13, StaysAnswered DEF Publishes, TypeOK, WorkInv, VanishInv, Steps, Working, Ids
<1>14. ASSUME NEW w \in Workers, Raise(w) PROVE VanishInv'
  BY <1>14, StaysAnswered DEF Raise, Leave, GoTo, files, history, TypeOK, WorkInv,
       VanishInv, Steps, Working, Ids
<1>15. ASSUME NEW w \in Workers, Move(w) PROVE VanishInv'
  BY <1>15, StaysAnswered DEF Move, Leave, GoTo, history, TypeOK, WorkInv, VanishInv,
       Steps, Working, Ids
<1>16. ASSUME NEW w \in Workers, Crash(w) PROVE VanishInv'
  BY <1>16, StaysAnswered DEF Crash, Lose, Disturb, Leave, GoTo, TypeOK, WorkInv,
       VanishInv, Steps, Working, Ids
<1>17. ASSUME UNCHANGED vars PROVE VanishInv'
  BY <1>17, StaysAnswered DEF vars, files, locals, history, TypeOK, WorkInv, VanishInv,
       Steps, Working, Ids
<1>. QED
  BY <1>1, <1>2, <1>3, <1>4, <1>5, <1>6, <1>7, <1>8, <1>9, <1>10, <1>11, <1>12, <1>13,
       <1>14, <1>15, <1>16, <1>17, EffectCases

\* What is quiet now was quiet before, and calm.
LEMMA Quietness ==
    ASSUME [Next]_vars
    PROVE  /\ disturbed \subseteq disturbed'
           /\ (Quiet({"crash"}))' => Quiet({"crash"}) /\ Calm /\ Calm'
<1>1. disturbed \subseteq disturbed'
  <2>1. ASSUME NEW w \in Workers, Start(w) \/ Consume(w) \/ Crash(w)
        PROVE  disturbed \subseteq disturbed'
    BY <2>1 DEF Consume, Disturb, history, Start, Take, Parse, List, Read, ReadAs,
         NotFound,
         Execute, Open, Fill, FailToFill, Publish, FailToPublish, Raise, Move, Crash
  <2>2. ASSUME NEW i \in Ids, Emit(i) \/ Complete(i) \/ Ingest(i)
        PROVE  disturbed \subseteq disturbed'
    BY <2>2 DEF Emit, Complete, Ingest, Disturb, history
  <2>3. CASE UNCHANGED vars
    BY <2>3 DEF vars, history
  <2>. QED
    BY <2>1, <2>2, <2>3 DEF Next
<1>. QED
  BY <1>1 DEF Quiet, Calm

\* No two workers are at work at once.
LEMMA OneAtWork ==
    ASSUME AloneInv, Calm, NEW v \in Workers, NEW w \in Workers,
           pc[v] \in Working, pc[w] \in Working
    PROVE  v = w
  BY DEF AloneInv, Calm

\* A lookup misses only what is ingested while it reads.
LEMMA LookupStep ==
    ASSUME TypeOK, WorkInv, FileInv, AloneInv, LookupInv, [Next]_vars
    PROVE  LookupInv'
<1>1. ASSUME NEW i \in Ids, Emit(i) PROVE LookupInv'
  BY <1>1, Quietness DEF Emit, Disturb, locals, TypeOK, LookupInv, Working, Steps
<1>2. ASSUME NEW i \in Ids, Complete(i) PROVE LookupInv'
  BY <1>2, Quietness DEF Complete, locals, history, TypeOK, LookupInv, Working, Steps
<1>3. ASSUME NEW i \in Ids, Ingest(i) PROVE LookupInv'
  <2>1. UNCHANGED <<pc, cur, todo>>
    BY <1>3 DEF Ingest, locals
  <2>2. Quiet({"crash"})' => \A w \in Workers : pc[w] # "read"
    BY <1>3 DEF Ingest, Disturb, Quiet
  <2>3. \A w \in Workers : pc[w] = "execute" => cur[w] \in Ids
    BY DEF WorkInv, Working, Steps
  <2>4. <<"results", i>> \in Paths
    BY DEF Paths, Dirs
  <2>. QED
    BY <1>3, <2>1, <2>2, <2>3, <2>4, IngestDisk, NoneIsNoResult, Quietness DEF LookupInv
<1>4. ASSUME NEW w \in Workers, Start(w) PROVE LookupInv'
  BY <1>4, Quietness DEF Start, GoTo, files, locals, history, TypeOK, LookupInv,
       Working, Steps
<1>5. ASSUME NEW w \in Workers, Take(w) PROVE LookupInv'
  BY <1>5, Quietness DEF Take, Disturb, GoTo, files, TypeOK, LookupInv, Working, Steps
<1>6. ASSUME NEW w \in Workers, Parse(w) PROVE LookupInv'
  BY <1>6, Quietness DEF Parse, GoTo, files, history, TypeOK, LookupInv, Working, Steps
<1>7. ASSUME NEW w \in Workers, List(w) PROVE LookupInv'
  <2>1. cur[w] \in Ids
    BY <1>7 DEF List, WorkInv, Working, Steps
  <2>. QED
    BY <1>7, <2>1, NoneIsNoResult, Quietness DEF List, GoTo, files, TypeOK, LookupInv
<1>8. ASSUME NEW w \in Workers, NEW p \in todo[w], ReadAs(w, p, disk[p]) PROVE
     LookupInv'
  BY <1>8, Quietness DEF ReadAs, GoTo, files, history, TypeOK, LookupInv, Working, Steps
<1>9. ASSUME NEW w \in Workers, NotFound(w) PROVE LookupInv'
  BY <1>9, Quietness DEF NotFound, GoTo, files, locals, history, TypeOK, LookupInv,
       Working, Steps
<1>10. ASSUME NEW w \in Workers, Execute(w) PROVE LookupInv'
  BY <1>10, Quietness DEF Execute, GoTo, files, TypeOK, LookupInv, Working, Steps
<1>11. ASSUME NEW w \in Workers, Prepares(w) PROVE LookupInv'
  <2>1. pc[w] \in Working
    BY <1>11 DEF Prepares, Working, Writing, Steps
  <2>2. Calm => \A v \in Workers : pc'[v] \notin {"read", "execute"}
    BY <1>11, <2>1, OneAtWork DEF Prepares, TypeOK, Working, Steps
  <2>. QED
    BY <2>2, Quietness DEF LookupInv
<1>12. ASSUME NEW w \in Workers, Abandons(w) PROVE LookupInv'
  <2>1. pc[w] \in Working
    BY <1>12 DEF Abandons, Working, Writing, Steps
  <2>2. Calm => \A v \in Workers : pc'[v] \notin {"read", "execute"}
    BY <1>12, <2>1, OneAtWork DEF Abandons, GiveUp, GoTo, TypeOK, Working, Steps
  <2>. QED
    BY <2>2, Quietness DEF LookupInv
<1>13. ASSUME NEW w \in Workers, Publishes(w) PROVE LookupInv'
  <2>1. pc[w] \in Working
    BY <1>13 DEF Publishes, Working, Writing, Steps
  <2>2. Calm => \A v \in Workers : pc'[v] \notin {"read", "execute"}
    BY <1>13, <2>1, OneAtWork DEF Publishes, GoTo, TypeOK, Working, Steps
  <2>. QED
    BY <2>2, Quietness DEF LookupInv
<1>14. ASSUME NEW w \in Workers, Raise(w) PROVE LookupInv'
  BY <1>14, Leaves, Quietness DEF TypeOK, LookupInv
<1>15. ASSUME NEW w \in Workers, Move(w) PROVE LookupInv'
  BY <1>15, Leaves, Quietness DEF TypeOK, LookupInv
<1>16. ASSUME NEW w \in Workers, Crash(w) PROVE LookupInv'
  <2>1. \A v \in Workers : pc'[v] \in {"read", "execute"} =>
           pc'[v] = pc[v] /\ cur'[v] = cur[v] /\ todo'[v] = todo[v]
    BY <1>16, Leaves DEF TypeOK
  <2>2. Quiet({"crash"})' => Quiet({"crash"}) /\ SamePaths
    BY <1>16, CutDisk, Quietness DEF Crash, SameUnlessOverlap, Calm
  <2>. QED
    BY <2>1, <2>2 DEF LookupInv, SamePaths
<1>17. ASSUME UNCHANGED vars PROVE LookupInv'
  BY <1>17, Quietness DEF vars, files, locals, history, TypeOK, LookupInv, Working,
       Steps
<1>. QED
  BY <1>1, <1>2, <1>3, <1>4, <1>5, <1>6, <1>7, <1>8, <1>9, <1>10, <1>11, <1>12, <1>13,
       <1>14, <1>15, <1>16, <1>17, EffectCases

\* As long as workers have not overlapped, results appear and are ingested, and nothing
\* else happens to one.
LEMMA PathsChange ==
    ASSUME TypeOK, WorkInv, FileInv, [Next]_vars, "overlap" \notin disturbed
    PROVE  \/ SamePaths
           \/ \E i \in Ids : Ingest(i)
           \/ \E w \in Workers : Publishes(w)
<1>1. ASSUME NEW w \in Workers, Prepares(w) \/ Abandons(w) PROVE SamePaths
  BY <1>1 DEF Prepares, Abandons, SameUnlessOverlap
<1>2. ASSUME NEW w \in Workers, Crash(w) PROVE SamePaths
  BY <1>2, CutDisk DEF Crash, SameUnlessOverlap
<1>3. ASSUME NEW w \in Workers, Raise(w) \/ Move(w) PROVE SamePaths
  BY <1>3, Leaves DEF SamePaths
<1>4. CASE UNCHANGED disk
  BY <1>4 DEF SamePaths
<1>5. ASSUME NEW i \in Ids, Emit(i) \/ Complete(i) PROVE UNCHANGED disk
  BY <1>5 DEF Emit, Complete
<1>6. ASSUME NEW w \in Workers,
             Start(w) \/ Take(w) \/ Parse(w) \/ List(w) \/ NotFound(w) \/ Execute(w)
      PROVE  UNCHANGED disk
  BY <1>6 DEF Start, Take, Parse, List, NotFound, Execute, files
<1>7. ASSUME NEW w \in Workers, NEW p \in todo[w], ReadAs(w, p, disk[p])
      PROVE  UNCHANGED disk
  BY <1>7 DEF ReadAs, files
<1>8. ASSUME UNCHANGED vars PROVE UNCHANGED disk
  BY <1>8 DEF vars, files
<1>. QED
  BY <1>1, <1>2, <1>3, <1>4, <1>5, <1>6, <1>7, <1>8, EffectCases

\* With one worker and whole job files a key that has a result keeps one.
LEMMA StaysRecorded ==
    ASSUME TypeOK, WorkInv, FileInv, KeyInv, [Next]_vars, Calm, NEW k \in Keys,
         Recorded(k)
    PROVE  Recorded(k)'
<1>1. PICK p \in Paths : disk[p].key = k
  BY DEF Recorded
<1>2. p[2] \in Ids /\ p[1] \in Dirs /\ p = <<p[1], p[2]>> /\ KeyOf[p[2]] = k
  <2>1. p[2] \in Ids /\ p[1] \in Dirs /\ p = <<p[1], p[2]>>
    BY DEF Paths
  <2>2. disk[p].key \in {"none", KeyOf[p[2]]}
    BY DEF KeyInv
  <2>. QED
    BY <1>1, <2>1, <2>2, KeyAssumption
<1>3. ASSUME NEW i \in Ids, Ingest(i) PROVE Recorded(k)'
  <2>1. <<"results", i>> \in Paths /\ <<"processed", i>> \in Paths
        /\ <<"results", i>> # <<"processed", i>>
    BY DEF Paths, Dirs
  <2>2. disk[<<"results", i>>].key = KeyOf[i]
    <3>1. disk[<<"results", i>>] \in Result
      BY <1>3, <2>1, IngestDisk DEF FileInv, OwnInv, Calm
    <3>2. disk[<<"results", i>>].key # "none"
      BY <3>1, KeyAssumption DEF Result
    <3>3. disk[<<"results", i>>].key \in {"none", KeyOf[<<"results", i>>[2]]}
      BY <2>1 DEF KeyInv
    <3>. QED
      BY <3>2, <3>3
  <2>3. CASE i = p[2]
    <3>1. disk'[<<"processed", i>>].key = k
      BY <1>2, <1>3, <2>1, <2>2, <2>3, IngestDisk
    <3>. QED
      BY <2>1, <3>1 DEF Recorded
  <2>4. CASE i # p[2]
    <3>1. p # <<"results", i>> /\ p # <<"processed", i>>
      BY <2>4
    <3>2. disk'[p] = disk[p]
      BY <1>3, <3>1, IngestDisk
    <3>. QED
      BY <1>1, <3>2 DEF Recorded
  <2>. QED
    BY <2>3, <2>4
<1>4. ASSUME NEW w \in Workers, Publishes(w) PROVE Recorded(k)'
  <2>1. pc[w] \in Writing /\ out[w].key = KeyOf[cur[w]]
    BY <1>4 DEF Publishes, Writing, KeyInv
  <2>2. p = <<"results", cur[w]>> => out[w].key = k
    BY <1>2, <2>1
  <2>3. disk'[p].key = k
    BY <1>1, <1>4, <2>2 DEF Publishes, Calm
  <2>. QED
    BY <2>3 DEF Recorded
<1>5. CASE SamePaths
  BY <1>1, <1>5 DEF Recorded, SamePaths
<1>. QED
  BY <1>3, <1>4, <1>5, PathsChange DEF Calm

\* A worker about to lose what it executed is counted.
LEMMA HeldIsCounted ==
    ASSUME TypeOK, WorkInv, CountInv, NEW w \in Workers, pc[w] \in Writing, executed[w]
    PROVE  KeyOf[cur[w]] \in Keys /\ runs[KeyOf[cur[w]]] \in Nat \ {0}
<1> DEFINE k == KeyOf[cur[w]]
<1>1. k \in Keys
  BY NoneIsNoResult DEF WorkInv, Working, Writing, Steps
<1>2. w \in Holders(k) /\ IsFiniteSet(Holders(k)) /\ Cardinality(Holders(k)) <= runs[k]
  BY <1>1 DEF Holders, Holds, CountInv
<1>3. Cardinality(Holders(k)) # 0 /\ Cardinality(Holders(k)) \in Nat
  BY <1>2, FS_EmptySet, FS_CardinalityType
<1>. QED
  BY <1>1, <1>2, <1>3 DEF TypeOK

\* Adding and taking an element away, for sets known only by a bound.
LEMMA OneMoreOrLess ==
    ASSUME NEW S, IsFiniteSet(S), NEW n \in Nat, Cardinality(S) <= n, NEW x
    PROVE  /\ IsFiniteSet(S \cup {x}) /\ Cardinality(S \cup {x}) <= n + 1
           /\ IsFiniteSet(S \ {x}) /\ Cardinality(S \ {x}) <= n
           /\ x \in S => Cardinality(S \ {x}) <= n - 1
<1>1. Cardinality(S) \in Nat
  BY FS_CardinalityType
<1>2. IsFiniteSet(S \cup {x})
      /\ \/ Cardinality(S \cup {x}) = Cardinality(S)
         \/ Cardinality(S \cup {x}) = Cardinality(S) + 1
  BY FS_AddElement
<1>3. IsFiniteSet(S \ {x})
      /\ Cardinality(S \ {x}) = IF x \in S THEN Cardinality(S) - 1 ELSE Cardinality(S)
  BY FS_RemoveElement
<1>. QED
  BY <1>1, <1>2, <1>3

\* Executions are counted, or held, differently after four actions only.
LEMMA HoldSame ==
    ASSUME TypeOK, WorkInv, FileInv, [Next]_vars
    PROVE  SameHolders \/ \E v \in Workers :
              Execute(v) \/ Abandons(v) \/ Publishes(v) \/ Crash(v)
<1>1. ASSUME NEW i \in Ids, Emit(i) PROVE SameHolders \/ \E v \in Workers : Execute(v)
     \/ Abandons(v) \/ Publishes(v) \/ Crash(v)
  <2>1. \A k \in Keys : Holders(k)' = Holders(k)
    BY <1>1 DEF Emit, Disturb, locals, Holders, Holds, Writing, TypeOK
  <2>. QED
    BY <1>1, <2>1 DEF Emit, Disturb, locals, history, SameHolders
<1>2. ASSUME NEW i \in Ids, Complete(i) PROVE SameHolders \/ \E v \in Workers :
     Execute(v) \/ Abandons(v) \/ Publishes(v) \/ Crash(v)
  <2>1. \A k \in Keys : Holders(k)' = Holders(k)
    BY <1>2 DEF Complete, locals, history, Holders, Holds, Writing, TypeOK
  <2>. QED
    BY <1>2, <2>1 DEF Complete, locals, history, history, SameHolders
<1>3. ASSUME NEW i \in Ids, Ingest(i) PROVE SameHolders \/ \E v \in Workers : Execute(v)
     \/ Abandons(v) \/ Publishes(v) \/ Crash(v)
  <2>1. \A k \in Keys : Holders(k)' = Holders(k)
    BY <1>3 DEF Ingest, Disturb, locals, Holders, Holds, Writing, TypeOK
  <2>. QED
    BY <1>3, <2>1 DEF Ingest, Disturb, locals, history, SameHolders
<1>4. ASSUME NEW w \in Workers, Start(w) PROVE SameHolders \/ \E v \in Workers :
     Execute(v) \/ Abandons(v) \/ Publishes(v) \/ Crash(v)
  <2>1. \A k \in Keys : Holders(k)' = Holders(k)
    BY <1>4 DEF Start, GoTo, files, locals, history, Holders, Holds, Writing, TypeOK
  <2>. QED
    BY <1>4, <2>1 DEF Start, GoTo, files, locals, history, history, SameHolders
<1>5. ASSUME NEW w \in Workers, Take(w) PROVE SameHolders \/ \E v \in Workers :
     Execute(v) \/ Abandons(v) \/ Publishes(v) \/ Crash(v)
  <2>1. \A k \in Keys : Holders(k)' = Holders(k)
    BY <1>5 DEF Take, GoTo, Holders, Holds, Writing, TypeOK
  <2>. QED
    BY <1>5, <2>1 DEF Take, GoTo, history, SameHolders
<1>6. ASSUME NEW w \in Workers, Parse(w) PROVE SameHolders \/ \E v \in Workers :
     Execute(v) \/ Abandons(v) \/ Publishes(v) \/ Crash(v)
  <2>1. pc[w] \notin Writing \cup {"raised", "move"} /\ ~executed[w]
    BY <1>6 DEF Parse, Writing, WorkInv
  <2>2. \A k \in Keys : Holders(k)' = Holders(k)
    BY <1>6, <2>1 DEF Parse, GoTo, Holders, Holds, TypeOK
  <2>. QED
    BY <1>6, <2>2 DEF Parse, history, SameHolders
<1>7. ASSUME NEW w \in Workers, List(w) PROVE SameHolders \/ \E v \in Workers :
     Execute(v) \/ Abandons(v) \/ Publishes(v) \/ Crash(v)
  <2>1. \A k \in Keys : Holders(k)' = Holders(k)
    BY <1>7 DEF List, GoTo, history, Holders, Holds, Writing, TypeOK
  <2>. QED
    BY <1>7, <2>1 DEF List, GoTo, history, history, SameHolders
<1>8. ASSUME NEW w \in Workers, NEW p \in todo[w], ReadAs(w, p, disk[p]) PROVE
     SameHolders \/ \E v \in Workers : Execute(v) \/ Abandons(v) \/ Publishes(v) \/
     Crash(v)
  <2>1. pc[w] \notin Writing \cup {"raised", "move"} /\ ~executed[w]
    BY <1>8 DEF ReadAs, Writing, WorkInv
  <2>2. \A k \in Keys : Holders(k)' = Holders(k)
    BY <1>8, <2>1 DEF ReadAs, GoTo, Holders, Holds, TypeOK
  <2>. QED
    BY <1>8, <2>2 DEF ReadAs, history, SameHolders
<1>9. ASSUME NEW w \in Workers, NotFound(w) PROVE SameHolders \/ \E v \in Workers :
     Execute(v) \/ Abandons(v) \/ Publishes(v) \/ Crash(v)
  <2>1. \A k \in Keys : Holders(k)' = Holders(k)
    BY <1>9 DEF NotFound, GoTo, files, locals, history, Holders, Holds, Writing, TypeOK
  <2>. QED
    BY <1>9, <2>1 DEF NotFound, GoTo, files, locals, history, history, SameHolders
<1>10. ASSUME NEW w \in Workers, Execute(w) PROVE SameHolders \/ \E v \in Workers :
     Execute(v) \/ Abandons(v) \/ Publishes(v) \/ Crash(v)
  BY <1>10
<1>11. ASSUME NEW w \in Workers, Prepares(w) PROVE SameHolders \/ \E v \in Workers :
     Execute(v) \/ Abandons(v) \/ Publishes(v) \/ Crash(v)
  <2>1. \A k \in Keys : Holders(k)' = Holders(k)
    BY <1>11 DEF Prepares, locals, Holders, Holds, Writing, TypeOK
  <2>. QED
    BY <1>11, <2>1 DEF Prepares, locals, history, SameHolders
<1>12. ASSUME NEW w \in Workers, Abandons(w) PROVE SameHolders \/ \E v \in Workers :
     Execute(v) \/ Abandons(v) \/ Publishes(v) \/ Crash(v)
  BY <1>12
<1>13. ASSUME NEW w \in Workers, Publishes(w) PROVE SameHolders \/ \E v \in Workers :
     Execute(v) \/ Abandons(v) \/ Publishes(v) \/ Crash(v)
  BY <1>13
<1>14. ASSUME NEW w \in Workers, Raise(w) PROVE SameHolders \/ \E v \in Workers :
     Execute(v) \/ Abandons(v) \/ Publishes(v) \/ Crash(v)
  <2>1. \A k \in Keys : Holders(k)' = Holders(k)
    BY <1>14, Leaves DEF Raise, Holders, Holds, Writing, TypeOK
  <2>. QED
    BY <1>14, <2>1 DEF Raise, history, SameHolders
<1>15. ASSUME NEW w \in Workers, Move(w) PROVE SameHolders \/ \E v \in Workers :
     Execute(v) \/ Abandons(v) \/ Publishes(v) \/ Crash(v)
  <2>1. \A k \in Keys : Holders(k)' = Holders(k)
    BY <1>15, Leaves DEF Move, Holders, Holds, Writing, TypeOK
  <2>. QED
    BY <1>15, <2>1 DEF Move, history, SameHolders
<1>16. ASSUME NEW w \in Workers, Crash(w) PROVE SameHolders \/ \E v \in Workers :
     Execute(v) \/ Abandons(v) \/ Publishes(v) \/ Crash(v)
  BY <1>16
<1>17. ASSUME UNCHANGED vars PROVE SameHolders \/ \E v \in Workers : Execute(v) \/
     Abandons(v) \/ Publishes(v) \/ Crash(v)
  <2>1. \A k \in Keys : Holders(k)' = Holders(k)
    BY <1>17 DEF vars, files, locals, history, Holders, Holds, Writing, TypeOK
  <2>. QED
    BY <1>17, <2>1 DEF vars, files, locals, history, history, SameHolders
<1>. QED
  BY <1>1, <1>2, <1>3, <1>4, <1>5, <1>6, <1>7, <1>8, <1>9, <1>10, <1>11, <1>12, <1>13,
       <1>14, <1>15, <1>16, <1>17, EffectCases

\* An execution is counted, and held by the worker it is of.
LEMMA HoldAdds ==
    ASSUME TypeOK, WorkInv, NEW w \in Workers, Execute(w)
    PROVE  /\ KeyOf[cur[w]] \in Keys /\ UNCHANGED disk /\ runs' \in [Keys -> Nat]
           /\ \A k \in Keys :
                 \/ Holders(k)' = Holders(k) /\ runs'[k] = runs[k]
                 \/ /\ k = KeyOf[cur[w]]
                    /\ Holders(k)' = Holders(k) \cup {w} /\ runs'[k] = runs[k] + 1
<1>1. cur[w] \in Ids /\ KeyOf[cur[w]] \in Keys /\ pc[w] = "execute"
  BY NoneIsNoResult DEF Execute, WorkInv, Working, Steps
<1>2. pc' = [pc EXCEPT ![w] = "write"] /\ UNCHANGED <<disk, cur>>
      /\ executed' = [executed EXCEPT ![w] = (KindOf[cur[w]] = "allowed")]
      /\ (KindOf[cur[w]] # "allowed" => runs' = runs)
      /\ (KindOf[cur[w]] = "allowed" => runs' = [runs EXCEPT ![KeyOf[cur[w]]] = @ + 1])
  BY DEF Execute, GoTo, files
<1>3. \A k \in Keys : Holders(k)' = IF KindOf[cur[w]] = "allowed" /\ KeyOf[cur[w]] = k
                                    THEN Holders(k) \cup {w} ELSE Holders(k)
  BY <1>1, <1>2 DEF Holders, Holds, Writing, TypeOK
<1>. QED
  BY <1>1, <1>2, <1>3 DEF TypeOK

\* What losing an execution does to the count of its key.
LEMMA Loses ==
    ASSUME TypeOK, WorkInv, CountInv, NEW w \in Workers, pc[w] \in Writing, Lose(w)
    PROVE  /\ runs' \in [Keys -> Nat]
           /\ \A k \in Keys : runs'[k] = IF w \in Holders(k) THEN runs[k] - 1 ELSE
                runs[k]
<1>1. CASE ~executed[w]
  BY <1>1 DEF Lose, Holders, Holds, TypeOK
<1>2. CASE executed[w]
  <2>1. KeyOf[cur[w]] \in Keys /\ runs[KeyOf[cur[w]]] \in Nat \ {0}
    BY <1>2, HeldIsCounted
  <2>2. runs' = [runs EXCEPT ![KeyOf[cur[w]]] = @ - 1]
    BY <1>2 DEF Lose
  <2>3. \A k \in Keys : w \in Holders(k) <=> k = KeyOf[cur[w]]
    BY <1>2 DEF Holders, Holds
  <2>4. runs' \in [Keys -> Nat]
    <3>1. runs[KeyOf[cur[w]]] - 1 \in Nat
      BY <2>1
    <3>. QED
      BY <2>1, <2>2, <3>1 DEF TypeOK
  <2>. QED
    BY <2>1, <2>2, <2>3, <2>4 DEF TypeOK
<1>. QED
  BY <1>1, <1>2

\* A worker that is done with writing, or is killed, no longer holds an execution: its
\* result is on disk, or it is not counted any more.
LEMMA HoldDrops ==
    ASSUME TypeOK, WorkInv, CountInv, NEW w \in Workers,
           Abandons(w) \/ Publishes(w) \/ Crash(w)
    PROVE  /\ runs' \in [Keys -> Nat]
           /\ \A k \in Keys :
                 /\ Holders(k)' = Holders(k) \ {w}
                 /\ \/ w \in Holders(k) /\ runs'[k] = runs[k] - 1
                    \/ runs'[k] = runs[k] /\ (w \in Holders(k) => Publishes(w))
<1>1. CASE Abandons(w)
  <2>1. \A k \in Keys : Holders(k)' = Holders(k) \ {w}
    BY <1>1 DEF Abandons, GiveUp, GoTo, locals, Holders, Holds, Writing, TypeOK
  <2>2. Lose(w) /\ pc[w] \in Writing
    BY <1>1 DEF Abandons, GiveUp
  <2>. QED
    BY <2>1, <2>2, Loses
<1>2. CASE Publishes(w)
  <2>1. \A k \in Keys : Holders(k)' = Holders(k) \ {w}
    BY <1>2 DEF Publishes, GoTo, locals, Holders, Holds, Writing, TypeOK
  <2>. QED
    BY <1>2, <2>1 DEF Publishes, history, TypeOK
<1>3. CASE Crash(w)
  <2>1. \A k \in Keys : Holders(k)' = Holders(k) \ {w}
    BY <1>3, Leaves DEF Holders, Holds, Writing, TypeOK
  <2>2. CASE pc[w] \in Writing
    <3>1. Lose(w)
      BY <1>3, <2>2 DEF Crash
    <3>. QED
      BY <2>1, <2>2, <3>1, Loses
  <2>3. CASE pc[w] \notin Writing
    BY <1>3, <2>1, <2>3 DEF Crash, TypeOK, Holders, Holds
  <2>. QED
    BY <2>2, <2>3
<1>. QED
  BY <1>1, <1>2, <1>3

\* Executions are counted once, and uncounted once when they are lost.
LEMMA CountStep ==
    ASSUME TypeOK, WorkInv, FileInv, CountInv, [Next]_vars
    PROVE  CountInv'
<1>0. \A k \in Keys : runs[k] \in Nat
  BY DEF TypeOK
<1>1. CASE SameHolders
  BY <1>1 DEF SameHolders, CountInv
<1>2. ASSUME NEW w \in Workers, Execute(w) PROVE CountInv'
  <2> SUFFICES ASSUME NEW k \in Keys
               PROVE  IsFiniteSet(Holders(k)') /\ Cardinality(Holders(k)') <= runs'[k]
    BY DEF CountInv
  <2>1. IsFiniteSet(Holders(k)) /\ Cardinality(Holders(k)) <= runs[k]
    BY DEF CountInv
  <2>2. \/ Holders(k)' = Holders(k) /\ runs'[k] = runs[k]
        \/ Holders(k)' = Holders(k) \cup {w} /\ runs'[k] = runs[k] + 1
    BY <1>2, HoldAdds
  <2>3. IsFiniteSet(Holders(k) \cup {w}) /\ Cardinality(Holders(k) \cup {w}) <= runs[k]
       + 1
    BY <1>0, <2>1, OneMoreOrLess
  <2>. QED
    BY <2>1, <2>2, <2>3
<1>3. ASSUME NEW w \in Workers, Abandons(w) \/ Publishes(w) \/ Crash(w) PROVE CountInv'
  <2> SUFFICES ASSUME NEW k \in Keys
               PROVE  IsFiniteSet(Holders(k)') /\ Cardinality(Holders(k)') <= runs'[k]
    BY DEF CountInv
  <2>1. IsFiniteSet(Holders(k)) /\ Cardinality(Holders(k)) <= runs[k]
    BY DEF CountInv
  <2>2. /\ Holders(k)' = Holders(k) \ {w}
        /\ \/ w \in Holders(k) /\ runs'[k] = runs[k] - 1
           \/ runs'[k] = runs[k]
    BY <1>3, HoldDrops
  <2>3. /\ IsFiniteSet(Holders(k) \ {w}) /\ Cardinality(Holders(k) \ {w}) <= runs[k]
        /\ w \in Holders(k) => Cardinality(Holders(k) \ {w}) <= runs[k] - 1
    BY <1>0, <2>1, OneMoreOrLess
  <2>. QED
    BY <2>2, <2>3
<1>. QED
  BY <1>1, <1>2, <1>3, HoldSame

\* A key whose execution is counted has a result, or a worker about to write one.
LEMMA OnceStep ==
    ASSUME TypeOK, WorkInv, FileInv, CountInv, AloneInv, KeyInv, LookupInv, OnceInv,
           [Next]_vars
    PROVE  OnceInv'
<1> SUFFICES ASSUME (Quiet({"crash"}))', NEW k \in Keys
             PROVE  runs'[k] <= 1 /\ (runs'[k] = 1 => Recorded(k)' \/ Holders(k)' # {})
  BY DEF OnceInv, Holders
<1>1. Quiet({"crash"}) /\ Calm
  BY Quietness
<1>2. /\ runs[k] \in Nat /\ runs[k] <= 1
      /\ runs[k] = 1 => Recorded(k) \/ Holders(k) # {}
  BY <1>1 DEF OnceInv, Holders, TypeOK
<1>3. Recorded(k) => Recorded(k)'
  BY <1>1, StaysRecorded
<1>4. CASE SameHolders
  BY <1>2, <1>3, <1>4 DEF SameHolders
<1>5. ASSUME NEW w \in Workers, Execute(w)
      PROVE  runs'[k] <= 1 /\ (runs'[k] = 1 => Recorded(k)' \/ Holders(k)' # {})
  <2>1. pc[w] = "execute"
    BY <1>5 DEF Execute
  <2>2. CASE Holders(k)' = Holders(k) /\ runs'[k] = runs[k]
    BY <1>2, <1>3, <2>2
  <2>3. CASE /\ k = KeyOf[cur[w]]
             /\ Holders(k)' = Holders(k) \cup {w} /\ runs'[k] = runs[k] + 1
    <3>1. ~Recorded(k)
      BY <1>1, <2>1, <2>3 DEF LookupInv, Recorded
    <3>2. Holders(k) = {}
      BY <1>1, <2>1, OneAtWork DEF Holders, Holds, Writing, Working, Steps
    <3>. QED
      BY <1>2, <2>3, <3>1, <3>2
  <2>. QED
    BY <1>5, <2>2, <2>3, HoldAdds
<1>6. ASSUME NEW w \in Workers, Abandons(w) \/ Publishes(w) \/ Crash(w)
      PROVE  runs'[k] <= 1 /\ (runs'[k] = 1 => Recorded(k)' \/ Holders(k)' # {})
  <2>1. Holders(k)' = Holders(k) \ {w}
    BY <1>6, HoldDrops
  <2>2. CASE w \in Holders(k) /\ runs'[k] = runs[k] - 1
    BY <1>2, <2>2
  <2>3. CASE runs'[k] = runs[k] /\ (w \in Holders(k) => Publishes(w))
    <3>1. ASSUME w \in Holders(k) PROVE Recorded(k)'
      <4>1. pc[w] \in Writing /\ KeyOf[cur[w]] = k /\ out[w].key = k
        BY <1>1, <3>1 DEF Holders, Holds, KeyInv
      <4>2. cur[w] \in Ids
        BY <4>1 DEF WorkInv, Writing, Working, Steps
      <4>3. disk'[<<"results", cur[w]>>] = out[w]
        BY <1>1, <2>3, <3>1, <4>2, Apart DEF Publishes, Calm
      <4>. QED
        BY <4>1, <4>2, <4>3, Apart DEF Recorded
    <3>2. w \notin Holders(k) => Holders(k)' = Holders(k)
      BY <2>1
    <3>. QED
      BY <1>2, <1>3, <2>3, <3>1, <3>2
  <2>. QED
    BY <1>6, <2>2, <2>3, HoldDrops
<1>. QED
  BY <1>4, <1>5, <1>6, HoldSame

\* After ingestion, the results of a key are some of those it had before.
LEMMA IngestMoves ==
    ASSUME TypeOK, NEW i \in Ids, Ingest(i), NEW p \in Paths, disk'[p].key \in Keys
    PROVE  \E q \in Paths : disk[q] = disk'[p]
<1>1. None.key \notin Keys
  BY KeyAssumption DEF None
<1>2. <<"results", i>> \in Paths
  BY DEF Paths, Dirs
<1>. QED
  BY <1>1, <1>2, IngestDisk

\* What a worker is about to write agrees with what is on disk.
LEMMA AgreeStep ==
    ASSUME TypeOK, WorkInv, FileInv, AloneInv, WholeInv, KeyInv, LookupInv,
         ReplaysAgree, AgreeInv, [Next]_vars
    PROVE  AgreeInv'
<1>1. ASSUME NEW i \in Ids, Emit(i) PROVE AgreeInv'
  BY <1>1, Quietness DEF Emit, Disturb, locals, TypeOK, AgreeInv, Writing
<1>2. ASSUME NEW i \in Ids, Complete(i) PROVE AgreeInv'
  BY <1>2, Quietness DEF Complete, locals, history, TypeOK, AgreeInv, Writing
<1>3. ASSUME NEW i \in Ids, Ingest(i) PROVE AgreeInv'
  <2>. SUFFICES ASSUME (Quiet({"crash"}))', NEW w \in Workers, NEW p \in Paths,
                       pc'[w] \in Writing, disk'[p].key = out'[w].key
                PROVE  disk'[p].status = out'[w].status
    BY DEF AgreeInv, Writing
  <2>1. UNCHANGED <<pc, out>> /\ Quiet({"crash"}) /\ Calm
    BY <1>3, Quietness DEF Ingest, locals
  <2>2. out[w].key \in Keys
    BY <2>1, NoneIsNoResult DEF KeyInv, WorkInv, Writing, Working, Steps
  <2>3. PICK q \in Paths : disk[q] = disk'[p]
    BY <1>3, <2>1, <2>2, IngestMoves
  <2>. QED
    BY <2>1, <2>3 DEF AgreeInv, Writing
<1>4. ASSUME NEW w \in Workers, Start(w) PROVE AgreeInv'
  BY <1>4, Quietness DEF Start, GoTo, files, locals, history, TypeOK, AgreeInv, Writing
<1>5. ASSUME NEW w \in Workers, Take(w) PROVE AgreeInv'
  BY <1>5, Quietness DEF Take, Disturb, GoTo, files, TypeOK, AgreeInv, Writing
<1>6. ASSUME NEW w \in Workers, Parse(w) PROVE AgreeInv'
  <2>1. pc[w] \in Working /\ UNCHANGED disk
    BY <1>6 DEF Parse, files, Working, Steps
  <2>2. CASE jobs[cur[w]] = "whole"
    BY <1>6, <2>1, <2>2, Quietness DEF Parse, GoTo, AgreeInv, Writing, TypeOK
  <2>3. CASE jobs[cur[w]] # "whole"
    BY <1>6, <2>1, <2>3, Quietness DEF WholeInv, AgreeInv, Writing
  <2>. QED
    BY <2>2, <2>3
<1>7. ASSUME NEW w \in Workers, List(w) PROVE AgreeInv'
  BY <1>7, Quietness DEF List, GoTo, files, history, TypeOK, AgreeInv, Writing
<1>8. ASSUME NEW w \in Workers, NEW p \in todo[w], ReadAs(w, p, disk[p]) PROVE AgreeInv'
  <2>1. UNCHANGED disk /\ pc[w] = "read" /\ p \in Paths
    BY <1>8 DEF ReadAs, files, TypeOK
  <2>2. KeyOf[cur[w]] \in Keys
    BY <2>1, NoneIsNoResult DEF WorkInv, Working, Steps
  <2>3. CASE disk[p].key = KeyOf[cur[w]]
    <3>1. out' = [out EXCEPT ![w] = disk[p]] /\ pc' = [pc EXCEPT ![w] = "write"]
      BY <1>8, <2>3 DEF ReadAs, GoTo
    <3>. QED
      BY <2>1, <2>2, <2>3, <3>1, Quietness DEF AgreeInv, Writing, ReplaysAgree, TypeOK
  <2>4. CASE disk[p].key # KeyOf[cur[w]]
    BY <1>8, <2>1, <2>4, Quietness DEF ReadAs, AgreeInv, Writing
  <2>. QED
    BY <2>3, <2>4
<1>9. ASSUME NEW w \in Workers, NotFound(w) PROVE AgreeInv'
  BY <1>9, Quietness DEF NotFound, GoTo, files, locals, history, TypeOK, AgreeInv,
       Writing
<1>10. ASSUME NEW w \in Workers, Execute(w) PROVE AgreeInv'
  <2>1. UNCHANGED <<disk, cur>> /\ pc[w] = "execute" /\ pc' = [pc EXCEPT ![w] = "write"]
    BY <1>10 DEF Execute, GoTo, files
  <2>2. PICK s \in Outcome(cur[w]) :
           out' = [out EXCEPT ![w] = [key |-> KeyOf[cur[w]], status |-> s]]
    BY <1>10 DEF Execute
  <2>3. Quiet({"crash"}) => \A p \in Paths : disk[p].key # KeyOf[cur[w]]
    BY <2>1 DEF LookupInv
  <2>. QED
    BY <2>1, <2>2, <2>3, Quietness DEF AgreeInv, Writing, TypeOK
<1>11. ASSUME NEW w \in Workers, Prepares(w) PROVE AgreeInv'
  <2>1. \A v \in Workers : pc'[v] \in Writing => pc[v] \in Writing
    BY <1>11 DEF Prepares, TypeOK, Writing
  <2>2. UNCHANGED out /\ (Calm => SamePaths)
    BY <1>11 DEF Prepares, locals, SameUnlessOverlap, Calm
  <2>. QED
    BY <2>1, <2>2, Quietness DEF AgreeInv, SamePaths
<1>12. ASSUME NEW w \in Workers, Abandons(w) PROVE AgreeInv'
  <2>1. pc[w] \in Working
    BY <1>12 DEF Abandons, Working, Writing, Steps
  <2>2. Calm => \A v \in Workers : pc'[v] \notin Writing
    BY <1>12, <2>1, OneAtWork DEF Abandons, GiveUp, GoTo, TypeOK, Working, Writing,
         Steps
  <2>. QED
    BY <2>2, Quietness DEF AgreeInv
<1>13. ASSUME NEW w \in Workers, Publishes(w) PROVE AgreeInv'
  <2>1. pc[w] \in Working
    BY <1>13 DEF Publishes, Working, Writing, Steps
  <2>2. Calm => \A v \in Workers : pc'[v] \notin Writing
    BY <1>13, <2>1, OneAtWork DEF Publishes, GoTo, TypeOK, Working, Writing, Steps
  <2>. QED
    BY <2>2, Quietness DEF AgreeInv
<1>14. ASSUME NEW w \in Workers, Raise(w) PROVE AgreeInv'
  BY <1>14, Leaves, Quietness DEF TypeOK, AgreeInv, Writing
<1>15. ASSUME NEW w \in Workers, Move(w) PROVE AgreeInv'
  BY <1>15, Leaves, Quietness DEF TypeOK, AgreeInv, Writing
<1>16. ASSUME NEW w \in Workers, Crash(w) PROVE AgreeInv'
  <2>1. \A v \in Workers : pc'[v] \in Writing => pc[v] \in Writing /\ out'[v] = out[v]
    BY <1>16, Leaves DEF TypeOK, Writing
  <2>2. Quiet({"crash"})' => Quiet({"crash"}) /\ SamePaths
    BY <1>16, CutDisk, Quietness DEF Crash, SameUnlessOverlap, Calm
  <2>. QED
    BY <2>1, <2>2 DEF AgreeInv, SamePaths
<1>17. ASSUME UNCHANGED vars PROVE AgreeInv'
  BY <1>17, Quietness DEF vars, files, locals, history, TypeOK, AgreeInv, Writing
<1>. QED
  BY <1>1, <1>2, <1>3, <1>4, <1>5, <1>6, <1>7, <1>8, <1>9, <1>10, <1>11, <1>12, <1>13,
       <1>14, <1>15, <1>16, <1>17, EffectCases

\* Results of one key agree, since whoever writes one agrees with those there are.
LEMMA ReplayStep ==
    ASSUME TypeOK, WorkInv, FileInv, AgreeInv, ReplaysAgree, [Next]_vars
    PROVE  ReplaysAgree'
<1> SUFFICES ASSUME Quiet({"crash"})' PROVE ReplaysAgree'
  BY DEF ReplaysAgree
<1>0. Quiet({"crash"}) /\ "overlap" \notin disturbed
  BY Quietness DEF Calm
<1>1. ASSUME NEW i \in Ids, Ingest(i) PROVE ReplaysAgree'
  BY <1>1, IngestMoves, Quietness DEF ReplaysAgree
<1>2. ASSUME NEW w \in Workers, Publishes(w) PROVE ReplaysAgree'
  <2>1. pc[w] \in Writing
    BY <1>2 DEF Publishes, Writing
  <2>2. \A p \in Paths : disk'[p] = disk[p] \/ disk'[p] = out[w]
    BY <1>0, <1>2 DEF Publishes
  <2>3. \A p \in Paths : disk[p].key = out[w].key => disk[p].status = out[w].status
    BY <1>0, <2>1 DEF AgreeInv
  <2>. QED
    BY <1>0, <2>2, <2>3 DEF ReplaysAgree
<1>3. CASE SamePaths
  BY <1>0, <1>3 DEF ReplaysAgree, SamePaths
<1>. QED
  BY <1>0, <1>1, <1>2, <1>3, PathsChange

\* Whatever is left in a file that was being written has the type of a file.
LEMMA CutTypes ==
    ASSUME TypeOK, WorkInv, FileInv, NEW w \in Workers, Put(w, {disk[handle[w]], Torn})
    PROVE  disk' \in [Places -> Contents] /\ handle' \in [Workers -> Places \cup
         {Closed}]
<1>1. CASE handle[w] = Closed
  BY <1>1 DEF Put, TypeOK
<1>2. CASE handle[w] # Closed
  <2>1. {disk[handle[w]], Torn} \in SUBSET Contents
    BY <1>2, Texts DEF FileInv
  <2>. QED
    BY <2>1, PutDisk
<1>. QED
  BY <1>1, <1>2

\* Every step keeps the types; no count goes below zero.
LEMMA TypeStep ==
    ASSUME TypeOK, WorkInv, FileInv, CountInv, [Next]_vars
    PROVE  TypeOK'
<1>1. ASSUME NEW i \in Ids, Emit(i) PROVE TypeOK'
  <2>1. disturbed' \subseteq Disturbances
    BY <1>1 DEF Emit, Disturb, Disturbances, TypeOK
  <2>2. emits[i] + 1 \in 0..MaxEmit
    BY <1>1, SizeAssumption DEF Emit, TypeOK
  <2>3. emits' \in [Ids -> 0..MaxEmit]
    BY <1>1, <2>2 DEF Emit, TypeOK
  <2>4. jobs' \in [Ids -> {"absent", "torn", "whole"}]
    BY <1>1 DEF Emit, TypeOK
  <2>5. UNCHANGED <<disk, handle, pc, locals, runs>>
    BY <1>1 DEF Emit
  <2>. QED
    BY <1>1, <2>1, <2>3, <2>4, <2>5 DEF locals, TypeOK, Steps, Ids
<1>2. ASSUME NEW i \in Ids, Complete(i) PROVE TypeOK'
  BY <1>2 DEF Complete, locals, history, TypeOK, Steps, Ids
<1>3. ASSUME NEW i \in Ids, Ingest(i) PROVE TypeOK'
  <2>1. disturbed' \subseteq Disturbances
    BY <1>3 DEF Ingest, Disturb, Disturbances, TypeOK
  <2>2. /\ <<"results", i>> \in Places /\ <<"processed", i>> \in Places
        /\ <<"results", i>> # <<"processed", i>>
    BY Apart
  <2>3. disk' \in [Places -> Contents] /\ handle' \in [Workers -> Places \cup {Closed}]
    BY <1>3, <2>2, RenameDisk DEF Ingest
  <2>4. UNCHANGED <<jobs, emits, pc, locals, runs>>
    BY <1>3 DEF Ingest
  <2>. QED
    BY <1>3, <2>1, <2>3, <2>4 DEF locals, TypeOK, Steps, Ids
<1>4. ASSUME NEW w \in Workers, Start(w) PROVE TypeOK'
  BY <1>4 DEF Start, GoTo, files, locals, history, TypeOK, Steps, Ids
<1>5. ASSUME NEW w \in Workers, Take(w) PROVE TypeOK'
  <2>1. disturbed' \subseteq Disturbances
    BY <1>5 DEF Take, Disturb, Disturbances, TypeOK
  <2>2. PICK i \in Ids : cur' = [cur EXCEPT ![w] = i]
    BY <1>5 DEF Take
  <2>3. cur' \in [Workers -> 0..MaxId]
    BY <2>2, SizeAssumption DEF TypeOK, Ids
  <2>4. pc' \in [Workers -> Steps]
    BY <1>5 DEF Take, GoTo, TypeOK, Steps
  <2>5. UNCHANGED <<files, emits, todo, out, executed, runs>>
    BY <1>5 DEF Take
  <2>. QED
    BY <1>5, <2>1, <2>3, <2>4, <2>5 DEF files, TypeOK, Steps, Ids
<1>6. ASSUME NEW w \in Workers, Parse(w) PROVE TypeOK'
  <2>1. [key |-> "unknown", status |-> "failed"] \in Result
    BY DEF Result, Statuses
  <2>2. out' \in [Workers -> Result \cup {None}]
    BY <1>6, <2>1 DEF Parse, TypeOK
  <2>3. pc' \in [Workers -> Steps]
    BY <1>6 DEF Parse, GoTo, TypeOK, Steps
  <2>4. UNCHANGED <<files, emits, cur, todo, executed, history>>
    BY <1>6 DEF Parse
  <2>. QED
    BY <1>6, <2>2, <2>3, <2>4 DEF files, history, TypeOK, Steps, Ids
<1>7. ASSUME NEW w \in Workers, List(w) PROVE TypeOK'
  BY <1>7 DEF List, GoTo, files, history, TypeOK, Steps, Ids
<1>8. ASSUME NEW w \in Workers, NEW p \in todo[w], ReadAs(w, p, disk[p]) PROVE TypeOK'
  <2>1. p \in Paths
    BY DEF TypeOK
  <2>2. out' \in [Workers -> Result \cup {None}]
    <3>1. disk[p] \in Contents /\ cur[w] \in Ids
      BY <1>8, <2>1 DEF ReadAs, Places, WorkInv, Working, Steps, TypeOK
    <3>2. disk[p].key = KeyOf[cur[w]] => disk[p] \in Result
      BY <3>1, KeyAssumption, JobAssumption DEF Contents, None, Empty, Torn
    <3>. QED
      BY <1>8, <3>2 DEF ReadAs, TypeOK
  <2>3. pc' \in [Workers -> Steps]
    BY <1>8 DEF ReadAs, GoTo, TypeOK, Steps
  <2>4. todo' \in [Workers -> SUBSET Paths]
    BY <1>8 DEF ReadAs, TypeOK
  <2>5. UNCHANGED <<files, emits, cur, executed, history>>
    BY <1>8 DEF ReadAs
  <2>. QED
    BY <1>8, <2>2, <2>3, <2>4, <2>5 DEF files, history, TypeOK, Steps, Ids
<1>9. ASSUME NEW w \in Workers, NotFound(w) PROVE TypeOK'
  BY <1>9 DEF NotFound, GoTo, files, locals, history, TypeOK, Steps, Ids
<1>10. ASSUME NEW w \in Workers, Execute(w) PROVE TypeOK'
  <2>1. KeyOf[cur[w]] \in Keys /\ runs' \in [Keys -> Nat] /\ UNCHANGED disk
    BY <1>10, HoldAdds
  <2>2. cur[w] \in Ids
    BY <1>10 DEF Execute, WorkInv, Working, Steps
  <2>3. Outcome(cur[w]) \subseteq Statuses
    BY <2>2, JobAssumption DEF Outcome, Statuses, Kinds
  <2>4. out' \in [Workers -> Result \cup {None}]
    BY <1>10, <2>1, <2>3 DEF Execute, Result, TypeOK
  <2>5. pc' \in [Workers -> Steps]
    BY <1>10 DEF Execute, GoTo, TypeOK, Steps
  <2>6. executed' \in [Workers -> BOOLEAN]
    BY <1>10 DEF Execute, TypeOK
  <2>7. UNCHANGED <<files, emits, cur, todo, disturbed>>
    BY <1>10 DEF Execute
  <2>. QED
    BY <1>10, <2>1, <2>4, <2>5, <2>6, <2>7 DEF files, TypeOK, Steps, Ids
<1>11. ASSUME NEW w \in Workers, Open(w) PROVE TypeOK'
  <2>1. UNCHANGED <<jobs, emits, locals, disturbed>>
    BY <1>11 DEF Open, files, history
  <2>2. disk' \in [Places -> Contents] /\ handle' \in [Workers -> Places \cup {Closed}]
    <3>1. cur[w] \in Ids /\ Temp(cur[w]) \in Places /\ Empty \in Contents
      BY <1>11, Texts, Apart DEF Open, FileInv, Writing, Contents
    <3>. QED
      BY <1>11, <3>1 DEF Open, TypeOK
  <2>3. runs' \in [Keys -> Nat]
    <3>1. pc[w] \in Writing
      BY <1>11 DEF Open, Writing
    <3>2. UNCHANGED runs \/ Lose(w)
      BY <1>11 DEF Open, GiveUp
    <3>. QED
      BY <3>1, <3>2, Loses DEF TypeOK
  <2>4. pc' \in [Workers -> Steps]
    BY <1>11 DEF Open, GiveUp, GoTo, TypeOK, Steps
  <2>. QED
    BY <2>1, <2>2, <2>3, <2>4 DEF locals, TypeOK, Steps, Ids
<1>12. ASSUME NEW w \in Workers, Fill(w) PROVE TypeOK'
  <2>1. UNCHANGED <<jobs, emits, locals, disturbed>>
    BY <1>12 DEF Fill, files, history
  <2>2. disk' \in [Places -> Contents] /\ handle' \in [Workers -> Places \cup {Closed}]
    <3>1. Put(w, Over(w)) /\ Over(w) \in SUBSET Contents
      BY <1>12, Texts DEF Fill, FileInv
    <3>. QED
      BY <3>1, PutDisk
  <2>3. runs' \in [Keys -> Nat]
    BY <1>12 DEF Fill, history, TypeOK
  <2>4. pc' \in [Workers -> Steps]
    BY <1>12 DEF Fill, GiveUp, GoTo, TypeOK, Steps
  <2>. QED
    BY <2>1, <2>2, <2>3, <2>4 DEF locals, TypeOK, Steps, Ids
<1>13. ASSUME NEW w \in Workers, FailToFill(w) PROVE TypeOK'
  <2>1. UNCHANGED <<jobs, emits, locals, disturbed>>
    BY <1>13 DEF FailToFill, files, history
  <2>2. disk' \in [Places -> Contents] /\ handle' \in [Workers -> Places \cup {Closed}]
    <3>1. Put(w, {disk[handle[w]], Torn})
      BY <1>13 DEF FailToFill
    <3>. QED
      BY <3>1, CutTypes
  <2>3. runs' \in [Keys -> Nat]
    <3>1. pc[w] \in Writing /\ Lose(w)
      BY <1>13 DEF FailToFill, GiveUp, Writing
    <3>. QED
      BY <3>1, Loses
  <2>4. pc' \in [Workers -> Steps]
    BY <1>13 DEF FailToFill, GiveUp, GoTo, TypeOK, Steps
  <2>. QED
    BY <2>1, <2>2, <2>3, <2>4 DEF locals, TypeOK, Steps, Ids
<1>14. ASSUME NEW w \in Workers, Publish(w) PROVE TypeOK'
  <2>1. UNCHANGED <<jobs, emits, locals, disturbed>>
    BY <1>14 DEF Publish, files, history
  <2>2. disk' \in [Places -> Contents] /\ handle' \in [Workers -> Places \cup {Closed}]
    <3>1. cur[w] \in Ids /\ Rename(Temp(cur[w]), <<"results", cur[w]>>)
      BY <1>14, Texts DEF Publish, FileInv, Writing
    <3>2. /\ Temp(cur[w]) \in Places /\ <<"results", cur[w]>> \in Places
          /\ Temp(cur[w]) # <<"results", cur[w]>>
      BY <3>1, Apart
    <3>. QED
      BY <3>1, <3>2, RenameDisk
  <2>3. runs' \in [Keys -> Nat]
    BY <1>14 DEF Publish, history, TypeOK
  <2>4. pc' \in [Workers -> Steps]
    BY <1>14 DEF Publish, GiveUp, GoTo, TypeOK, Steps
  <2>. QED
    BY <2>1, <2>2, <2>3, <2>4 DEF locals, TypeOK, Steps, Ids
<1>15. ASSUME NEW w \in Workers, FailToPublish(w) PROVE TypeOK'
  <2>1. UNCHANGED <<jobs, emits, locals, disturbed>>
    BY <1>15 DEF FailToPublish, files, history
  <2>2. disk' \in [Places -> Contents] /\ handle' \in [Workers -> Places \cup {Closed}]
    BY <1>15 DEF FailToPublish, files, TypeOK
  <2>3. runs' \in [Keys -> Nat]
    <3>1. pc[w] \in Writing /\ Lose(w)
      BY <1>15 DEF FailToPublish, GiveUp, Writing
    <3>. QED
      BY <3>1, Loses
  <2>4. pc' \in [Workers -> Steps]
    BY <1>15 DEF FailToPublish, GiveUp, GoTo, TypeOK, Steps
  <2>. QED
    BY <2>1, <2>2, <2>3, <2>4 DEF locals, TypeOK, Steps, Ids
<1>16. ASSUME NEW w \in Workers, Raise(w) PROVE TypeOK'
  <2>1. cur' \in [Workers -> 0..MaxId]
    <3>1. cur' = [cur EXCEPT ![w] = 0] /\ 0 \in 0..MaxId
      BY <1>16, Leaves, SizeAssumption
    <3>. QED
      BY <3>1 DEF TypeOK
  <2>2. pc' \in [Workers -> Steps]
    BY <1>16, Leaves DEF TypeOK, Steps
  <2>3. todo' \in [Workers -> SUBSET Paths] /\ executed' \in [Workers -> BOOLEAN]
    BY <1>16, Leaves DEF TypeOK
  <2>4. out' \in [Workers -> Result \cup {None}] /\ UNCHANGED emits
    BY <1>16, Leaves DEF TypeOK
  <2>. QED
    BY <1>16, <2>1, <2>2, <2>3, <2>4, Leaves DEF Raise, files, history, TypeOK, Steps,
         Ids
<1>17. ASSUME NEW w \in Workers, Move(w) PROVE TypeOK'
  <2>1. cur' \in [Workers -> 0..MaxId]
    <3>1. cur' = [cur EXCEPT ![w] = 0] /\ 0 \in 0..MaxId
      BY <1>17, Leaves, SizeAssumption
    <3>. QED
      BY <3>1 DEF TypeOK
  <2>2. pc' \in [Workers -> Steps]
    BY <1>17, Leaves DEF TypeOK, Steps
  <2>3. todo' \in [Workers -> SUBSET Paths] /\ executed' \in [Workers -> BOOLEAN]
    BY <1>17, Leaves DEF TypeOK
  <2>4. out' \in [Workers -> Result \cup {None}] /\ UNCHANGED emits
    BY <1>17, Leaves DEF TypeOK
  <2>5. jobs' \in [Ids -> {"absent", "torn", "whole"}] /\ UNCHANGED history
    BY <1>17 DEF Move, TypeOK
  <2>. QED
    BY <1>17, <2>1, <2>2, <2>3, <2>4, <2>5, Leaves DEF history, TypeOK, Steps, Ids
<1>18. ASSUME NEW w \in Workers, Crash(w) PROVE TypeOK'
  <2>1. cur' \in [Workers -> 0..MaxId]
    <3>1. cur' = [cur EXCEPT ![w] = 0] /\ 0 \in 0..MaxId
      BY <1>18, Leaves, SizeAssumption
    <3>. QED
      BY <3>1 DEF TypeOK
  <2>2. pc' \in [Workers -> Steps]
    BY <1>18, Leaves DEF TypeOK, Steps
  <2>3. todo' \in [Workers -> SUBSET Paths] /\ executed' \in [Workers -> BOOLEAN]
    BY <1>18, Leaves DEF TypeOK
  <2>4. out' \in [Workers -> Result \cup {None}] /\ UNCHANGED emits
    BY <1>18, Leaves DEF TypeOK
  <2>5. disturbed' \subseteq Disturbances /\ UNCHANGED jobs
    BY <1>18 DEF Crash, Disturb, Disturbances, files, TypeOK
  <2>6. runs' \in [Keys -> Nat]
    BY <1>18, HoldDrops
  <2>7. disk' \in [Places -> Contents] /\ handle' \in [Workers -> Places \cup {Closed}]
    <3>1. Put(w, {disk[handle[w]], Torn})
      BY <1>18 DEF Crash
    <3>. QED
      BY <3>1, CutTypes
  <2>. QED
    BY <1>18, <2>1, <2>2, <2>3, <2>4, <2>5, <2>6, <2>7 DEF history, TypeOK, Steps, Ids
<1>19. ASSUME UNCHANGED vars PROVE TypeOK'
  BY <1>19 DEF vars, files, locals, history, TypeOK, Steps, Ids
<1>. QED
  BY <1>1, <1>2, <1>3, <1>4, <1>5, <1>6, <1>7, <1>8, <1>9, <1>10, <1>11, <1>12, <1>13,
       <1>14, <1>15, <1>16, <1>17, <1>18, <1>19, StepCases

IInv ==
    /\ TypeOK /\ ReplaysAgree
    /\ WorkInv /\ VanishInv /\ FileInv /\ CountInv
    /\ AloneInv /\ WholeInv /\ KeyInv /\ LookupInv /\ OnceInv /\ AgreeInv

\* At the start nothing is emitted, executed or on disk.
LEMMA InitIInv == Init => IInv
<1> SUFFICES ASSUME Init PROVE IInv
  OBVIOUS
<1>1. TypeOK
  BY SizeAssumption DEF Init, TypeOK, Steps, Contents
<1>2. VanishInv /\ WorkInv /\ AloneInv /\ WholeInv
  BY DEF Init, VanishInv, WorkInv, AloneInv, WholeInv, Working, Writing, Steps
<1>3. \A p \in Paths : disk[p].key = "none"
  BY DEF Init, None, Places
<1>4. KeyInv /\ LookupInv /\ AgreeInv
  BY <1>3 DEF Init, KeyInv, LookupInv, AgreeInv, Writing
<1>5. ReplaysAgree
  BY <1>3, KeyAssumption DEF ReplaysAgree
<1>6. \A k \in Keys : Holders(k) = {} /\ runs[k] = 0
  BY DEF Init, Holders, Holds, Writing
<1>7. CountInv
  BY <1>6, FS_EmptySet DEF CountInv
<1>8. OnceInv
  BY <1>6 DEF OnceInv
<1>9. FileInv
  BY DEF Init, FileInv, OpenInv, OwnInv, Places
<1>. QED
  BY <1>1, <1>2, <1>4, <1>5, <1>7, <1>8, <1>9 DEF IInv

\* The invariant is inductive, and so holds always: VanishInv, ReplaysAgree and what
\* they need of the workers of _consume.
THEOREM Invariance == Spec => []IInv
<1>1. Init => IInv
  BY InitIInv
<1>2. IInv /\ [Next]_vars => IInv'
  BY TypeStep, VanishStep, ReplayStep, WorkStep, FileStep, CountStep, AloneStep,
     WholeStep, KeyStep, LookupStep, OnceStep, AgreeStep DEF IInv
<1>. QED
  BY <1>1, <1>2, PTL DEF Spec

\* The variables keep their types; in particular the count of executions less those
\* lost is never negative, so that no loss is counted twice.
THEOREM TypeCorrect == Spec => []TypeOK
<1>1. IInv => TypeOK
  BY DEF IInv
<1>. QED
  BY <1>1, Invariance, PTL

\* Whatever crashes, fails and tears, a job file that was emitted is still in jobs/ or
\* has a whole result under its id, which _consume writes before it moves the file; and
\* if workers have overlapped, so that two may have shared a temporary file, it has at
\* least a file there.
THEOREM NothingVanishes == Spec => []NoJobVanishes
<1>1. IInv => NoJobVanishes
  <2> SUFFICES ASSUME IInv, NEW i \in Ids, emits[i] > 0, jobs[i] = "absent"
               PROVE  \E d \in Dirs : disk[<<d, i>>] \in
                         IF "overlap" \in disturbed THEN Contents \ {None} ELSE Result
    BY DEF NoJobVanishes
  <2>1. PICK d \in Dirs : disk[<<d, i>>] # None
    BY DEF IInv, VanishInv, Answered
  <2>2. <<d, i>> \in Paths /\ <<d, i>> \in Places
    BY DEF Paths, Places
  <2>3. disk[<<d, i>>] \in Contents
    BY <2>2 DEF IInv, TypeOK
  <2>4. "overlap" \notin disturbed => disk[<<d, i>>] \in Result \cup {None}
    BY <2>2 DEF IInv, FileInv, OwnInv
  <2>. QED
    BY <2>1, <2>3, <2>4
<1>. QED
  BY <1>1, Invariance, PTL

\* With one worker, whole job files and no ingestion during a lookup, the lookup of
\* _find_result_by_idempotency_key executes a key once, and again only when the process
\* died before its result was in place, or failed to put it there.
THEOREM OnceAKey == Spec => []ExecutedOncePerLoss
<1>1. IInv => ExecutedOncePerLoss
  BY DEF IInv, OnceInv, ExecutedOncePerLoss
<1>. QED
  BY <1>1, Invariance, PTL

\* Under the same conditions all results of one key report one status: what is
\* replayed is what was answered.
THEOREM AgreeingReplays == Spec => []ReplaysAgree
<1>1. IInv => ReplaysAgree
  BY DEF IInv
<1>. QED
  BY <1>1, Invariance, PTL

\* With one worker and whole job files a key that has a result on disk never loses
\* its last one: replays, renames over an older emission and crashes included.
THEOREM KeptRecords == Spec => RecordsAreKept
<1>1. IInv /\ [Next]_vars
          => \A k \in Keys : (Recorded(k) /\ disturbed' \subseteq {"crash", "ingest"})
                => Recorded(k)'
  <2> SUFFICES ASSUME IInv, [Next]_vars, NEW k \in Keys, Recorded(k),
                      disturbed' \subseteq {"crash", "ingest"}
               PROVE  Recorded(k)'
    OBVIOUS
  <2>1. Calm
    BY Quietness DEF Calm
  <2>. QED
    BY <2>1, StaysRecorded DEF IInv
<1>. QED
  BY <1>1, Invariance, PTL DEF Spec, RecordsAreKept

===============================================================================
