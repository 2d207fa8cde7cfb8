------------------------------ MODULE BridgeProofs ------------------------------
(***************************************************************************)
(* What holds of Bridge, for every set of absorbs, constructs, facts,      *)
(* tasks and patches.                                                      *)
(*                                                                         *)
(* The two halves have the same shape.  A request is inside once it is     *)
(* past its lock.  The bridge's are inside one at a time (AbsorbLockInv,   *)
(* ConstructLockInv), and as long as no local process came in between      *)
(* (AbsorbAloneInv, ConstructAloneInv) nobody else is.  From there,        *)
(* MemoryInv and TreeInv follow what one request makes of the files.       *)
(***************************************************************************)
EXTENDS Bridge, TLAPS

\* A request past readme_lock, or one of a process that takes none.
InAbsorb(a) == A!Running(a) /\ apc[a] # "lock"

\* A call under way has been asked for something; only the bridge's wait for the lock.
AskInv == \A a \in Absorbs :
    /\ apc[a] # "new" => ask[a] \in A!Requests
    /\ apc[a] = "lock" => ask[a].door = "bridge"

\* The lock is held by the one request of the bridge that is past it.
AbsorbLockInv ==
    /\ \A a \in readme_lock : InAbsorb(a) /\ ask[a].door = "bridge"
    /\ \A a \in Absorbs : InAbsorb(a) /\ ask[a].door = "bridge" => readme_lock = {a}

\* As long as no process of its own came in between, no two are under way but the
\* bridge's.
AbsorbAloneInv == "overlap" \notin aodd => \A a, b \in Absorbs :
    A!Running(a) /\ A!Running(b) /\ a # b => ask[a].door = "bridge"

\* The steps that know what the memory was.
Loaded == {"truncate", "fill", "truncate_page", "fill_page"}

\* With one bridge, what absorbs were answered for is in the memory, or in the draft
\* of the one that is writing.
MemoryInv == aodd = {} =>
    /\ memory.is # "mixed"
    /\ memory.is = "empty" => \E a \in Absorbs : apc[a] = "fill"
    /\ memory.is # "empty" => \A b \in Absorbs :
          A!Told(b) \/ apc[b] \in {"truncate_page", "fill_page"}
            => ask[b].facts \subseteq memory.facts
    /\ \A a \in Absorbs : apc[a] \in Loaded =>
          /\ ask[a].facts \subseteq draft[a]
          /\ \A b \in Absorbs : A!Told(b) => ask[b].facts \subseteq draft[a]
          /\ apc[a] = "fill" => memory.is = "empty"

\* The same of constructs and construct_lock.
InConstruct(c) == C!Running(c) /\ cpc[c] # "lock"

CallInv == \A c \in Calls :
    /\ cpc[c] # "new" => call[c] \in C!Jobs
    /\ cpc[c] = "lock" => call[c].door = "bridge"

ConstructLockInv ==
    /\ \A c \in construct_lock : InConstruct(c) /\ call[c].door = "bridge"
    /\ \A c \in Calls : InConstruct(c) /\ call[c].door = "bridge" => construct_lock = {c}

ConstructAloneInv == "overlap" \notin codd => \A c, d \in Calls :
    C!Running(c) /\ C!Running(d) /\ c # d => call[c].door = "bridge"

\* Undisturbed, a call that was told its patch fits finds the tree as it was, and its
\* checks find it patched.
TreeInv == C!Undisturbed => \A c \in Calls :
    /\ cpc[c] = "apply" => tree = base[c] /\ C!Fits(c)
    /\ cpc[c] \in {"check", "read_back"} => tree = base[c] \cup {call[c].patch}

Owning == {"context", "apply_check", "apply", "return", "check", "read_back",
           "orphan_apply"}

\* A task is its owner's, who is past mkdir, and git apply has not been started for it
\* before the owner starts it.
OwnerInv ==
    /\ \A t \in Tasks :
          /\ owner[t] = {} => starts[t] = 0
          /\ \A c \in owner[t] :
                /\ owner[t] = {c} /\ call[c].task = t
                /\ cpc[c] \notin {"new", "lock", "mkdir"}
    /\ \A c \in Calls : cpc[c] \in Owning =>
          /\ owner[call[c].task] = {c}
          /\ cpc[c] \in {"context", "apply_check", "apply", "orphan_apply"}
                => starts[call[c].task] = 0

AbsorbInv == A!TypeOK /\ AskInv /\ AbsorbLockInv /\ AbsorbAloneInv /\ MemoryInv
             /\ PageShowsWhatWasTold
ConstructInv == /\ C!TypeOK /\ CallInv /\ ConstructLockInv /\ ConstructAloneInv
                /\ TreeInv /\ OwnerInv
IInv == AbsorbInv /\ ConstructInv

-----------------------------------------------------------------------------
(* Absorbs. *)

\* Splits a step into what it does to absorbs.
LEMMA AbsorbCases ==
    ASSUME [Next]_vars, NEW P,
           ASSUME NEW a \in Absorbs, NEW r \in A!Requests, A!Ask(a, r) PROVE P,
           ASSUME NEW a \in Absorbs, A!Lock(a) PROVE P,
           ASSUME NEW a \in Absorbs, A!Load(a) PROVE P,
           ASSUME NEW a \in Absorbs, A!Truncate(a) PROVE P,
           ASSUME NEW a \in Absorbs, A!Fill(a) PROVE P,
           ASSUME NEW a \in Absorbs, A!TruncatePage(a) PROVE P,
           ASSUME NEW a \in Absorbs, A!FillPage(a) PROVE P,
           ASSUME NEW a \in Absorbs, A!FailToFill(a) PROVE P,
           ASSUME A!Kill(A!Victims("bridge")) PROVE P,
           ASSUME NEW a \in A!Victims("local"), A!Kill({a}) PROVE P,
           ASSUME UNCHANGED absorbing PROVE P
    PROVE  P
  BY DEF Next, vars, AbsorbStep, ConstructStep, Edit, Orphan, BridgeDies, LocalDies, A!Step

\* Every variable of the absorbs stays in its set.
LEMMA AbsorbTypeStep ==
    ASSUME A!TypeOK, AskInv, [Next]_vars
    PROVE  A!TypeOK'
<1>1. ASSUME NEW a \in Absorbs, NEW r \in A!Requests, A!Ask(a, r) PROVE A!TypeOK'
  BY <1>1, BundlesAssumption DEF A!Ask, A!GoTo, A!files, A!TypeOK, AskInv, A!Steps,
       A!Ended, A!Requests, A!File, A!Whole, A!Empty, A!Mixed, A!Filled
<1>2. ASSUME NEW a \in Absorbs, A!Lock(a) PROVE A!TypeOK'
  BY <1>2, BundlesAssumption DEF A!Lock, A!GoTo, A!files, A!TypeOK, AskInv, A!Steps,
       A!Ended, A!Requests, A!File, A!Whole, A!Empty, A!Mixed, A!Filled
<1>3. ASSUME NEW a \in Absorbs, A!Load(a) PROVE A!TypeOK'
  BY <1>3, BundlesAssumption DEF A!Load, A!GoTo, A!Leave, A!Unlock, A!files, A!TypeOK,
       AskInv, A!Steps, A!Ended, A!Requests, A!File, A!Whole, A!Empty, A!Mixed, A!Filled
<1>4. ASSUME NEW a \in Absorbs, A!Truncate(a) PROVE A!TypeOK'
  BY <1>4, BundlesAssumption DEF A!Truncate, A!GoTo, A!Leave, A!Unlock, A!TypeOK,
       AskInv, A!Steps, A!Ended, A!Requests, A!File, A!Whole, A!Empty, A!Mixed, A!Filled
<1>5. ASSUME NEW a \in Absorbs, A!Fill(a) PROVE A!TypeOK'
  BY <1>5, BundlesAssumption DEF A!Fill, A!GoTo, A!Leave, A!Unlock, A!TypeOK, AskInv,
       A!Steps, A!Ended, A!Requests, A!File, A!Whole, A!Empty, A!Mixed, A!Filled
<1>6. ASSUME NEW a \in Absorbs, A!TruncatePage(a) PROVE A!TypeOK'
  BY <1>6, BundlesAssumption DEF A!TruncatePage, A!GoTo, A!Leave, A!Unlock, A!TypeOK,
       AskInv, A!Steps, A!Ended, A!Requests, A!File, A!Whole, A!Empty, A!Mixed, A!Filled
<1>7. ASSUME NEW a \in Absorbs, A!FillPage(a) PROVE A!TypeOK'
  BY <1>7, BundlesAssumption DEF A!FillPage, A!GoTo, A!Leave, A!Unlock, A!TypeOK,
       AskInv, A!Steps, A!Ended, A!Requests, A!File, A!Whole, A!Empty, A!Mixed, A!Filled
<1>8. ASSUME A!Kill(A!Victims("bridge")) PROVE A!TypeOK'
  BY <1>8, BundlesAssumption DEF A!Kill, A!Victims, A!Running, A!files, A!Ended,
       A!TypeOK, AskInv, A!Steps, A!Requests, A!File, A!Whole, A!Empty, A!Mixed,
       A!Filled
<1>9. ASSUME NEW a \in A!Victims("local"), A!Kill({a}) PROVE A!TypeOK'
  BY <1>9, BundlesAssumption DEF A!Kill, A!Victims, A!Running, A!files, A!Ended,
       A!TypeOK, AskInv, A!Steps, A!Requests, A!File, A!Whole, A!Empty, A!Mixed,
       A!Filled
<1>10. ASSUME UNCHANGED absorbing PROVE A!TypeOK'
  BY <1>10, BundlesAssumption DEF absorbing, A!TypeOK, AskInv, A!Steps, A!Ended,
       A!Requests, A!File, A!Whole, A!Empty, A!Mixed, A!Filled
<1>11. ASSUME NEW a \in Absorbs, A!FailToFill(a) PROVE A!TypeOK'
  BY <1>11, BundlesAssumption DEF A!FailToFill, A!Mixed, A!GoTo, A!Leave, A!Unlock,
       A!TypeOK, AskInv, A!Steps, A!Ended, A!Requests, A!File, A!Whole, A!Empty,
       A!Filled
<1>. QED
  BY <1>1, <1>2, <1>3, <1>4, <1>5, <1>6, <1>7, <1>8, <1>9, <1>10, <1>11, AbsorbCases

\* A request is set when it is asked for, and stays.
LEMMA AskStep ==
    ASSUME A!TypeOK, AskInv, [Next]_vars
    PROVE  AskInv'
<1>1. ASSUME NEW a \in Absorbs, NEW r \in A!Requests, A!Ask(a, r) PROVE AskInv'
  BY <1>1 DEF A!Ask, A!GoTo, A!files, A!TypeOK, AskInv, A!Steps, A!Ended
<1>2. ASSUME NEW a \in Absorbs, A!Lock(a) PROVE AskInv'
  BY <1>2 DEF A!Lock, A!GoTo, A!files, A!TypeOK, AskInv, A!Steps, A!Ended
<1>3. ASSUME NEW a \in Absorbs, A!Load(a) PROVE AskInv'
  BY <1>3 DEF A!Load, A!GoTo, A!Leave, A!Unlock, A!files, A!TypeOK, AskInv, A!Steps,
       A!Ended
<1>4. ASSUME NEW a \in Absorbs, A!Truncate(a) PROVE AskInv'
  BY <1>4 DEF A!Truncate, A!GoTo, A!Leave, A!Unlock, A!TypeOK, AskInv, A!Steps, A!Ended
<1>5. ASSUME NEW a \in Absorbs, A!Fill(a) PROVE AskInv'
  BY <1>5 DEF A!Fill, A!GoTo, A!Leave, A!Unlock, A!TypeOK, AskInv, A!Steps, A!Ended
<1>6. ASSUME NEW a \in Absorbs, A!TruncatePage(a) PROVE AskInv'
  BY <1>6 DEF A!TruncatePage, A!GoTo, A!Leave, A!Unlock, A!TypeOK, AskInv, A!Steps,
       A!Ended
<1>7. ASSUME NEW a \in Absorbs, A!FillPage(a) PROVE AskInv'
  BY <1>7 DEF A!FillPage, A!GoTo, A!Leave, A!Unlock, A!TypeOK, AskInv, A!Steps, A!Ended
<1>8. ASSUME A!Kill(A!Victims("bridge")) PROVE AskInv'
  BY <1>8 DEF A!Kill, A!Victims, A!Running, A!files, A!Ended, A!TypeOK, AskInv, A!Steps
<1>9. ASSUME NEW a \in A!Victims("local"), A!Kill({a}) PROVE AskInv'
  BY <1>9 DEF A!Kill, A!Victims, A!Running, A!files, A!Ended, A!TypeOK, AskInv, A!Steps
<1>10. ASSUME UNCHANGED absorbing PROVE AskInv'
  BY <1>10 DEF absorbing, A!TypeOK, AskInv, A!Steps, A!Ended
<1>11. ASSUME NEW a \in Absorbs, A!FailToFill(a) PROVE AskInv'
  BY <1>11 DEF A!FailToFill, A!Mixed, A!GoTo, A!Leave, A!Unlock, A!TypeOK, AskInv,
       A!Steps, A!Ended
<1>. QED
  BY <1>1, <1>2, <1>3, <1>4, <1>5, <1>6, <1>7, <1>8, <1>9, <1>10, <1>11, AbsorbCases

\* Whoever is inside by the bridge holds the lock, and leaves it on every way out.
LEMMA AbsorbLockStep ==
    ASSUME A!TypeOK, AskInv, AbsorbLockInv, [Next]_vars
    PROVE  AbsorbLockInv'
<1>1. ASSUME NEW a \in Absorbs, NEW r \in A!Requests, A!Ask(a, r) PROVE AbsorbLockInv'
  BY <1>1 DEF A!Ask, A!GoTo, A!files, A!TypeOK, AskInv, AbsorbLockInv, InAbsorb,
       A!Running, A!Steps, A!Ended
<1>2. ASSUME NEW a \in Absorbs, A!Lock(a) PROVE AbsorbLockInv'
  BY <1>2 DEF A!Lock, A!GoTo, A!files, A!TypeOK, AskInv, AbsorbLockInv, InAbsorb,
       A!Running, A!Steps, A!Ended
<1>3. ASSUME NEW a \in Absorbs, A!Load(a) PROVE AbsorbLockInv'
  BY <1>3 DEF A!Load, A!GoTo, A!Leave, A!Unlock, A!files, A!TypeOK, AskInv,
       AbsorbLockInv, InAbsorb, A!Running, A!Steps, A!Ended
<1>4. ASSUME NEW a \in Absorbs, A!Truncate(a) PROVE AbsorbLockInv'
  BY <1>4 DEF A!Truncate, A!GoTo, A!Leave, A!Unlock, A!TypeOK, AskInv, AbsorbLockInv,
       InAbsorb, A!Running, A!Steps, A!Ended
<1>5. ASSUME NEW a \in Absorbs, A!Fill(a) PROVE AbsorbLockInv'
  BY <1>5 DEF A!Fill, A!GoTo, A!Leave, A!Unlock, A!TypeOK, AskInv, AbsorbLockInv,
       InAbsorb, A!Running, A!Steps, A!Ended
<1>6. ASSUME NEW a \in Absorbs, A!TruncatePage(a) PROVE AbsorbLockInv'
  BY <1>6 DEF A!TruncatePage, A!GoTo, A!Leave, A!Unlock, A!TypeOK, AskInv,
       AbsorbLockInv, InAbsorb, A!Running, A!Steps, A!Ended
<1>7. ASSUME NEW a \in Absorbs, A!FillPage(a) PROVE AbsorbLockInv'
  BY <1>7 DEF A!FillPage, A!GoTo, A!Leave, A!Unlock, A!TypeOK, AskInv, AbsorbLockInv,
       InAbsorb, A!Running, A!Steps, A!Ended
<1>8. ASSUME A!Kill(A!Victims("bridge")) PROVE AbsorbLockInv'
  BY <1>8 DEF A!Kill, A!Victims, A!Running, A!files, A!Ended, A!TypeOK, AskInv,
       AbsorbLockInv, InAbsorb, A!Steps
<1>9. ASSUME NEW a \in A!Victims("local"), A!Kill({a}) PROVE AbsorbLockInv'
  BY <1>9 DEF A!Kill, A!Victims, A!Running, A!files, A!Ended, A!TypeOK, AskInv,
       AbsorbLockInv, InAbsorb, A!Steps
<1>10. ASSUME UNCHANGED absorbing PROVE AbsorbLockInv'
  BY <1>10 DEF absorbing, A!TypeOK, AskInv, AbsorbLockInv, InAbsorb, A!Running, A!Steps,
       A!Ended
<1>11. ASSUME NEW a \in Absorbs, A!FailToFill(a) PROVE AbsorbLockInv'
  BY <1>11 DEF A!FailToFill, A!Mixed, A!GoTo, A!Leave, A!Unlock, A!TypeOK, AskInv,
       AbsorbLockInv, InAbsorb, A!Running, A!Steps, A!Ended
<1>. QED
  BY <1>1, <1>2, <1>3, <1>4, <1>5, <1>6, <1>7, <1>8, <1>9, <1>10, <1>11, AbsorbCases

\* A local process that meets another is an overlap.
LEMMA AbsorbAloneStep ==
    ASSUME A!TypeOK, AskInv, AbsorbAloneInv, [Next]_vars
    PROVE  AbsorbAloneInv'
<1>1. ASSUME NEW a \in Absorbs, NEW r \in A!Requests, A!Ask(a, r) PROVE AbsorbAloneInv'
  BY <1>1 DEF A!Ask, A!GoTo, A!files, A!TypeOK, AskInv, AbsorbAloneInv, A!Running,
       A!Steps, A!Ended, A!Requests, A!Doors
<1>2. ASSUME NEW a \in Absorbs, A!Lock(a) PROVE AbsorbAloneInv'
  BY <1>2 DEF A!Lock, A!GoTo, A!files, A!TypeOK, AskInv, AbsorbAloneInv, A!Running,
       A!Steps, A!Ended, A!Requests, A!Doors
<1>3. ASSUME NEW a \in Absorbs, A!Load(a) PROVE AbsorbAloneInv'
  BY <1>3 DEF A!Load, A!GoTo, A!Leave, A!Unlock, A!files, A!TypeOK, AskInv,
       AbsorbAloneInv, A!Running, A!Steps, A!Ended, A!Requests, A!Doors
<1>4. ASSUME NEW a \in Absorbs, A!Truncate(a) PROVE AbsorbAloneInv'
  BY <1>4 DEF A!Truncate, A!GoTo, A!Leave, A!Unlock, A!TypeOK, AskInv, AbsorbAloneInv,
       A!Running, A!Steps, A!Ended, A!Requests, A!Doors
<1>5. ASSUME NEW a \in Absorbs, A!Fill(a) PROVE AbsorbAloneInv'
  BY <1>5 DEF A!Fill, A!GoTo, A!Leave, A!Unlock, A!TypeOK, AskInv, AbsorbAloneInv,
       A!Running, A!Steps, A!Ended, A!Requests, A!Doors
<1>6. ASSUME NEW a \in Absorbs, A!TruncatePage(a) PROVE AbsorbAloneInv'
  BY <1>6 DEF A!TruncatePage, A!GoTo, A!Leave, A!Unlock, A!TypeOK, AskInv,
       AbsorbAloneInv, A!Running, A!Steps, A!Ended, A!Requests, A!Doors
<1>7. ASSUME NEW a \in Absorbs, A!FillPage(a) PROVE AbsorbAloneInv'
  BY <1>7 DEF A!FillPage, A!GoTo, A!Leave, A!Unlock, A!TypeOK, AskInv, AbsorbAloneInv,
       A!Running, A!Steps, A!Ended, A!Requests, A!Doors
<1>8. ASSUME A!Kill(A!Victims("bridge")) PROVE AbsorbAloneInv'
  BY <1>8 DEF A!Kill, A!Victims, A!Running, A!files, A!Ended, A!TypeOK, AskInv,
       AbsorbAloneInv, A!Steps, A!Requests, A!Doors
<1>9. ASSUME NEW a \in A!Victims("local"), A!Kill({a}) PROVE AbsorbAloneInv'
  BY <1>9 DEF A!Kill, A!Victims, A!Running, A!files, A!Ended, A!TypeOK, AskInv,
       AbsorbAloneInv, A!Steps, A!Requests, A!Doors
<1>10. ASSUME UNCHANGED absorbing PROVE AbsorbAloneInv'
  BY <1>10 DEF absorbing, A!TypeOK, AskInv, AbsorbAloneInv, A!Running, A!Steps, A!Ended,
       A!Requests, A!Doors
<1>11. ASSUME NEW a \in Absorbs, A!FailToFill(a) PROVE AbsorbAloneInv'
  BY <1>11 DEF A!FailToFill, A!Mixed, A!GoTo, A!Leave, A!Unlock, A!TypeOK, AskInv,
       AbsorbAloneInv, A!Running, A!Steps, A!Ended, A!Requests, A!Doors
<1>. QED
  BY <1>1, <1>2, <1>3, <1>4, <1>5, <1>6, <1>7, <1>8, <1>9, <1>10, <1>11, AbsorbCases

\* Without overlap, one request is inside at a time.
LEMMA OneInside ==
    ASSUME A!TypeOK, AskInv, AbsorbLockInv, AbsorbAloneInv, "overlap" \notin aodd,
           NEW a \in Absorbs, NEW b \in Absorbs, InAbsorb(a), InAbsorb(b)
    PROVE  a = b
  BY DEF AbsorbLockInv, AbsorbAloneInv, InAbsorb

\* What was told is in the memory, or in the draft of the one request inside.
LEMMA MemoryStep ==
    ASSUME A!TypeOK, AskInv, AbsorbLockInv, AbsorbAloneInv, MemoryInv, [Next]_vars
    PROVE  MemoryInv'
<1>1. ASSUME NEW a \in Absorbs, NEW r \in A!Requests, A!Ask(a, r) PROVE MemoryInv'
  BY <1>1, OneInside DEF A!Ask, A!GoTo, A!files, A!Requests, A!TypeOK, AskInv,
       MemoryInv, InAbsorb, A!Running, A!Steps, A!Ended, A!Told, Loaded
<1>2. ASSUME NEW a \in Absorbs, A!Lock(a) PROVE MemoryInv'
  BY <1>2, OneInside DEF A!Lock, A!GoTo, A!files, A!TypeOK, AskInv, MemoryInv, InAbsorb,
       A!Running, A!Steps, A!Ended, A!Told, Loaded
<1>3. ASSUME NEW a \in Absorbs, A!Load(a) PROVE MemoryInv'
  BY <1>3, OneInside DEF A!Load, A!GoTo, A!Leave, A!Unlock, A!files, A!TypeOK, AskInv,
       MemoryInv, InAbsorb, A!Running, A!Steps, A!Ended, A!Told, Loaded
<1>4. ASSUME NEW a \in Absorbs, A!Truncate(a) PROVE MemoryInv'
  BY <1>4, OneInside DEF A!Truncate, A!GoTo, A!Leave, A!Unlock, A!Empty, A!TypeOK,
       AskInv, MemoryInv, InAbsorb, A!Running, A!Steps, A!Ended, A!Told, Loaded
<1>5. ASSUME NEW a \in Absorbs, A!Fill(a) PROVE MemoryInv'
  BY <1>5, OneInside DEF A!Fill, A!GoTo, A!Leave, A!Unlock, A!Filled, A!Whole, A!TypeOK,
       AskInv, MemoryInv, InAbsorb, A!Running, A!Steps, A!Ended, A!Told, Loaded
<1>6. ASSUME NEW a \in Absorbs, A!TruncatePage(a) PROVE MemoryInv'
  BY <1>6, OneInside DEF A!TruncatePage, A!GoTo, A!Leave, A!Unlock, A!TypeOK, AskInv,
       MemoryInv, InAbsorb, A!Running, A!Steps, A!Ended, A!Told, Loaded
<1>7. ASSUME NEW a \in Absorbs, A!FillPage(a) PROVE MemoryInv'
  BY <1>7, OneInside DEF A!FillPage, A!GoTo, A!Leave, A!Unlock, A!Filled, A!Whole,
       A!TypeOK, AskInv, MemoryInv, InAbsorb, A!Running, A!Steps, A!Ended, A!Told,
       Loaded
<1>8. ASSUME A!Kill(A!Victims("bridge")) PROVE MemoryInv'
  BY <1>8, OneInside DEF A!Kill, A!Victims, A!Running, A!files, A!Ended, A!TypeOK,
       AskInv, MemoryInv, InAbsorb, A!Steps, A!Told, Loaded
<1>9. ASSUME NEW a \in A!Victims("local"), A!Kill({a}) PROVE MemoryInv'
  BY <1>9, OneInside DEF A!Kill, A!Victims, A!Running, A!files, A!Ended, A!TypeOK,
       AskInv, MemoryInv, InAbsorb, A!Steps, A!Told, Loaded
<1>10. ASSUME UNCHANGED absorbing PROVE MemoryInv'
  BY <1>10, OneInside DEF absorbing, A!TypeOK, AskInv, MemoryInv, InAbsorb, A!Running,
       A!Steps, A!Ended, A!Told, Loaded
<1>11. ASSUME NEW a \in Absorbs, A!FailToFill(a) PROVE MemoryInv'
  BY <1>11, OneInside DEF A!FailToFill, A!Mixed, A!GoTo, A!Leave, A!Unlock, A!Filled,
       A!Whole, A!TypeOK, AskInv, MemoryInv, InAbsorb, A!Running, A!Steps, A!Ended,
       A!Told, Loaded
<1>. QED
  BY <1>1, <1>2, <1>3, <1>4, <1>5, <1>6, <1>7, <1>8, <1>9, <1>10, <1>11, AbsorbCases

\* A page is written from a draft that holds all that was told.
LEMMA PageStep ==
    ASSUME A!TypeOK, AskInv, AbsorbLockInv, AbsorbAloneInv, MemoryInv,
         PageShowsWhatWasTold, [Next]_vars
    PROVE  PageShowsWhatWasTold'
<1>1. ASSUME NEW a \in Absorbs, NEW r \in A!Requests, A!Ask(a, r) PROVE
     PageShowsWhatWasTold'
  BY <1>1 DEF A!Ask, A!GoTo, A!files, A!Requests, A!TypeOK, AskInv,
       PageShowsWhatWasTold, A!PageShowsWhatWasTold, A!Steps, A!Ended, A!Told, Loaded
<1>2. ASSUME NEW a \in Absorbs, A!Lock(a) PROVE PageShowsWhatWasTold'
  BY <1>2 DEF A!Lock, A!GoTo, A!files, A!TypeOK, AskInv, PageShowsWhatWasTold,
       A!PageShowsWhatWasTold, A!Steps, A!Ended, A!Told, Loaded
<1>3. ASSUME NEW a \in Absorbs, A!Load(a) PROVE PageShowsWhatWasTold'
  BY <1>3 DEF A!Load, A!GoTo, A!Leave, A!Unlock, A!files, A!TypeOK, AskInv,
       PageShowsWhatWasTold, A!PageShowsWhatWasTold, A!Steps, A!Ended, A!Told, Loaded
<1>4. ASSUME NEW a \in Absorbs, A!Truncate(a) PROVE PageShowsWhatWasTold'
  BY <1>4 DEF A!Truncate, A!GoTo, A!Leave, A!Unlock, A!TypeOK, AskInv,
       PageShowsWhatWasTold, A!PageShowsWhatWasTold, A!Steps, A!Ended, A!Told, Loaded
<1>5. ASSUME NEW a \in Absorbs, A!Fill(a) PROVE PageShowsWhatWasTold'
  BY <1>5 DEF A!Fill, A!GoTo, A!Leave, A!Unlock, A!TypeOK, AskInv, PageShowsWhatWasTold,
       A!PageShowsWhatWasTold, A!Steps, A!Ended, A!Told, Loaded
<1>6. ASSUME NEW a \in Absorbs, A!TruncatePage(a) PROVE PageShowsWhatWasTold'
  BY <1>6 DEF A!TruncatePage, A!GoTo, A!Leave, A!Unlock, A!Empty, A!TypeOK, AskInv,
       PageShowsWhatWasTold, A!PageShowsWhatWasTold, A!Steps, A!Ended, A!Told, Loaded
<1>7. ASSUME NEW a \in Absorbs, A!FillPage(a) PROVE PageShowsWhatWasTold'
  BY <1>7 DEF A!FillPage, A!GoTo, A!Leave, A!Unlock, A!Filled, A!Whole, A!Mixed,
       MemoryInv, A!TypeOK, AskInv, PageShowsWhatWasTold, A!PageShowsWhatWasTold,
       A!Steps, A!Ended, A!Told, Loaded
<1>8. ASSUME A!Kill(A!Victims("bridge")) PROVE PageShowsWhatWasTold'
  BY <1>8 DEF A!Kill, A!Victims, A!Running, A!files, A!Ended, A!TypeOK, AskInv,
       PageShowsWhatWasTold, A!PageShowsWhatWasTold, A!Steps, A!Told, Loaded
<1>9. ASSUME NEW a \in A!Victims("local"), A!Kill({a}) PROVE PageShowsWhatWasTold'
  BY <1>9 DEF A!Kill, A!Victims, A!Running, A!files, A!Ended, A!TypeOK, AskInv,
       PageShowsWhatWasTold, A!PageShowsWhatWasTold, A!Steps, A!Told, Loaded
<1>10. ASSUME UNCHANGED absorbing PROVE PageShowsWhatWasTold'
  BY <1>10 DEF absorbing, A!TypeOK, AskInv, PageShowsWhatWasTold,
       A!PageShowsWhatWasTold, A!Steps, A!Ended, A!Told, Loaded
<1>11. ASSUME NEW a \in Absorbs, A!FailToFill(a) PROVE PageShowsWhatWasTold'
  BY <1>11 DEF A!FailToFill, A!Mixed, A!GoTo, A!Leave, A!Unlock, A!TypeOK, AskInv,
       PageShowsWhatWasTold, A!PageShowsWhatWasTold, A!Steps, A!Ended, A!Told, Loaded
<1>. QED
  BY <1>1, <1>2, <1>3, <1>4, <1>5, <1>6, <1>7, <1>8, <1>9, <1>10, <1>11, AbsorbCases

-----------------------------------------------------------------------------
(* Constructs. *)

\* Splits a step into what it does to constructs.
LEMMA ConstructCases ==
    ASSUME [Next]_vars, NEW P,
           ASSUME NEW c \in Calls, NEW j \in C!Jobs, C!Ask(c, j) PROVE P,
           ASSUME NEW c \in Calls, C!Lock(c) PROVE P,
           ASSUME NEW c \in Calls, C!MakeDir(c) PROVE P,
           ASSUME NEW c \in Calls, C!Context(c) PROVE P,
           ASSUME NEW c \in Calls, C!ApplyCheck(c) PROVE P,
           ASSUME NEW c \in Calls, C!Apply(c) PROVE P,
           ASSUME NEW c \in Calls, C!Return(c) PROVE P,
           ASSUME NEW c \in Calls, C!Check(c) PROVE P,
           ASSUME NEW c \in Calls, C!Checked(c) PROVE P,
           ASSUME NEW c \in Calls, C!ReadBack(c) PROVE P,
           ASSUME NEW c \in Calls, C!Orphan(c) PROVE P,
           ASSUME NEW p \in Patches, C!Edit(p) PROVE P,
           ASSUME C!Kill(C!Victims("bridge")) PROVE P,
           ASSUME NEW c \in C!Victims("local"), C!Kill({c}) PROVE P,
           ASSUME UNCHANGED constructing PROVE P
    PROVE  P
  BY DEF Next, vars, AbsorbStep, ConstructStep, Edit, Orphan, BridgeDies, LocalDies, C!Step

\* Every variable of the constructs stays in its set.
LEMMA ConstructTypeStep ==
    ASSUME C!TypeOK, CallInv, [Next]_vars
    PROVE  C!TypeOK'
<1>1. ASSUME NEW c \in Calls, NEW j \in C!Jobs, C!Ask(c, j) PROVE C!TypeOK'
  BY <1>1, MaxChecksAssumption DEF C!Ask, C!GoTo, C!TypeOK, CallInv, C!Steps, C!Ended,
       C!Orphans, C!Jobs, C!Statuses, C!Outcomes
<1>2. ASSUME NEW c \in Calls, C!Lock(c) PROVE C!TypeOK'
  BY <1>2, MaxChecksAssumption DEF C!Lock, C!GoTo, C!history, C!TypeOK, CallInv,
       C!Steps, C!Ended, C!Orphans, C!Jobs, C!Statuses, C!Outcomes
<1>3. ASSUME NEW c \in Calls, C!MakeDir(c) PROVE C!TypeOK'
  BY <1>3, MaxChecksAssumption DEF C!MakeDir, C!history, C!Leave, C!GoTo, C!TypeOK,
       CallInv, C!Steps, C!Ended, C!Orphans, C!Jobs, C!Statuses, C!Outcomes
<1>4. ASSUME NEW c \in Calls, C!Context(c) PROVE C!TypeOK'
  BY <1>4, MaxChecksAssumption DEF C!Context, C!history, C!Leave, C!GoTo, C!TypeOK,
       CallInv, C!Steps, C!Ended, C!Orphans, C!Jobs, C!Statuses, C!Outcomes
<1>5. ASSUME NEW c \in Calls, C!ApplyCheck(c) PROVE C!TypeOK'
  BY <1>5, MaxChecksAssumption DEF C!ApplyCheck, C!Note, C!Leave, C!GoTo, C!TypeOK,
       CallInv, C!Steps, C!Ended, C!Orphans, C!Jobs, C!Statuses, C!Outcomes
<1>6. ASSUME NEW c \in Calls, C!Apply(c) PROVE C!TypeOK'
  BY <1>6, MaxChecksAssumption DEF C!Apply, C!Applied, C!Patched, C!Fits, C!Note,
       C!GoTo, C!TypeOK, CallInv, C!Steps, C!Ended, C!Orphans, C!Jobs, C!Statuses,
       C!Outcomes
<1>7. ASSUME NEW c \in Calls, C!Return(c) PROVE C!TypeOK'
  BY <1>7, MaxChecksAssumption DEF C!Return, C!history, C!Leave, C!GoTo, C!TypeOK,
       CallInv, C!Steps, C!Ended, C!Orphans, C!Jobs, C!Statuses, C!Outcomes
<1>8. ASSUME NEW c \in Calls, C!Check(c) PROVE C!TypeOK'
  BY <1>8, MaxChecksAssumption DEF C!Check, C!Rework, C!Note, C!Leave, C!GoTo, C!TypeOK,
       CallInv, C!Steps, C!Ended, C!Orphans, C!Jobs, C!Statuses, C!Outcomes
<1>9. ASSUME NEW c \in Calls, C!Checked(c) PROVE C!TypeOK'
  BY <1>9, MaxChecksAssumption DEF C!Checked, C!history, C!GoTo, C!TypeOK, CallInv,
       C!Steps, C!Ended, C!Orphans, C!Jobs, C!Statuses, C!Outcomes
<1>10. ASSUME NEW c \in Calls, C!ReadBack(c) PROVE C!TypeOK'
  BY <1>10, MaxChecksAssumption DEF C!ReadBack, C!history, C!Leave, C!GoTo, C!TypeOK,
       CallInv, C!Steps, C!Ended, C!Orphans, C!Jobs, C!Statuses, C!Outcomes
<1>11. ASSUME NEW p \in Patches, C!Edit(p) PROVE C!TypeOK'
  BY <1>11, MaxChecksAssumption DEF C!Edit, C!locals, C!TypeOK, CallInv, C!Steps,
       C!Ended, C!Orphans, C!Jobs, C!Statuses, C!Outcomes
<1>12. ASSUME C!Kill(C!Victims("bridge")) PROVE C!TypeOK'
  BY <1>12, MaxChecksAssumption DEF C!Kill, C!Left, C!Victims, C!Running, C!Ended,
       C!Orphans, C!history, C!TypeOK, CallInv, C!Steps, C!Jobs, C!Statuses, C!Outcomes
<1>13. ASSUME NEW c \in C!Victims("local"), C!Kill({c}) PROVE C!TypeOK'
  BY <1>13, MaxChecksAssumption DEF C!Kill, C!Left, C!Victims, C!Running, C!Ended,
       C!Orphans, C!history, C!TypeOK, CallInv, C!Steps, C!Jobs, C!Statuses, C!Outcomes
<1>14. ASSUME UNCHANGED constructing PROVE C!TypeOK'
  BY <1>14, MaxChecksAssumption DEF constructing, C!TypeOK, CallInv, C!Steps, C!Ended,
       C!Orphans, C!Jobs, C!Statuses, C!Outcomes
<1>15. ASSUME NEW c \in Calls, C!Orphan(c) PROVE C!TypeOK'
  BY <1>15, MaxChecksAssumption DEF C!Orphan, C!Applied, C!Patched, C!Fits, C!GoTo,
       C!TypeOK, CallInv, C!Steps, C!Ended, C!Orphans, C!Jobs, C!Statuses, C!Outcomes
<1>. QED
  BY <1>1, <1>2, <1>3, <1>4, <1>5, <1>6, <1>7, <1>8, <1>9, <1>10, <1>11, <1>12, <1>13,
       <1>14, <1>15, ConstructCases

\* A call is set when it is made, and stays.
LEMMA CallStep ==
    ASSUME C!TypeOK, CallInv, [Next]_vars
    PROVE  CallInv'
<1>1. ASSUME NEW c \in Calls, NEW j \in C!Jobs, C!Ask(c, j) PROVE CallInv'
  BY <1>1 DEF C!Ask, C!GoTo, C!TypeOK, CallInv, C!Steps, C!Ended, C!Orphans
<1>2. ASSUME NEW c \in Calls, C!Lock(c) PROVE CallInv'
  BY <1>2 DEF C!Lock, C!GoTo, C!history, C!TypeOK, CallInv, C!Steps, C!Ended, C!Orphans
<1>3. ASSUME NEW c \in Calls, C!MakeDir(c) PROVE CallInv'
  BY <1>3 DEF C!MakeDir, C!history, C!Leave, C!GoTo, C!TypeOK, CallInv, C!Steps,
       C!Ended, C!Orphans
<1>4. ASSUME NEW c \in Calls, C!Context(c) PROVE CallInv'
  BY <1>4 DEF C!Context, C!history, C!Leave, C!GoTo, C!TypeOK, CallInv, C!Steps,
       C!Ended, C!Orphans
<1>5. ASSUME NEW c \in Calls, C!ApplyCheck(c) PROVE CallInv'
  BY <1>5 DEF C!ApplyCheck, C!Note, C!Leave, C!GoTo, C!TypeOK, CallInv, C!Steps,
       C!Ended, C!Orphans
<1>6. ASSUME NEW c \in Calls, C!Apply(c) PROVE CallInv'
  BY <1>6 DEF C!Apply, C!Applied, C!Patched, C!Fits, C!Note, C!GoTo, C!TypeOK, CallInv,
       C!Steps, C!Ended, C!Orphans
<1>7. ASSUME NEW c \in Calls, C!Return(c) PROVE CallInv'
  BY <1>7 DEF C!Return, C!history, C!Leave, C!GoTo, C!TypeOK, CallInv, C!Steps, C!Ended,
       C!Orphans
<1>8. ASSUME NEW c \in Calls, C!Check(c) PROVE CallInv'
  BY <1>8 DEF C!Check, C!Rework, C!Note, C!Leave, C!GoTo, C!TypeOK, CallInv, C!Steps,
       C!Ended, C!Orphans
<1>9. ASSUME NEW c \in Calls, C!Checked(c) PROVE CallInv'
  BY <1>9 DEF C!Checked, C!history, C!GoTo, C!TypeOK, CallInv, C!Steps, C!Ended,
       C!Orphans
<1>10. ASSUME NEW c \in Calls, C!ReadBack(c) PROVE CallInv'
  BY <1>10 DEF C!ReadBack, C!history, C!Leave, C!GoTo, C!TypeOK, CallInv, C!Steps,
       C!Ended, C!Orphans
<1>11. ASSUME NEW p \in Patches, C!Edit(p) PROVE CallInv'
  BY <1>11 DEF C!Edit, C!locals, C!TypeOK, CallInv, C!Steps, C!Ended, C!Orphans
<1>12. ASSUME C!Kill(C!Victims("bridge")) PROVE CallInv'
  BY <1>12 DEF C!Kill, C!Left, C!Victims, C!Running, C!Ended, C!Orphans, C!history,
       C!TypeOK, CallInv, C!Steps
<1>13. ASSUME NEW c \in C!Victims("local"), C!Kill({c}) PROVE CallInv'
  BY <1>13 DEF C!Kill, C!Left, C!Victims, C!Running, C!Ended, C!Orphans, C!history,
       C!TypeOK, CallInv, C!Steps
<1>14. ASSUME UNCHANGED constructing PROVE CallInv'
  BY <1>14 DEF constructing, C!TypeOK, CallInv, C!Steps, C!Ended, C!Orphans
<1>15. ASSUME NEW c \in Calls, C!Orphan(c) PROVE CallInv'
  BY <1>15 DEF C!Orphan, C!Applied, C!Patched, C!Fits, C!GoTo, C!TypeOK, CallInv,
       C!Steps, C!Ended, C!Orphans
<1>. QED
  BY <1>1, <1>2, <1>3, <1>4, <1>5, <1>6, <1>7, <1>8, <1>9, <1>10, <1>11, <1>12, <1>13,
       <1>14, <1>15, ConstructCases

\* Whoever is inside by the bridge holds the lock, and leaves it on every way out.
LEMMA ConstructLockStep ==
    ASSUME C!TypeOK, CallInv, ConstructLockInv, [Next]_vars
    PROVE  ConstructLockInv'
<1>1. ASSUME NEW c \in Calls, NEW j \in C!Jobs, C!Ask(c, j) PROVE ConstructLockInv'
  BY <1>1 DEF C!Ask, C!GoTo, C!TypeOK, CallInv, ConstructLockInv, InConstruct,
       C!Running, C!Steps, C!Ended, C!Orphans
<1>2. ASSUME NEW c \in Calls, C!Lock(c) PROVE ConstructLockInv'
  BY <1>2 DEF C!Lock, C!GoTo, C!history, C!TypeOK, CallInv, ConstructLockInv,
       InConstruct, C!Running, C!Steps, C!Ended, C!Orphans
<1>3. ASSUME NEW c \in Calls, C!MakeDir(c) PROVE ConstructLockInv'
  BY <1>3 DEF C!MakeDir, C!history, C!Leave, C!GoTo, C!TypeOK, CallInv,
       ConstructLockInv, InConstruct, C!Running, C!Steps, C!Ended, C!Orphans
<1>4. ASSUME NEW c \in Calls, C!Context(c) PROVE ConstructLockInv'
  <2>1. ASSUME NEW s, C!Leave(c, s) PROVE ConstructLockInv'
    BY <1>4, <2>1 DEF C!Context, C!Leave, C!GoTo, C!TypeOK, CallInv, ConstructLockInv,
         InConstruct, C!Running, C!Ended, C!Orphans
  <2>2. CASE cpc' = [cpc EXCEPT ![c] = "apply_check"] /\ UNCHANGED construct_lock
    BY <1>4, <2>2 DEF C!Context, C!TypeOK, ConstructLockInv, InConstruct, C!Running,
         C!Ended, C!Orphans
  <2>. QED
    BY <1>4, <2>1, <2>2 DEF C!Context, C!GoTo
<1>5. ASSUME NEW c \in Calls, C!ApplyCheck(c) PROVE ConstructLockInv'
  <2>1. ASSUME NEW s, C!Leave(c, s) PROVE ConstructLockInv'
    BY <1>5, <2>1 DEF C!ApplyCheck, C!Leave, C!GoTo, C!TypeOK, CallInv, ConstructLockInv,
         InConstruct, C!Running, C!Ended, C!Orphans
  <2>2. CASE cpc' = [cpc EXCEPT ![c] = "apply"] /\ UNCHANGED construct_lock
    BY <1>5, <2>2 DEF C!ApplyCheck, C!TypeOK, ConstructLockInv, InConstruct, C!Running,
         C!Ended, C!Orphans
  <2>. QED
    BY <1>5, <2>1, <2>2 DEF C!ApplyCheck, C!GoTo
<1>6. ASSUME NEW c \in Calls, C!Apply(c) PROVE ConstructLockInv'
  BY <1>6 DEF C!Apply, C!Applied, C!Patched, C!Fits, C!Note, C!GoTo, C!TypeOK, CallInv,
       ConstructLockInv, InConstruct, C!Running, C!Steps, C!Ended, C!Orphans
<1>7. ASSUME NEW c \in Calls, C!Return(c) PROVE ConstructLockInv'
  BY <1>7 DEF C!Return, C!history, C!Leave, C!GoTo, C!TypeOK, CallInv, ConstructLockInv,
       InConstruct, C!Running, C!Steps, C!Ended, C!Orphans
<1>8. ASSUME NEW c \in Calls, C!Check(c) PROVE ConstructLockInv'
  BY <1>8 DEF C!Check, C!Rework, C!Note, C!Leave, C!GoTo, C!TypeOK, CallInv,
       ConstructLockInv, InConstruct, C!Running, C!Steps, C!Ended, C!Orphans
<1>9. ASSUME NEW c \in Calls, C!Checked(c) PROVE ConstructLockInv'
  BY <1>9 DEF C!Checked, C!history, C!GoTo, C!TypeOK, CallInv, ConstructLockInv,
       InConstruct, C!Running, C!Steps, C!Ended, C!Orphans
<1>10. ASSUME NEW c \in Calls, C!ReadBack(c) PROVE ConstructLockInv'
  <2>1. PICK s : C!Leave(c, s)
    BY <1>10 DEF C!ReadBack
  <2>2. cpc[c] = "read_back" /\ UNCHANGED call
    BY <1>10 DEF C!ReadBack
  <2>. QED
    BY <2>1, <2>2 DEF C!Leave, C!GoTo, C!TypeOK, CallInv, ConstructLockInv, InConstruct,
         C!Running, C!Ended, C!Orphans
<1>11. ASSUME NEW p \in Patches, C!Edit(p) PROVE ConstructLockInv'
  BY <1>11 DEF C!Edit, C!locals, C!TypeOK, CallInv, ConstructLockInv, InConstruct,
       C!Running, C!Steps, C!Ended, C!Orphans
<1>12. ASSUME C!Kill(C!Victims("bridge")) PROVE ConstructLockInv'
  BY <1>12 DEF C!Kill, C!Left, C!Victims, C!Running, C!Ended, C!Orphans, C!history,
       C!TypeOK, CallInv, ConstructLockInv, InConstruct, C!Steps
<1>13. ASSUME NEW c \in C!Victims("local"), C!Kill({c}) PROVE ConstructLockInv'
  <2>1. /\ construct_lock' = construct_lock \ {c} /\ UNCHANGED call
        /\ \A d \in Calls : d # c => cpc'[d] = cpc[d]
        /\ cpc'[c] \in {"dead", "orphan_apply", "orphan_check"}
    BY <1>13 DEF C!Kill, C!Left, C!Victims
  <2>2. call[c].door = "local" /\ c \notin construct_lock
    BY <1>13 DEF C!Victims, ConstructLockInv
  <2>3. \A d \in Calls : InConstruct(d)' <=> InConstruct(d) /\ d # c
    BY <1>13, <2>1 DEF InConstruct, C!Victims, C!Running, C!Ended, C!Orphans
  <2>4. construct_lock' = construct_lock /\ construct_lock \subseteq Calls
    BY <2>1, <2>2 DEF C!TypeOK
  <2>. QED
    BY <2>1, <2>2, <2>3, <2>4 DEF ConstructLockInv
<1>14. ASSUME UNCHANGED constructing PROVE ConstructLockInv'
  BY <1>14 DEF constructing, C!TypeOK, CallInv, ConstructLockInv, InConstruct,
       C!Running, C!Steps, C!Ended, C!Orphans
<1>15. ASSUME NEW c \in Calls, C!Orphan(c) PROVE ConstructLockInv'
  BY <1>15 DEF C!Orphan, C!Applied, C!Patched, C!Fits, C!GoTo, C!TypeOK, CallInv,
       ConstructLockInv, InConstruct, C!Running, C!Steps, C!Ended, C!Orphans
<1>. QED
  BY <1>1, <1>2, <1>3, <1>4, <1>5, <1>6, <1>7, <1>8, <1>9, <1>10, <1>11, <1>12, <1>13,
       <1>14, <1>15, ConstructCases

\* A local process that meets another is an overlap.
LEMMA ConstructAloneStep ==
    ASSUME C!TypeOK, CallInv, ConstructAloneInv, [Next]_vars
    PROVE  ConstructAloneInv'
<1>1. ASSUME NEW c \in Calls, NEW j \in C!Jobs, C!Ask(c, j) PROVE ConstructAloneInv'
  BY <1>1 DEF C!Ask, C!GoTo, C!TypeOK, CallInv, ConstructAloneInv, C!Running, C!Steps,
       C!Ended, C!Orphans, C!Jobs, C!Doors, C!Note
<1>2. ASSUME NEW c \in Calls, C!Lock(c) PROVE ConstructAloneInv'
  BY <1>2 DEF C!Lock, C!GoTo, C!history, C!TypeOK, CallInv, ConstructAloneInv,
       C!Running, C!Steps, C!Ended, C!Orphans, C!Jobs, C!Doors, C!Note
<1>3. ASSUME NEW c \in Calls, C!MakeDir(c) PROVE ConstructAloneInv'
  BY <1>3 DEF C!MakeDir, C!history, C!Leave, C!GoTo, C!TypeOK, CallInv,
       ConstructAloneInv, C!Running, C!Steps, C!Ended, C!Orphans, C!Jobs, C!Doors,
       C!Note
<1>4. ASSUME NEW c \in Calls, C!Context(c) PROVE ConstructAloneInv'
  BY <1>4 DEF C!Context, C!history, C!Leave, C!GoTo, C!TypeOK, CallInv,
       ConstructAloneInv, C!Running, C!Steps, C!Ended, C!Orphans, C!Jobs, C!Doors,
       C!Note
<1>5. ASSUME NEW c \in Calls, C!ApplyCheck(c) PROVE ConstructAloneInv'
  BY <1>5 DEF C!ApplyCheck, C!Note, C!Leave, C!GoTo, C!TypeOK, CallInv,
       ConstructAloneInv, C!Running, C!Steps, C!Ended, C!Orphans, C!Jobs, C!Doors
<1>6. ASSUME NEW c \in Calls, C!Apply(c) PROVE ConstructAloneInv'
  BY <1>6 DEF C!Apply, C!Applied, C!Patched, C!Fits, C!Note, C!GoTo, C!TypeOK, CallInv,
       ConstructAloneInv, C!Running, C!Steps, C!Ended, C!Orphans, C!Jobs, C!Doors
<1>7. ASSUME NEW c \in Calls, C!Return(c) PROVE ConstructAloneInv'
  BY <1>7 DEF C!Return, C!history, C!Leave, C!GoTo, C!TypeOK, CallInv,
       ConstructAloneInv, C!Running, C!Steps, C!Ended, C!Orphans, C!Jobs, C!Doors,
       C!Note
<1>8. ASSUME NEW c \in Calls, C!Check(c) PROVE ConstructAloneInv'
  BY <1>8 DEF C!Check, C!Rework, C!Note, C!Leave, C!GoTo, C!TypeOK, CallInv,
       ConstructAloneInv, C!Running, C!Steps, C!Ended, C!Orphans, C!Jobs, C!Doors
<1>9. ASSUME NEW c \in Calls, C!Checked(c) PROVE ConstructAloneInv'
  BY <1>9 DEF C!Checked, C!history, C!GoTo, C!TypeOK, CallInv, ConstructAloneInv,
       C!Running, C!Steps, C!Ended, C!Orphans, C!Jobs, C!Doors, C!Note
<1>10. ASSUME NEW c \in Calls, C!ReadBack(c) PROVE ConstructAloneInv'
  BY <1>10 DEF C!ReadBack, C!history, C!Leave, C!GoTo, C!TypeOK, CallInv,
       ConstructAloneInv, C!Running, C!Steps, C!Ended, C!Orphans, C!Jobs, C!Doors,
       C!Note
<1>11. ASSUME NEW p \in Patches, C!Edit(p) PROVE ConstructAloneInv'
  BY <1>11 DEF C!Edit, C!locals, C!TypeOK, CallInv, ConstructAloneInv, C!Running,
       C!Steps, C!Ended, C!Orphans, C!Jobs, C!Doors, C!Note
<1>12. ASSUME C!Kill(C!Victims("bridge")) PROVE ConstructAloneInv'
  BY <1>12 DEF C!Kill, C!Left, C!Victims, C!Running, C!Ended, C!Orphans, C!history,
       C!TypeOK, CallInv, ConstructAloneInv, C!Steps, C!Jobs, C!Doors, C!Note
<1>13. ASSUME NEW c \in C!Victims("local"), C!Kill({c}) PROVE ConstructAloneInv'
  BY <1>13 DEF C!Kill, C!Left, C!Victims, C!Running, C!Ended, C!Orphans, C!history,
       C!TypeOK, CallInv, ConstructAloneInv, C!Steps, C!Jobs, C!Doors, C!Note
<1>14. ASSUME UNCHANGED constructing PROVE ConstructAloneInv'
  BY <1>14 DEF constructing, C!TypeOK, CallInv, ConstructAloneInv, C!Running, C!Steps,
       C!Ended, C!Orphans, C!Jobs, C!Doors, C!Note
<1>15. ASSUME NEW c \in Calls, C!Orphan(c) PROVE ConstructAloneInv'
  BY <1>15 DEF C!Orphan, C!Applied, C!Patched, C!Fits, C!GoTo, C!TypeOK, CallInv,
       ConstructAloneInv, C!Running, C!Steps, C!Ended, C!Orphans, C!Jobs, C!Doors,
       C!Note
<1>. QED
  BY <1>1, <1>2, <1>3, <1>4, <1>5, <1>6, <1>7, <1>8, <1>9, <1>10, <1>11, <1>12, <1>13,
       <1>14, <1>15, ConstructCases

\* Without overlap, one call is inside at a time.
LEMMA OneConstruct ==
    ASSUME C!TypeOK, CallInv, ConstructLockInv, ConstructAloneInv, "overlap" \notin codd,
           NEW c \in Calls, NEW d \in Calls, InConstruct(c), InConstruct(d)
    PROVE  c = d
  BY DEF ConstructLockInv, ConstructAloneInv, InConstruct

\* The tree changes at the hand of the one call inside.
LEMMA TreeStep ==
    ASSUME C!TypeOK, CallInv, ConstructLockInv, ConstructAloneInv, TreeInv, [Next]_vars
    PROVE  TreeInv'
<1>1. ASSUME NEW c \in Calls, NEW j \in C!Jobs, C!Ask(c, j) PROVE TreeInv'
  BY <1>1, OneConstruct DEF C!Ask, C!GoTo, C!TypeOK, CallInv, InConstruct, C!Running,
       C!Steps, C!Ended, C!Orphans, TreeInv, C!Undisturbed, C!Fits
<1>2. ASSUME NEW c \in Calls, C!Lock(c) PROVE TreeInv'
  BY <1>2, OneConstruct DEF C!Lock, C!GoTo, C!history, C!TypeOK, CallInv, InConstruct,
       C!Running, C!Steps, C!Ended, C!Orphans, TreeInv, C!Undisturbed, C!Fits
<1>3. ASSUME NEW c \in Calls, C!MakeDir(c) PROVE TreeInv'
  BY <1>3, OneConstruct DEF C!MakeDir, C!history, C!Leave, C!GoTo, C!TypeOK, CallInv,
       InConstruct, C!Running, C!Steps, C!Ended, C!Orphans, TreeInv, C!Undisturbed,
       C!Fits
<1>4. ASSUME NEW c \in Calls, C!Context(c) PROVE TreeInv'
  BY <1>4, OneConstruct DEF C!Context, C!history, C!Leave, C!GoTo, C!TypeOK, CallInv,
       InConstruct, C!Running, C!Steps, C!Ended, C!Orphans, TreeInv, C!Undisturbed,
       C!Fits
<1>5. ASSUME NEW c \in Calls, C!ApplyCheck(c) PROVE TreeInv'
  BY <1>5, OneConstruct DEF C!ApplyCheck, C!Note, C!Leave, C!GoTo, C!TypeOK, CallInv,
       InConstruct, C!Running, C!Steps, C!Ended, C!Orphans, TreeInv, C!Undisturbed,
       C!Fits
<1>6. ASSUME NEW c \in Calls, C!Apply(c) PROVE TreeInv'
  BY <1>6, OneConstruct DEF C!Apply, C!Applied, C!Patched, C!Fits, C!Note, C!GoTo,
       C!TypeOK, CallInv, InConstruct, C!Running, C!Steps, C!Ended, C!Orphans, TreeInv,
       C!Undisturbed
<1>7. ASSUME NEW c \in Calls, C!Return(c) PROVE TreeInv'
  BY <1>7, OneConstruct DEF C!Return, C!history, C!Leave, C!GoTo, C!TypeOK, CallInv,
       InConstruct, C!Running, C!Steps, C!Ended, C!Orphans, TreeInv, C!Undisturbed,
       C!Fits
<1>8. ASSUME NEW c \in Calls, C!Check(c) PROVE TreeInv'
  BY <1>8, OneConstruct DEF C!Check, C!Rework, C!Note, C!Leave, C!GoTo, C!TypeOK,
       CallInv, InConstruct, C!Running, C!Steps, C!Ended, C!Orphans, TreeInv,
       C!Undisturbed, C!Fits
<1>9. ASSUME NEW c \in Calls, C!Checked(c) PROVE TreeInv'
  BY <1>9, OneConstruct DEF C!Checked, C!history, C!GoTo, C!TypeOK, CallInv,
       InConstruct, C!Running, C!Steps, C!Ended, C!Orphans, TreeInv, C!Undisturbed,
       C!Fits
<1>10. ASSUME NEW c \in Calls, C!ReadBack(c) PROVE TreeInv'
  BY <1>10, OneConstruct DEF C!ReadBack, C!history, C!Leave, C!GoTo, C!TypeOK, CallInv,
       InConstruct, C!Running, C!Steps, C!Ended, C!Orphans, TreeInv, C!Undisturbed,
       C!Fits
<1>11. ASSUME NEW p \in Patches, C!Edit(p) PROVE TreeInv'
  BY <1>11, OneConstruct DEF C!Edit, C!locals, C!TypeOK, CallInv, InConstruct,
       C!Running, C!Steps, C!Ended, C!Orphans, TreeInv, C!Undisturbed, C!Fits
<1>12. ASSUME C!Kill(C!Victims("bridge")) PROVE TreeInv'
  BY <1>12, OneConstruct DEF C!Kill, C!Left, C!Victims, C!Running, C!Ended, C!Orphans,
       C!history, C!TypeOK, CallInv, InConstruct, C!Steps, TreeInv, C!Undisturbed,
       C!Fits
<1>13. ASSUME NEW c \in C!Victims("local"), C!Kill({c}) PROVE TreeInv'
  BY <1>13, OneConstruct DEF C!Kill, C!Left, C!Victims, C!Running, C!Ended, C!Orphans,
       C!history, C!TypeOK, CallInv, InConstruct, C!Steps, TreeInv, C!Undisturbed,
       C!Fits
<1>14. ASSUME UNCHANGED constructing PROVE TreeInv'
  BY <1>14, OneConstruct DEF constructing, C!TypeOK, CallInv, InConstruct, C!Running,
       C!Steps, C!Ended, C!Orphans, TreeInv, C!Undisturbed, C!Fits
<1>15. ASSUME NEW c \in Calls, C!Orphan(c) PROVE TreeInv'
  BY <1>15, OneConstruct DEF C!Orphan, C!Applied, C!Patched, C!Fits, C!GoTo, C!TypeOK,
       CallInv, InConstruct, C!Running, C!Steps, C!Ended, C!Orphans, TreeInv,
       C!Undisturbed
<1>. QED
  BY <1>1, <1>2, <1>3, <1>4, <1>5, <1>6, <1>7, <1>8, <1>9, <1>10, <1>11, <1>12, <1>13,
       <1>14, <1>15, ConstructCases

\* The directory of a task is made once.
LEMMA OwnerStep ==
    ASSUME C!TypeOK, CallInv, OwnerInv, [Next]_vars
    PROVE  OwnerInv'
<1>1. ASSUME NEW c \in Calls, NEW j \in C!Jobs, C!Ask(c, j) PROVE OwnerInv'
  BY <1>1 DEF C!Ask, C!GoTo, C!TypeOK, CallInv, OwnerInv, Owning, C!Steps, C!Ended,
       C!Orphans, C!Jobs, C!Running
<1>2. ASSUME NEW c \in Calls, C!Lock(c) PROVE OwnerInv'
  BY <1>2 DEF C!Lock, C!GoTo, C!history, C!TypeOK, CallInv, OwnerInv, Owning, C!Steps,
       C!Ended, C!Orphans, C!Jobs, C!Running
<1>3. ASSUME NEW c \in Calls, C!MakeDir(c) PROVE OwnerInv'
  BY <1>3 DEF C!MakeDir, C!history, C!Leave, C!GoTo, C!TypeOK, CallInv, OwnerInv,
       Owning, C!Steps, C!Ended, C!Orphans, C!Jobs, C!Running
<1>4. ASSUME NEW c \in Calls, C!Context(c) PROVE OwnerInv'
  BY <1>4 DEF C!Context, C!history, C!Leave, C!GoTo, C!TypeOK, CallInv, OwnerInv,
       Owning, C!Steps, C!Ended, C!Orphans, C!Jobs, C!Running
<1>5. ASSUME NEW c \in Calls, C!ApplyCheck(c) PROVE OwnerInv'
  BY <1>5 DEF C!ApplyCheck, C!Note, C!Leave, C!GoTo, C!TypeOK, CallInv, OwnerInv,
       Owning, C!Steps, C!Ended, C!Orphans, C!Jobs, C!Running
<1>6. ASSUME NEW c \in Calls, C!Apply(c) PROVE OwnerInv'
  <2> DEFINE t == call[c].task
  <2>1. t \in Tasks /\ owner[t] = {c} /\ cpc[c] = "apply" /\ UNCHANGED <<owner, call>>
    BY <1>6 DEF C!Apply, CallInv, C!Jobs, OwnerInv, Owning
  <2>2. starts' = [starts EXCEPT ![t] = starts[t] + 1]
    BY <1>6 DEF C!Apply
  <2>3. PICK s \in {"check", "return"} : cpc' = [cpc EXCEPT ![c] = s]
    BY <1>6 DEF C!Apply, C!GoTo
  <2>4. \A u \in Tasks \ {t} : starts'[u] = starts[u]
    BY <2>2 DEF C!TypeOK
  <2>5. \A d \in Calls : d # c /\ cpc[d] \in Owning => call[d].task # t
    BY <2>1 DEF OwnerInv
  <2>6. \A d \in Calls : cpc[d] \in Owning => call[d].task \in Tasks
    BY DEF CallInv, C!Jobs, Owning
  <2>. QED
    BY <2>1, <2>3, <2>4, <2>5, <2>6 DEF OwnerInv, Owning, C!TypeOK
<1>7. ASSUME NEW c \in Calls, C!Return(c) PROVE OwnerInv'
  BY <1>7 DEF C!Return, C!history, C!Leave, C!GoTo, C!TypeOK, CallInv, OwnerInv, Owning,
       C!Steps, C!Ended, C!Orphans, C!Jobs, C!Running
<1>8. ASSUME NEW c \in Calls, C!Check(c) PROVE OwnerInv'
  BY <1>8 DEF C!Check, C!Rework, C!Note, C!Leave, C!GoTo, C!TypeOK, CallInv, OwnerInv,
       Owning, C!Steps, C!Ended, C!Orphans, C!Jobs, C!Running
<1>9. ASSUME NEW c \in Calls, C!Checked(c) PROVE OwnerInv'
  BY <1>9 DEF C!Checked, C!history, C!GoTo, C!TypeOK, CallInv, OwnerInv, Owning,
       C!Steps, C!Ended, C!Orphans, C!Jobs, C!Running
<1>10. ASSUME NEW c \in Calls, C!ReadBack(c) PROVE OwnerInv'
  BY <1>10 DEF C!ReadBack, C!history, C!Leave, C!GoTo, C!TypeOK, CallInv, OwnerInv,
       Owning, C!Steps, C!Ended, C!Orphans, C!Jobs, C!Running
<1>11. ASSUME NEW p \in Patches, C!Edit(p) PROVE OwnerInv'
  BY <1>11 DEF C!Edit, C!locals, C!TypeOK, CallInv, OwnerInv, Owning, C!Steps, C!Ended,
       C!Orphans, C!Jobs, C!Running
<1>12. ASSUME C!Kill(C!Victims("bridge")) PROVE OwnerInv'
  BY <1>12 DEF C!Kill, C!Left, C!Victims, C!Running, C!Ended, C!Orphans, C!history,
       C!TypeOK, CallInv, OwnerInv, Owning, C!Steps, C!Jobs
<1>13. ASSUME NEW c \in C!Victims("local"), C!Kill({c}) PROVE OwnerInv'
  BY <1>13 DEF C!Kill, C!Left, C!Victims, C!Running, C!Ended, C!Orphans, C!history,
       C!TypeOK, CallInv, OwnerInv, Owning, C!Steps, C!Jobs
<1>14. ASSUME UNCHANGED constructing PROVE OwnerInv'
  BY <1>14 DEF constructing, C!TypeOK, CallInv, OwnerInv, Owning, C!Steps, C!Ended,
       C!Orphans, C!Jobs, C!Running
<1>15. ASSUME NEW c \in Calls, C!Orphan(c) PROVE OwnerInv'
  <2>1. /\ UNCHANGED <<owner, call>> /\ cpc' = [cpc EXCEPT ![c] = "dead"]
        /\ cpc[c] \in {"orphan_apply", "orphan_check"}
    BY <1>15 DEF C!Orphan, C!GoTo
  <2>2. CASE cpc[c] = "orphan_check"
    BY <1>15, <2>1, <2>2 DEF C!Orphan, C!TypeOK, OwnerInv, Owning
  <2>3. CASE cpc[c] = "orphan_apply"
    <3> DEFINE t == call[c].task
    <3>1. t \in Tasks /\ owner[t] = {c}
      BY <2>3 DEF CallInv, C!Jobs, OwnerInv, Owning
    <3>2. starts' = [starts EXCEPT ![t] = starts[t] + 1]
      BY <1>15, <2>3 DEF C!Orphan
    <3>3. \A u \in Tasks \ {t} : starts'[u] = starts[u]
      BY <3>2 DEF C!TypeOK
    <3>4. \A d \in Calls : d # c /\ cpc[d] \in Owning => call[d].task # t
      BY <3>1 DEF OwnerInv
    <3>5. \A d \in Calls : cpc[d] \in Owning => call[d].task \in Tasks
      BY DEF CallInv, C!Jobs, Owning
    <3>. QED
      BY <2>1, <3>1, <3>3, <3>4, <3>5 DEF OwnerInv, Owning, C!TypeOK
  <2>. QED
    BY <2>1, <2>2, <2>3
<1>. QED
  BY <1>1, <1>2, <1>3, <1>4, <1>5, <1>6, <1>7, <1>8, <1>9, <1>10, <1>11, <1>12, <1>13,
       <1>14, <1>15, ConstructCases

-----------------------------------------------------------------------------
(* Theorems. *)

\* Nothing has been asked for yet.
LEMMA InitIInv == Init => IInv
<1>. SUFFICES ASSUME A!Init, C!Init PROVE IInv
  BY DEF Init
<1>1. A!TypeOK /\ C!TypeOK
  BY MaxChecksAssumption DEF A!Init, C!Init, A!TypeOK, C!TypeOK, A!Steps, C!Steps,
       A!File, A!Absent, C!Statuses
<1>2. AskInv /\ AbsorbLockInv /\ AbsorbAloneInv
  BY DEF A!Init, AskInv, AbsorbLockInv, AbsorbAloneInv, InAbsorb, A!Running
<1>3. MemoryInv /\ PageShowsWhatWasTold
  BY DEF A!Init, MemoryInv, PageShowsWhatWasTold, A!PageShowsWhatWasTold, A!Absent,
       A!Told, Loaded
<1>4. CallInv /\ ConstructLockInv /\ ConstructAloneInv
  BY DEF C!Init, CallInv, ConstructLockInv, ConstructAloneInv, InConstruct, C!Running
<1>5. TreeInv /\ OwnerInv
  BY DEF C!Init, TreeInv, OwnerInv, Owning
<1>. QED
  BY <1>1, <1>2, <1>3, <1>4, <1>5 DEF IInv, AbsorbInv, ConstructInv

\* The invariant holds whatever the requests, and however they interleave and end.
THEOREM Invariance == Spec => []IInv
<1>1. AbsorbInv /\ [Next]_vars => AbsorbInv'
  BY AbsorbTypeStep, AskStep, AbsorbLockStep, AbsorbAloneStep, MemoryStep, PageStep DEF
       AbsorbInv
<1>2. ConstructInv /\ [Next]_vars => ConstructInv'
  BY ConstructTypeStep, CallStep, ConstructLockStep, ConstructAloneStep, TreeStep,
       OwnerStep DEF ConstructInv
<1>3. IInv /\ [Next]_vars => IInv'
  BY <1>1, <1>2 DEF IInv
<1>. QED
  BY <1>3, InitIInv, PTL DEF Spec

\* Every variable stays in its set.
THEOREM TypeCorrect == Spec => []TypeOK
<1>1. IInv => TypeOK
  BY DEF IInv, AbsorbInv, ConstructInv, TypeOK
<1>. QED
  BY <1>1, Invariance, PTL

\* With one bridge that stays up, whatever its threads do, no answered absorb loses what
\* it brought and readme_state.json stays readable, as long as no write_text of it has
\* failed after emptying it (readme_absorb.py, server.py).
THEOREM KeptAbsorbs == Spec => []AbsorbedIsKept
<1>1. IInv => AbsorbedIsKept
  BY DEF IInv, AbsorbInv, MemoryInv, AbsorbedIsKept, A!AbsorbedIsKept, A!Told
<1>. QED
  BY <1>1, Invariance, PTL

\* With one bridge, README.generated.md never falls behind what was told of it.
THEOREM TruePages == Spec => []PageShowsWhatWasTold
<1>1. IInv => PageShowsWhatWasTold
  BY DEF IInv, AbsorbInv
<1>. QED
  BY <1>1, Invariance, PTL

\* As long as only calls of one bridge touch the tree, what construct.py tells as done
\* was validated as it stands there.  Deaths are no exception, commands that outlive
\* them are.
THEOREM ValidatedTrees == Spec => []ValidatedAsApplied
<1>1. IInv => ValidatedAsApplied
  BY DEF IInv, ConstructInv, TreeInv, ValidatedAsApplied, C!ValidatedAsApplied
<1>. QED
  BY <1>1, Invariance, PTL

\* Under the same condition construct.py starts git apply on the very tree git apply
\* --check was given, which its patch fits.
THEOREM CheckedPatches == Spec => []CheckedPatchFits
<1>1. IInv => CheckedPatchFits
  BY DEF IInv, ConstructInv, TreeInv, CheckedPatchFits, C!CheckedPatchFits
<1>. QED
  BY <1>1, Invariance, PTL

\* No way out of a handler of server.py, and no death, leaves a lock with somebody who
\* will not give it back.
THEOREM ReturnedLocks == Spec => []LocksAreReturned
<1>1. IInv => LocksAreReturned
  BY DEF IInv, AbsorbInv, ConstructInv, AbsorbLockInv, ConstructLockInv, InAbsorb,
       InConstruct, LocksAreReturned
<1>. QED
  BY <1>1, Invariance, PTL

\* What AtMostOnce sees of a task.
Begun == {t \in Tasks : owner[t] # {}}
Answers == [t \in Tasks |->
    IF \E c \in Calls : owner[t] = {c} /\ cpc[c] = "told" THEN 1 ELSE 0]

\* A call that ends answers its task, if it owns one, for the first time.
LEMMA OwnerAnswers ==
    ASSUME C!TypeOK, CallInv, OwnerInv, NEW c \in Calls, cpc[c] \in Owning,
           UNCHANGED <<owner, starts>>, cpc' = [cpc EXCEPT ![c] = "told"]
    PROVE  C!Once!Next
<1> DEFINE t == call[c].task
<1>1. t \in Tasks /\ t \in Begun /\ owner[t] = {c}
  BY DEF CallInv, OwnerInv, Owning, C!Jobs, Begun
<1>2. Answers[t] = 0
  BY <1>1 DEF Answers, Owning
<1>3. \A u \in Tasks \ {t} : Answers'[u] = Answers[u]
  BY <1>1 DEF Answers, OwnerInv, C!TypeOK
<1>4. Answers'[t] = 1
  BY <1>1 DEF Answers, C!TypeOK
<1>5. Answers' = [Answers EXCEPT ![t] = 1]
  BY <1>1, <1>3, <1>4 DEF Answers
<1>. QED
  BY <1>1, <1>2, <1>5 DEF C!Once!Next, C!Once!Answer, Begun, Answers

\* A step that makes no directory, starts no git apply and tells no owner is a stutter.
LEMMA Unanswered ==
    ASSUME C!TypeOK, UNCHANGED <<owner, starts>>,
           \A c \in Calls : cpc'[c] # cpc[c] => "told" \notin {cpc[c], cpc'[c]}
    PROVE  UNCHANGED C!Once!vars
<1>1. Answers' = Answers
  BY DEF Answers, C!TypeOK
<1>. QED
  BY <1>1 DEF C!Once!vars, Answers

\* Constructs implement AtMostOnce: however often a caller asks again, by whatever door,
\* git apply is started at most once for a task, and the answer comes after it.
THEOREM Refinement == Spec => RefinesAtMostOnce
<1>1. Init => C!Once!Init
  BY DEF Init, C!Init, C!Once!Init
<1>2. IInv /\ [Next]_vars => [C!Once!Next]_(C!Once!vars)
  <2> SUFFICES ASSUME C!TypeOK, CallInv, OwnerInv, [Next]_vars
               PROVE  [C!Once!Next]_(C!Once!vars)
    BY DEF IInv, ConstructInv
  <2>1. ASSUME NEW c \in Calls, NEW j \in C!Jobs, C!Ask(c, j)
        PROVE  [C!Once!Next]_(C!Once!vars)
    BY <2>1, Unanswered DEF C!Ask, C!GoTo, C!TypeOK
  <2>2. ASSUME NEW c \in Calls, C!Lock(c) PROVE [C!Once!Next]_(C!Once!vars)
    BY <2>2, Unanswered DEF C!Lock, C!GoTo, C!history, C!TypeOK
  <2>3. ASSUME NEW c \in Calls, C!MakeDir(c) PROVE [C!Once!Next]_(C!Once!vars)
    <3> DEFINE t == call[c].task
    <3>1. t \in Tasks
      BY <2>3 DEF C!MakeDir, CallInv, C!Jobs
    <3>2. CASE owner[t] = {}
      <4>1. /\ owner' = [owner EXCEPT ![t] = {c}] /\ cpc' = [cpc EXCEPT ![c] = "context"]
            /\ UNCHANGED starts /\ cpc[c] = "mkdir"
        BY <2>3, <3>2 DEF C!MakeDir, C!GoTo, C!history
      <4>2. Begun' = Begun \cup {t} /\ t \notin Begun
        BY <3>1, <3>2, <4>1 DEF Begun, C!TypeOK
      <4>3. Answers' = Answers
        <5>1. \A d \in Calls : cpc'[d] = "told" <=> cpc[d] = "told"
          BY <4>1 DEF C!TypeOK
        <5>2. \A u \in Tasks \ {t} : owner'[u] = owner[u]
          BY <4>1 DEF C!TypeOK
        <5>3. owner'[t] = {c} /\ cpc'[c] # "told"
          BY <3>1, <4>1, <5>1 DEF C!TypeOK
        <5>4. \A u \in Tasks : (\E d \in Calls : owner'[u] = {d} /\ cpc'[d] = "told")
                 <=> \E d \in Calls : owner[u] = {d} /\ cpc[d] = "told"
          BY <3>2, <5>1, <5>2, <5>3
        <5>. QED
          BY <5>4 DEF Answers
      <4>. QED
        BY <3>1, <4>1, <4>2, <4>3 DEF C!Once!Next, C!Once!Begin, Begun, Answers
    <3>3. CASE owner[t] # {}
      <4>1. /\ cpc' = [cpc EXCEPT ![c] = "told"] /\ cpc[c] = "mkdir"
            /\ UNCHANGED <<owner, starts>>
        BY <2>3, <3>3 DEF C!MakeDir, C!Leave, C!GoTo, C!history
      <4>2. Answers' = Answers
        BY <4>1 DEF Answers, C!TypeOK, OwnerInv
      <4>. QED
        BY <4>1, <4>2 DEF C!Once!vars, Answers
    <3>. QED
      BY <3>2, <3>3
  <2>4. ASSUME NEW c \in Calls, C!Context(c) PROVE [C!Once!Next]_(C!Once!vars)
    BY <2>4, OwnerAnswers, Unanswered DEF C!Context, C!Leave, C!GoTo, C!history,
         C!TypeOK, Owning
  <2>5. ASSUME NEW c \in Calls, C!ApplyCheck(c) PROVE [C!Once!Next]_(C!Once!vars)
    BY <2>5, OwnerAnswers, Unanswered DEF C!ApplyCheck, C!Leave, C!GoTo, C!TypeOK,
         Owning
  <2>6. ASSUME NEW c \in Calls, C!Apply(c) PROVE [C!Once!Next]_(C!Once!vars)
    <3> DEFINE t == call[c].task
    <3>1. t \in Tasks /\ owner[t] = {c} /\ starts[t] = 0 /\ cpc[c] = "apply"
      BY <2>6 DEF C!Apply, C!Applied, C!Patched, C!Fits, CallInv, C!Jobs, OwnerInv,
           Owning
    <3>2. starts' = [starts EXCEPT ![t] = 1] /\ UNCHANGED owner
      BY <2>6, <3>1 DEF C!Apply, C!Applied, C!Patched, C!Fits, C!TypeOK
    <3>3. cpc' = [cpc EXCEPT ![c] = "check"] \/ cpc' = [cpc EXCEPT ![c] = "return"]
      BY <2>6 DEF C!Apply, C!Applied, C!Patched, C!Fits, C!GoTo
    <3>4. Answers' = Answers /\ Answers[t] = 0 /\ t \in Begun
      BY <3>1, <3>2, <3>3 DEF Answers, C!TypeOK, Begun
    <3>. QED
      BY <3>1, <3>2, <3>4 DEF C!Once!Next, C!Once!Effect, Begun, Answers
  <2>7. ASSUME NEW c \in Calls, C!Return(c) PROVE [C!Once!Next]_(C!Once!vars)
    BY <2>7, OwnerAnswers DEF C!Return, C!Leave, C!GoTo, C!history, Owning
  <2>8. ASSUME NEW c \in Calls, C!Check(c) PROVE [C!Once!Next]_(C!Once!vars)
    BY <2>8, OwnerAnswers, Unanswered DEF C!Check, C!Rework, C!Leave, C!GoTo, C!TypeOK,
         Owning
  <2>9. ASSUME NEW c \in Calls, C!Checked(c) PROVE [C!Once!Next]_(C!Once!vars)
    BY <2>9, Unanswered DEF C!Checked, C!GoTo, C!history, C!TypeOK
  <2>10. ASSUME NEW c \in Calls, C!ReadBack(c) PROVE [C!Once!Next]_(C!Once!vars)
    BY <2>10, OwnerAnswers DEF C!ReadBack, C!Leave, C!GoTo, C!history, Owning
  <2>11. ASSUME NEW p \in Patches, C!Edit(p) PROVE [C!Once!Next]_(C!Once!vars)
    BY <2>11, Unanswered DEF C!Edit, C!locals
  <2>12. ASSUME C!Kill(C!Victims("bridge")) PROVE [C!Once!Next]_(C!Once!vars)
    BY <2>12, Unanswered DEF C!Kill, C!Left, C!Victims, C!Running, C!Ended, C!Orphans,
         C!history
  <2>13. ASSUME NEW c \in C!Victims("local"), C!Kill({c})
         PROVE  [C!Once!Next]_(C!Once!vars)
    BY <2>13, Unanswered DEF C!Kill, C!Left, C!Victims, C!Running, C!Ended, C!Orphans,
         C!history
  <2>14. ASSUME UNCHANGED constructing PROVE [C!Once!Next]_(C!Once!vars)
    BY <2>14, Unanswered DEF constructing
  <2>15. ASSUME NEW c \in Calls, C!Orphan(c) PROVE [C!Once!Next]_(C!Once!vars)
    <3> DEFINE t == call[c].task
    <3>1. UNCHANGED owner /\ cpc' = [cpc EXCEPT ![c] = "dead"] /\ cpc[c] # "told"
      BY <2>15 DEF C!Orphan, C!GoTo
    <3>2. CASE cpc[c] = "orphan_apply"
      <4>1. t \in Tasks /\ owner[t] = {c} /\ starts[t] = 0
        BY <3>2 DEF CallInv, C!Jobs, OwnerInv, Owning
      <4>2. starts' = [starts EXCEPT ![t] = 1]
        BY <2>15, <3>2, <4>1 DEF C!Orphan, C!TypeOK
      <4>3. Answers' = Answers /\ Answers[t] = 0 /\ t \in Begun
        BY <3>1, <3>2, <4>1 DEF Answers, C!TypeOK, Begun
      <4>. QED
        BY <3>1, <4>1, <4>2, <4>3 DEF C!Once!Next, C!Once!Effect, Begun, Answers
    <3>3. CASE cpc[c] = "orphan_check"
      BY <2>15, <3>1, <3>3, Unanswered DEF C!Orphan, C!TypeOK
    <3>. QED
      BY <2>15, <3>2, <3>3 DEF C!Orphan
  <2>. QED
    BY <2>1, <2>2, <2>3, <2>4, <2>5, <2>6, <2>7, <2>8, <2>9, <2>10, <2>11, <2>12, <2>13,
       <2>14, <2>15, ConstructCases
<1>. QED
  BY <1>1, <1>2, Invariance, PTL DEF Spec, RefinesAtMostOnce, C!RefinesAtMostOnce,
       C!Once!Spec

\* The bridge and its neighbours do to the memory what ReadmeAbsorb lets requests do.
THEOREM AbsorbPart == Spec => A!Spec
<1>1. Init => A!Init
  BY DEF Init
<1>2. [Next]_vars => [A!Next]_(A!vars)
  <2>1. ASSUME NEW a \in Absorbs, AbsorbStep(a) PROVE A!Next
    BY <2>1 DEF AbsorbStep, A!Next
  <2>2. ASSUME A!Kill(A!Victims("bridge")) PROVE A!Next
    BY <2>2 DEF A!Next, A!Crash
  <2>3. ASSUME NEW a \in A!Victims("local"), A!Kill({a}) PROVE A!Next
    BY <2>3 DEF A!Next, A!Crash
  <2>4. ASSUME UNCHANGED absorbing PROVE UNCHANGED A!vars
    BY <2>4 DEF absorbing, A!vars, A!files
  <2>. QED
    BY <2>1, <2>2, <2>3, <2>4 DEF Next, vars, ConstructStep, Edit, Orphan, BridgeDies, LocalDies
<1>. QED
  BY <1>1, <1>2, PTL DEF Spec, A!Spec

\* And to the tree what PatchConstruct lets calls do, to which an absorb is no more than
\* a file that can be read or cannot.
THEOREM ConstructPart == Spec => C!Spec
<1>1. Init => C!Init
  BY DEF Init, A!Init, A!Absent, C!Init
<1>2. [Next]_vars => [C!Next]_(C!vars)
  <2> DEFINE readable == memory.is \in {"absent", "whole"}
  <2>1. ASSUME UNCHANGED constructing PROVE [C!Next]_(C!vars)
    <3>1. CASE readable' = readable
      BY <2>1, <3>1 DEF constructing, C!vars, C!locals, C!history
    <3>2. CASE readable' = ~readable
      BY <2>1, <3>2 DEF constructing, C!Next, C!Absorb, C!locals, C!history
    <3>. QED
      BY <3>1, <3>2
  <2>2. ASSUME NEW c \in Calls, C!Step(c) PROVE C!Next
    BY <2>2 DEF C!Next
  <2>3. ASSUME NEW p \in Patches, C!Edit(p) PROVE C!Next
    BY <2>3 DEF C!Next
  <2>4. ASSUME C!Kill(C!Victims("bridge")) PROVE C!Next
    BY <2>4 DEF C!Next, C!Crash
  <2>5. ASSUME NEW c \in C!Victims("local"), C!Kill({c}) PROVE C!Next
    BY <2>5 DEF C!Next, C!Crash
  <2>6. ASSUME NEW c \in Calls, C!Orphan(c) PROVE C!Next
    BY <2>6 DEF C!Next
  <2>. QED
    BY <2>1, <2>2, <2>3, <2>4, <2>5, <2>6 DEF Next, vars, AbsorbStep, ConstructStep, Edit,
         Orphan, BridgeDies, LocalDies
<1>. QED
  BY <1>1, <1>2, PTL DEF Spec, C!Spec
===============================================================================
