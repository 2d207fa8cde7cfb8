-------------------------- MODULE GitHubQueueProofs --------------------------
(***************************************************************************)
(* What holds of GitHubQueue for every set of watchers and workspaces,     *)
(* every number of issues and every page size.                             *)
(*                                                                         *)
(* IInv is inductive.  Its core is that an active watcher's claim file     *)
(* exists and that no two busy watchers share a request (ClaimInv): from   *)
(* it follow the counters (StageInv), and with what the owner's actions    *)
(* record in the history variables, the other properties.                  *)
(***************************************************************************)
EXTENDS GitHubQueue, TLAPS, FiniteSetTheorems

Active == Busy \cup {"claim"}

\* A polled job is one that parsed, of an issue that had been filed.
JobInv == \A w \in Watchers : pc[w] \in Active =>
    /\ job[w].issue \in 1..filed
    /\ job[w].body # "foreign"

\* A busy watcher's request is claimed, by it alone.
ClaimInv ==
    /\ \A w \in Watchers : pc[w] \in Busy => Request(w) \in claims
    /\ \A w, v \in Watchers :
          (pc[w] \in Busy /\ pc[v] \in Busy /\ w # v) => Request(w) # Request(v)

\* The counters of a request follow the step of the watcher that holds it.
StageInv ==
    /\ \A r \in Requests :
          /\ ran[r] \in {0, 1}
          /\ replies[r] \in {0, 1}
          /\ r \notin claims => ran[r] = 0 /\ replies[r] = 0
          /\ replies[r] > 0 => (told[r] = "refused" <=> ran[r] = 0)
    /\ \A w \in Watchers :
          /\ pc[w] = "authorize" => ran[Request(w)] = 0
          /\ pc[w] = "running" => ran[Request(w)] = 1
          /\ pc[w] = "comment" => (verdict[w] = "refused" <=> ran[Request(w)] = 0)
          /\ pc[w] = "close" => replies[Request(w)] = 1
          /\ pc[w] \in {"authorize", "running", "comment"} => replies[Request(w)] = 0

\* A closed issue was closed by its owner or answered.
ClosedInv == \A i \in 1..filed : i \notin open \cup meddled
    => \E s \in Workspaces : replies[<<s, i>>] = 1

\* An approval that a watcher carries was once on the issue with that body.
SanctionInv ==
    /\ \A i \in open \cap labelled : body[i] = "elevated" => i \in sanctioned
    /\ \A w \in Watchers : pc[w] \in Active
          => (job[w].body = "elevated" /\ job[w].approved
                => job[w].issue \in sanctioned)
    /\ \A w \in Watchers : pc[w] = "running" => Authorized(job[w])

\* The issue an active watcher polled is still an open job, unless the owner
\* touched it or another watcher has claimed it, elsewhere if this one has.
OpenInv == \A w \in Watchers : pc[w] \in Active =>
    \/ job[w].issue \in meddled
    \/ /\ body[job[w].issue] # "foreign"
       /\ \/ job[w].issue \in open
          \/ \E s \in Workspaces :
                /\ <<s, job[w].issue>> \in claims
                /\ pc[w] \in Busy => s # WorkspaceOf[w]

\* Older issues were not jobs in the queue when it polled, and are not now.
PassedInv == \A w \in Watchers : pc[w] \in Active =>
    \A i \in 1..(job[w].issue - 1) :
        i \in meddled \/ i \notin open \/ body[i] = "foreign"

IInv == /\ TypeOK /\ JobInv /\ ClaimInv /\ StageInv
        /\ ClosedInv /\ SanctionInv /\ OpenInv /\ PassedInv

-----------------------------------------------------------------------------
\* A request is a pair of its workspace and issue, and equal only as one.
LEMMA RequestTyped ==
    ASSUME TypeOK, NEW w \in Watchers, job[w].issue \in Issues
    PROVE  /\ Request(w) \in Requests
           /\ Request(w)[1] = WorkspaceOf[w]
           /\ Request(w)[2] = job[w].issue
    BY WorkspaceAssumption DEF Request, Requests

LEMMA LeaveTyped ==
    ASSUME TypeOK, NEW w \in Watchers, NEW step \in {"idle", "down"}, Leave(w, step)
    PROVE  /\ pc' \in [Watchers -> Busy \cup {"down", "idle", "claim"}]
           /\ job' \in [Watchers -> Job]
           /\ verdict' \in [Watchers -> Verdicts]
    <1>1. NoJob \in Job
      BY SizeAssumption DEF NoJob, Job, Bodies
    <1>. QED
      BY <1>1 DEF TypeOK, Leave, GoTo, Verdicts

LEMMA Increment ==
    ASSUME NEW S, NEW f \in [S -> Nat], NEW x \in S
    PROVE  [f EXCEPT ![x] = f[x] + 1] \in [S -> Nat]
    OBVIOUS

\* Splits a step into the actions, so that every proof below can cite it.
LEMMA NextCases ==
    ASSUME [Next]_vars,
           NEW P,
           ASSUME NEW b \in Bodies, NEW a \in BOOLEAN, File(b, a) PROVE P,
           ASSUME NEW i \in Issues, NEW b \in Bodies, Edit(i, b) PROVE P,
           ASSUME NEW i \in Issues, ToggleLabel(i) PROVE P,
           ASSUME NEW i \in Issues, ToggleOpen(i) PROVE P,
           ASSUME ChangeVisibility PROVE P,
           ASSUME NEW w \in Watchers, Start(w) PROVE P,
           ASSUME NEW w \in Watchers, Poll(w) PROVE P,
           ASSUME NEW w \in Watchers, Claim(w) PROVE P,
           ASSUME NEW w \in Watchers, Refuse(w) PROVE P,
           ASSUME NEW w \in Watchers, Run(w) PROVE P,
           ASSUME NEW w \in Watchers, NEW v \in {"done", "failed"}, Finish(w, v) PROVE P,
           ASSUME NEW w \in Watchers, Comment(w) PROVE P,
           ASSUME NEW w \in Watchers, Close(w) PROVE P,
           ASSUME NEW w \in Watchers, Die(w) PROVE P,
           ASSUME UNCHANGED vars PROVE P
    PROVE  P
    BY DEF Next, Filing, Meddling, Step

LEMMA TypeStep ==
    ASSUME TypeOK, JobInv, [Next]_vars
    PROVE  TypeOK' /\ JobInv'
<1> USE SizeAssumption DEF TypeOK, JobInv, Issues, Job, Active, Busy, Verdicts,
        Bodies, NoJob, hub, comments, machine, history, GoTo, Leave
<1>1. ASSUME NEW b \in Bodies, NEW a \in BOOLEAN, File(b, a)
      PROVE  TypeOK' /\ JobInv'
  <2>1. filed' \in 0..MaxIssue /\ filed' \in Issues /\ 1..filed \subseteq 1..filed'
    BY <1>1 DEF File
  <2>2. body' \in [Issues -> Bodies] /\ open' \subseteq 1..filed' /\ labelled' \subseteq Issues
    BY <1>1, <2>1 DEF File
  <2>3. sanctioned' \subseteq Issues
    BY <1>1, <2>2 DEF File, Witness
  <2>4. UNCHANGED <<private, comments, machine, meddled>>
    BY <1>1 DEF File
  <2>5. TypeOK'
    BY <2>1, <2>2, <2>3, <2>4
  <2>6. JobInv'
    BY <2>1, <2>4
  <2>. QED
    BY <2>5, <2>6
<1>2. ASSUME NEW i \in Issues, NEW b \in Bodies, Edit(i, b)
      PROVE  TypeOK' /\ JobInv'
  BY <1>2 DEF Edit, Witness
<1>3. ASSUME NEW i \in Issues, ToggleLabel(i) PROVE TypeOK' /\ JobInv'
  BY <1>3 DEF ToggleLabel, Witness
<1>4. ASSUME NEW i \in Issues, ToggleOpen(i) PROVE TypeOK' /\ JobInv'
  <2>1. open' \subseteq 1..filed /\ filed' = filed
    BY <1>4 DEF ToggleOpen
  <2>2. sanctioned' \subseteq Issues
    BY <1>4, <2>1 DEF ToggleOpen, Witness
  <2>3. TypeOK'
    BY <1>4, <2>1, <2>2 DEF ToggleOpen
  <2>. QED
    BY <1>4, <2>3 DEF ToggleOpen
<1>5. CASE ChangeVisibility
  BY <1>5 DEF ChangeVisibility
<1>6. ASSUME NEW w \in Watchers, Start(w) PROVE TypeOK' /\ JobInv'
  BY <1>6 DEF Start
<1>7. ASSUME NEW w \in Watchers, Poll(w) PROVE TypeOK' /\ JobInv'
  <2>1. PICK i \in Issues : Oldest(i) /\ job' = [job EXCEPT ![w] = Snapshot(i)]
    BY <1>7 DEF Poll
  <2>2. i \in 1..filed /\ body[i] # "foreign"
    BY <2>1 DEF Oldest, Pending, Page
  <2>3. Snapshot(i) \in Job
    BY DEF Snapshot
  <2>4. TypeOK'
    BY <1>7, <2>1, <2>3 DEF Poll
  <2>5. JobInv'
    BY <1>7, <2>1, <2>2 DEF Poll, Snapshot
  <2>. QED
    BY <2>4, <2>5
<1>8. ASSUME NEW w \in Watchers, Claim(w) PROVE TypeOK' /\ JobInv'
  <2>1. Request(w) \in Requests
    BY <1>8, RequestTyped DEF Claim
  <2>2. CASE Request(w) \in claims
    <3>1. TypeOK'
      BY <1>8, <2>2, LeaveTyped DEF Claim
    <3>2. JobInv'
      BY <1>8, <2>2 DEF Claim
    <3>. QED
      BY <3>1, <3>2
  <2>3. CASE Request(w) \notin claims
    <3>1. claims' \subseteq Requests
      BY <1>8, <2>1, <2>3 DEF Claim
    <3>2. /\ pc' = [pc EXCEPT ![w] = "authorize"]
          /\ UNCHANGED <<hub, comments, ran, history, job, verdict>>
      BY <1>8, <2>3 DEF Claim
    <3>3. TypeOK'
      BY <3>1, <3>2
    <3>4. JobInv'
      BY <1>8, <3>2 DEF Claim
    <3>. QED
      BY <3>3, <3>4
  <2>. QED
    BY <2>2, <2>3
<1>9. ASSUME NEW w \in Watchers, Refuse(w) PROVE TypeOK' /\ JobInv'
  BY <1>9 DEF Refuse
<1>10. ASSUME NEW w \in Watchers, Run(w) PROVE TypeOK' /\ JobInv'
  <2>0. Request(w) \in Requests
    BY <1>10, RequestTyped DEF Run
  <2>1. ran' \in [Requests -> Nat]
    BY <1>10, <2>0, Increment DEF Run
  <2>2. TypeOK'
    BY <1>10, <2>1 DEF Run
  <2>3. JobInv'
    BY <1>10 DEF Run
  <2>. QED
    BY <2>2, <2>3
<1>11. ASSUME NEW w \in Watchers, NEW v \in {"done", "failed"}, Finish(w, v)
       PROVE  TypeOK' /\ JobInv'
  BY <1>11 DEF Finish
<1>12. ASSUME NEW w \in Watchers, Comment(w) PROVE TypeOK' /\ JobInv'
  <2>0. Request(w) \in Requests
    BY <1>12, RequestTyped DEF Comment
  <2>1. replies' \in [Requests -> Nat]
    BY <1>12, <2>0, Increment DEF Comment
  <2>2. TypeOK'
    BY <1>12, <2>1 DEF Comment
  <2>3. JobInv'
    BY <1>12 DEF Comment
  <2>. QED
    BY <2>2, <2>3
<1>13. ASSUME NEW w \in Watchers, Close(w) PROVE TypeOK' /\ JobInv'
  <2>1. TypeOK'
    BY <1>13, LeaveTyped DEF Close
  <2>2. JobInv'
    BY <1>13 DEF Close
  <2>. QED
    BY <2>1, <2>2
<1>14. ASSUME NEW w \in Watchers, Die(w) PROVE TypeOK' /\ JobInv'
  BY <1>14 DEF Die
<1>15. CASE UNCHANGED vars
  BY <1>15 DEF vars
<1>. QED
  BY <1>1, <1>2, <1>3, <1>4, <1>5, <1>6, <1>7, <1>8, <1>9, <1>10, <1>11,
     <1>12, <1>13, <1>14, <1>15, NextCases

-----------------------------------------------------------------------------
\* Every step but a won claim leaves each busy watcher's job alone and makes
\* no watcher busy that was not.
Quiet == \A v \in Watchers : pc'[v] \in Busy => pc[v] \in Busy /\ job'[v] = job[v]

LEMMA QuietSteps ==
    ASSUME TypeOK, [Next]_vars,
           ~ \E w \in Watchers : Claim(w) /\ Request(w) \notin claims
    PROVE  Quiet /\ UNCHANGED claims
<1> USE DEF TypeOK, Quiet, Busy, hub, comments, machine, history, GoTo, Leave
<1>1. ASSUME NEW b \in Bodies, NEW a \in BOOLEAN, File(b, a)
      PROVE  Quiet /\ UNCHANGED claims
  BY <1>1 DEF File
<1>2. ASSUME NEW i \in Issues, NEW b \in Bodies, Edit(i, b)
      PROVE  Quiet /\ UNCHANGED claims
  BY <1>2 DEF Edit
<1>3. ASSUME NEW i \in Issues, ToggleLabel(i) PROVE Quiet /\ UNCHANGED claims
  BY <1>3 DEF ToggleLabel
<1>4. ASSUME NEW i \in Issues, ToggleOpen(i) PROVE Quiet /\ UNCHANGED claims
  BY <1>4 DEF ToggleOpen
<1>5. CASE ChangeVisibility
  BY <1>5 DEF ChangeVisibility
<1>6. ASSUME NEW w \in Watchers, Start(w) PROVE Quiet /\ UNCHANGED claims
  BY <1>6 DEF Start
<1>7. ASSUME NEW w \in Watchers, Poll(w) PROVE Quiet /\ UNCHANGED claims
  BY <1>7 DEF Poll
<1>8. ASSUME NEW w \in Watchers, Claim(w) PROVE Quiet /\ UNCHANGED claims
  BY <1>8 DEF Claim
<1>9. ASSUME NEW w \in Watchers, Refuse(w) PROVE Quiet /\ UNCHANGED claims
  BY <1>9 DEF Refuse
<1>10. ASSUME NEW w \in Watchers, Run(w) PROVE Quiet /\ UNCHANGED claims
  BY <1>10 DEF Run
<1>11. ASSUME NEW w \in Watchers, NEW v \in {"done", "failed"}, Finish(w, v)
       PROVE  Quiet /\ UNCHANGED claims
  BY <1>11 DEF Finish
<1>12. ASSUME NEW w \in Watchers, Comment(w) PROVE Quiet /\ UNCHANGED claims
  BY <1>12 DEF Comment
<1>13. ASSUME NEW w \in Watchers, Close(w) PROVE Quiet /\ UNCHANGED claims
  BY <1>13 DEF Close
<1>14. ASSUME NEW w \in Watchers, Die(w) PROVE Quiet /\ UNCHANGED claims
  BY <1>14 DEF Die
<1>15. CASE UNCHANGED vars
  BY <1>15 DEF vars
<1>. QED
  BY <1>1, <1>2, <1>3, <1>4, <1>5, <1>6, <1>7, <1>8, <1>9, <1>10, <1>11,
     <1>12, <1>13, <1>14, <1>15, NextCases

\* The claim file is what keeps two watchers off one request.
LEMMA ClaimStep ==
    ASSUME TypeOK, ClaimInv, [Next]_vars
    PROVE  ClaimInv'
<1>1. CASE \E w \in Watchers : Claim(w) /\ Request(w) \notin claims
  <2>1. PICK w \in Watchers : Claim(w) /\ Request(w) \notin claims
    BY <1>1
  <2>2. /\ pc' = [pc EXCEPT ![w] = "authorize"]
        /\ claims' = claims \cup {Request(w)}
        /\ job' = job
    BY <2>1 DEF Claim, GoTo
  <2>3. \A v \in Watchers : Request(v)' = Request(v)
    BY <2>2 DEF Request
  <2>. QED
    BY <2>1, <2>2, <2>3 DEF ClaimInv, TypeOK, Busy
<1>2. CASE ~ \E w \in Watchers : Claim(w) /\ Request(w) \notin claims
  <2>1. Quiet /\ claims' = claims
    BY <1>2, QuietSteps
  <2>2. \A v \in Watchers : pc'[v] \in Busy => Request(v)' = Request(v)
    BY <2>1 DEF Quiet, Request
  <2>. QED
    BY <2>1, <2>2 DEF ClaimInv, Quiet
<1>. QED
  BY <1>1, <1>2

\* Steps that move no busy watcher onward keep the counters in step.
LEMMA StageKept ==
    ASSUME TypeOK, JobInv, StageInv, claims \subseteq claims',
           UNCHANGED <<ran, replies, told>>,
           \A v \in Watchers : pc'[v] \in Busy =>
               pc'[v] = pc[v] /\ job'[v] = job[v] /\ verdict'[v] = verdict[v]
    PROVE  StageInv'
<1>1. \A r \in Requests : r \notin claims' => r \notin claims
  OBVIOUS
<1>2. \A v \in Watchers : pc'[v] \in Busy => Request(v)' = Request(v)
  BY DEF Request
<1>. QED
  BY <1>1, <1>2 DEF StageInv, Busy

\* What an active watcher's request is, and that others differ from it.
LEMMA Apart ==
    ASSUME TypeOK, JobInv, ClaimInv, NEW w \in Watchers, pc[w] \in Busy
    PROVE  /\ Request(w) \in Requests
           /\ Request(w) \in claims
           /\ \A v \in Watchers : v # w /\ pc[v] \in Busy => Request(v) # Request(w)
<1>1. job[w].issue \in Issues
  BY SizeAssumption DEF TypeOK, JobInv, Active, Issues
<1>. QED
  BY <1>1, RequestTyped DEF ClaimInv

LEMMA StageStep ==
    ASSUME TypeOK, JobInv, ClaimInv, StageInv, [Next]_vars
    PROVE  StageInv'
<1> USE DEF hub, comments, machine, history, GoTo
<1>1. ASSUME NEW b \in Bodies, NEW a \in BOOLEAN, File(b, a) PROVE StageInv'
  BY <1>1, StageKept DEF File
<1>2. ASSUME NEW i \in Issues, NEW b \in Bodies, Edit(i, b) PROVE StageInv'
  BY <1>2, StageKept DEF Edit
<1>3. ASSUME NEW i \in Issues, ToggleLabel(i) PROVE StageInv'
  BY <1>3, StageKept DEF ToggleLabel
<1>4. ASSUME NEW i \in Issues, ToggleOpen(i) PROVE StageInv'
  BY <1>4, StageKept DEF ToggleOpen
<1>5. CASE ChangeVisibility
  BY <1>5, StageKept DEF ChangeVisibility
<1>6. ASSUME NEW w \in Watchers, Start(w) PROVE StageInv'
  BY <1>6, StageKept DEF Start, TypeOK, Busy
<1>7. ASSUME NEW w \in Watchers, Poll(w) PROVE StageInv'
  BY <1>7, StageKept DEF Poll, TypeOK, Busy
<1>8. ASSUME NEW w \in Watchers, Claim(w) PROVE StageInv'
  <2>1. CASE Request(w) \in claims
    BY <1>8, <2>1, StageKept DEF Claim, Leave, TypeOK, Busy
  <2>2. CASE Request(w) \notin claims
    <3>0. job[w].issue \in 1..filed
      BY <1>8 DEF Claim, JobInv, Active
    <3>1. Request(w) \in Requests
      BY <3>0, RequestTyped, SizeAssumption DEF TypeOK, Issues
    <3>2. /\ pc' = [pc EXCEPT ![w] = "authorize"]
          /\ claims' = claims \cup {Request(w)}
          /\ UNCHANGED <<ran, replies, told, job, verdict>>
      BY <1>8, <2>2 DEF Claim
    <3>3. \A v \in Watchers : Request(v)' = Request(v)
      BY <3>2 DEF Request
    <3>4. ran[Request(w)] = 0 /\ replies[Request(w)] = 0
      BY <2>2, <3>1 DEF StageInv
    <3>. QED
      BY <3>2, <3>3, <3>4 DEF StageInv, TypeOK
  <2>. QED
    BY <2>1, <2>2
<1>9. ASSUME NEW w \in Watchers, Refuse(w) PROVE StageInv'
  <2>1. \A v \in Watchers : Request(v)' = Request(v)
    BY <1>9 DEF Refuse, Request
  <2>. QED
    BY <1>9, <2>1 DEF Refuse, StageInv, TypeOK
<1>10. ASSUME NEW w \in Watchers, Run(w) PROVE StageInv'
  <2>1. \A v \in Watchers : Request(v)' = Request(v)
    BY <1>10 DEF Run, Request
  <2>2. /\ Request(w) \in Requests /\ Request(w) \in claims
        /\ \A v \in Watchers : v # w /\ pc[v] \in Busy => Request(v) # Request(w)
    BY <1>10, Apart DEF Run, Busy
  <2>3. ran[Request(w)] = 0 /\ replies[Request(w)] = 0
    BY <1>10 DEF Run, StageInv
  <2>4. ran' = [ran EXCEPT ![Request(w)] = 1] /\ UNCHANGED <<replies, told, claims, verdict>>
    BY <1>10, <2>3 DEF Run
  <2>5. pc' = [pc EXCEPT ![w] = "running"]
    BY <1>10 DEF Run
  <2>6. \A r \in Requests : ran'[r] = IF r = Request(w) THEN 1 ELSE ran[r]
    BY <2>4 DEF TypeOK
  <2>. QED
    BY <2>1, <2>2, <2>3, <2>4, <2>5, <2>6 DEF StageInv, TypeOK, Busy
<1>11. ASSUME NEW w \in Watchers, NEW v \in {"done", "failed"}, Finish(w, v)
       PROVE  StageInv'
  <2>1. \A u \in Watchers : Request(u)' = Request(u)
    BY <1>11 DEF Finish, Request
  <2>. QED
    BY <1>11, <2>1 DEF Finish, StageInv, TypeOK
<1>12. ASSUME NEW w \in Watchers, Comment(w) PROVE StageInv'
  <2>1. \A v \in Watchers : Request(v)' = Request(v)
    BY <1>12 DEF Comment, Request
  <2>2. /\ Request(w) \in Requests /\ Request(w) \in claims
        /\ \A v \in Watchers : v # w /\ pc[v] \in Busy => Request(v) # Request(w)
    BY <1>12, Apart DEF Comment, Busy
  <2>3. /\ replies[Request(w)] = 0
        /\ verdict[w] = "refused" <=> ran[Request(w)] = 0
    BY <1>12 DEF Comment, StageInv
  <2>4. /\ replies' = [replies EXCEPT ![Request(w)] = 1]
        /\ told' = [told EXCEPT ![Request(w)] = verdict[w]]
        /\ pc' = [pc EXCEPT ![w] = "close"]
        /\ UNCHANGED <<ran, claims, verdict>>
    BY <1>12, <2>3 DEF Comment
  <2>5. \A r \in Requests :
           /\ replies'[r] = IF r = Request(w) THEN 1 ELSE replies[r]
           /\ told'[r] = IF r = Request(w) THEN verdict[w] ELSE told[r]
    BY <2>4 DEF TypeOK
  <2>. QED
    BY <2>1, <2>2, <2>3, <2>4, <2>5 DEF StageInv, TypeOK, Busy
<1>13. ASSUME NEW w \in Watchers, Close(w) PROVE StageInv'
  BY <1>13, StageKept DEF Close, Leave, TypeOK, Busy
<1>14. ASSUME NEW w \in Watchers, Die(w) PROVE StageInv'
  BY <1>14, StageKept DEF Die, Leave, TypeOK, Busy
<1>15. CASE UNCHANGED vars
  BY <1>15, StageKept DEF vars
<1>. QED
  BY <1>1, <1>2, <1>3, <1>4, <1>5, <1>6, <1>7, <1>8, <1>9, <1>10, <1>11,
     <1>12, <1>13, <1>14, <1>15, NextCases

-----------------------------------------------------------------------------
\* A watcher closes an issue only with the reply posted; nobody else but the
\* owner closes one, and replies are never taken back.
LEMMA ClosedStep ==
    ASSUME TypeOK, JobInv, ClaimInv, StageInv, StageInv', ClosedInv, [Next]_vars
    PROVE  ClosedInv'
<1> USE DEF hub, comments, machine, history, ClosedInv
<1>1. ASSUME NEW b \in Bodies, NEW a \in BOOLEAN, File(b, a) PROVE ClosedInv'
  BY <1>1 DEF File, TypeOK
<1>2. ASSUME NEW i \in Issues, NEW b \in Bodies, Edit(i, b) PROVE ClosedInv'
  BY <1>2 DEF Edit
<1>3. ASSUME NEW i \in Issues, ToggleLabel(i) PROVE ClosedInv'
  BY <1>3 DEF ToggleLabel
<1>4. ASSUME NEW i \in Issues, ToggleOpen(i) PROVE ClosedInv'
  BY <1>4 DEF ToggleOpen
<1>5. CASE ChangeVisibility
  BY <1>5 DEF ChangeVisibility
<1>6. ASSUME NEW w \in Watchers, Start(w) PROVE ClosedInv'
  BY <1>6 DEF Start
<1>7. ASSUME NEW w \in Watchers, Poll(w) PROVE ClosedInv'
  BY <1>7 DEF Poll
<1>8. ASSUME NEW w \in Watchers, Claim(w) PROVE ClosedInv'
  BY <1>8 DEF Claim
<1>9. ASSUME NEW w \in Watchers, Refuse(w) PROVE ClosedInv'
  BY <1>9 DEF Refuse
<1>10. ASSUME NEW w \in Watchers, Run(w) PROVE ClosedInv'
  BY <1>10 DEF Run
<1>11. ASSUME NEW w \in Watchers, NEW v \in {"done", "failed"}, Finish(w, v)
       PROVE  ClosedInv'
  BY <1>11 DEF Finish
<1>12. ASSUME NEW w \in Watchers, Comment(w) PROVE ClosedInv'
  <2>1. Request(w) \in Requests /\ replies[Request(w)] = 0
    BY <1>12, Apart DEF Comment, StageInv, Busy
  <2>2. \A r \in Requests : replies[r] = 1 => replies'[r] = 1
    BY <1>12, <2>1 DEF Comment, TypeOK
  <2>3. UNCHANGED <<open, meddled, filed>>
    BY <1>12 DEF Comment
  <2>4. ASSUME NEW i \in 1..filed, i \notin open \cup meddled
        PROVE  \E s \in Workspaces : replies'[<<s, i>>] = 1
    <3>1. PICK s \in Workspaces : replies[<<s, i>>] = 1
      BY <2>4
    <3>2. <<s, i>> \in Requests
      BY SizeAssumption DEF Requests, Issues, TypeOK
    <3>. QED
      BY <2>2, <3>1, <3>2
  <2>. QED
    BY <2>3, <2>4
<1>13. ASSUME NEW w \in Watchers, Close(w) PROVE ClosedInv'
  <2>1. replies[<<WorkspaceOf[w], job[w].issue>>] = 1
    BY <1>13 DEF Close, StageInv, Request
  <2>2. WorkspaceOf[w] \in Workspaces
    BY WorkspaceAssumption
  <2>. QED
    BY <1>13, <2>1, <2>2 DEF Close
<1>14. ASSUME NEW w \in Watchers, Die(w) PROVE ClosedInv'
  BY <1>14 DEF Die
<1>15. CASE UNCHANGED vars
  BY <1>15 DEF vars
<1>. QED
  BY <1>1, <1>2, <1>3, <1>4, <1>5, <1>6, <1>7, <1>8, <1>9, <1>10, <1>11,
     <1>12, <1>13, <1>14, <1>15, NextCases

\* The job record is read from one listing, so its approval and its body were
\* on the issue together.
LEMMA SanctionStep ==
    ASSUME TypeOK, JobInv, SanctionInv, [Next]_vars
    PROVE  SanctionInv'
<1> USE DEF hub, comments, machine, history, SanctionInv, GoTo
<1>1. ASSUME NEW b \in Bodies, NEW a \in BOOLEAN, File(b, a) PROVE SanctionInv'
  BY <1>1 DEF File, Witness
<1>2. ASSUME NEW i \in Issues, NEW b \in Bodies, Edit(i, b) PROVE SanctionInv'
  BY <1>2 DEF Edit, Witness
<1>3. ASSUME NEW i \in Issues, ToggleLabel(i) PROVE SanctionInv'
  BY <1>3 DEF ToggleLabel, Witness
<1>4. ASSUME NEW i \in Issues, ToggleOpen(i) PROVE SanctionInv'
  BY <1>4 DEF ToggleOpen, Witness
<1>5. CASE ChangeVisibility
  BY <1>5 DEF ChangeVisibility
<1>6. ASSUME NEW w \in Watchers, Start(w) PROVE SanctionInv'
  BY <1>6 DEF Start, TypeOK, Active, Busy
<1>7. ASSUME NEW w \in Watchers, Poll(w) PROVE SanctionInv'
  <2>1. PICK i \in Issues : Oldest(i) /\ job' = [job EXCEPT ![w] = Snapshot(i)]
    BY <1>7 DEF Poll
  <2>2. job'[w] = Snapshot(i) /\ i \in open
    BY <2>1 DEF Oldest, Pending, Page, TypeOK
  <2>3. job'[w].body = "elevated" /\ job'[w].approved => job'[w].issue \in sanctioned
    <3>1. /\ job'[w].issue = i /\ job'[w].body = body[i]
          /\ job'[w].approved = (i \in labelled)
      BY <2>2 DEF Snapshot
    <3>2. i \in labelled /\ body[i] = "elevated" => i \in sanctioned
      BY <2>2
    <3>. HIDE DEF SanctionInv
    <3>. QED
      BY <3>1, <3>2, Zenon
  <2>4. \A v \in Watchers : v # w => job'[v] = job[v] /\ pc'[v] = pc[v]
    BY <1>7, <2>1 DEF Poll, TypeOK
  <2>5. pc'[w] = "claim" /\ UNCHANGED <<open, labelled, body, sanctioned>>
    BY <1>7 DEF Poll, TypeOK
  <2>. QED
    BY <2>3, <2>4, <2>5
<1>8. ASSUME NEW w \in Watchers, Claim(w) PROVE SanctionInv'
  BY <1>8 DEF Claim, Leave, TypeOK, Active, Busy
<1>9. ASSUME NEW w \in Watchers, Refuse(w) PROVE SanctionInv'
  BY <1>9 DEF Refuse, TypeOK, Active, Busy
<1>10. ASSUME NEW w \in Watchers, Run(w) PROVE SanctionInv'
  BY <1>10 DEF Run, TypeOK, Active, Busy
<1>11. ASSUME NEW w \in Watchers, NEW v \in {"done", "failed"}, Finish(w, v)
       PROVE  SanctionInv'
  BY <1>11 DEF Finish, TypeOK, Active, Busy
<1>12. ASSUME NEW w \in Watchers, Comment(w) PROVE SanctionInv'
  BY <1>12 DEF Comment, TypeOK, Active, Busy
<1>13. ASSUME NEW w \in Watchers, Close(w) PROVE SanctionInv'
  BY <1>13 DEF Close, Leave, TypeOK, Active, Busy
<1>14. ASSUME NEW w \in Watchers, Die(w) PROVE SanctionInv'
  BY <1>14 DEF Die, Leave, TypeOK, Active, Busy
<1>15. CASE UNCHANGED vars
  BY <1>15 DEF vars
<1>. QED
  BY <1>1, <1>2, <1>3, <1>4, <1>5, <1>6, <1>7, <1>8, <1>9, <1>10, <1>11,
     <1>12, <1>13, <1>14, <1>15, NextCases

-----------------------------------------------------------------------------
\* Moving a watcher within its job, or out of it, and claiming more requests
\* for other watchers, disturbs neither OpenInv nor PassedInv.
Onward == \A v \in Watchers : pc'[v] \in Active =>
    /\ pc[v] \in Active /\ job'[v] = job[v]
    /\ pc'[v] \in Busy => pc[v] \in Busy

LEMMA OpenKept ==
    ASSUME OpenInv, Onward, UNCHANGED <<body, open, meddled>>, claims \subseteq claims'
    PROVE  OpenInv'
BY DEF OpenInv, Onward

LEMMA OpenStep ==
    ASSUME TypeOK, JobInv, ClaimInv, OpenInv, [Next]_vars
    PROVE  OpenInv'
<1> USE DEF hub, comments, machine, history, GoTo
<1>1. ASSUME NEW b \in Bodies, NEW a \in BOOLEAN, File(b, a) PROVE OpenInv'
  <2>1. \A i \in 1..filed : body'[i] = body[i]
    BY <1>1, SizeAssumption DEF File, TypeOK, Issues
  <2>. QED
    BY <1>1, <2>1 DEF File, OpenInv, JobInv
<1>2. ASSUME NEW i \in Issues, NEW b \in Bodies, Edit(i, b) PROVE OpenInv'
  BY <1>2 DEF Edit, OpenInv, TypeOK
<1>3. ASSUME NEW i \in Issues, ToggleLabel(i) PROVE OpenInv'
  BY <1>3 DEF ToggleLabel, OpenInv
<1>4. ASSUME NEW i \in Issues, ToggleOpen(i) PROVE OpenInv'
  BY <1>4 DEF ToggleOpen, OpenInv
<1>5. CASE ChangeVisibility
  BY <1>5 DEF ChangeVisibility, OpenInv
<1>6. ASSUME NEW w \in Watchers, Start(w) PROVE OpenInv'
  BY <1>6, OpenKept DEF Start, Onward, TypeOK, Active, Busy
<1>7. ASSUME NEW w \in Watchers, Poll(w) PROVE OpenInv'
  <2>1. PICK i \in Issues : Oldest(i) /\ job' = [job EXCEPT ![w] = Snapshot(i)]
    BY <1>7 DEF Poll
  <2>2. job'[w].issue = i /\ i \in open /\ body[i] # "foreign"
    BY <2>1 DEF Oldest, Pending, Page, TypeOK, Snapshot
  <2>3. \A v \in Watchers : v # w => job'[v] = job[v] /\ pc'[v] = pc[v]
    BY <1>7, <2>1 DEF Poll, TypeOK
  <2>4. UNCHANGED <<open, body, meddled, claims>>
    BY <1>7 DEF Poll, TypeOK
  <2>. QED
    BY <2>2, <2>3, <2>4 DEF OpenInv
<1>8. ASSUME NEW w \in Watchers, Claim(w) PROVE OpenInv'
  <2>1. CASE Request(w) \in claims
    BY <1>8, <2>1, OpenKept DEF Claim, Leave, Onward, TypeOK, Active, Busy
  <2>2. CASE Request(w) \notin claims
    <3>1. /\ pc' = [pc EXCEPT ![w] = "authorize"]
          /\ claims' = claims \cup {Request(w)}
          /\ UNCHANGED <<job, body, open, meddled>>
      BY <1>8, <2>2 DEF Claim
    <3>2. \A s \in Workspaces : <<s, job[w].issue>> \in claims => s # WorkspaceOf[w]
      BY <2>2 DEF Request
    <3>. QED
      BY <1>8, <3>1, <3>2 DEF OpenInv, Claim, TypeOK, Active, Busy
  <2>. QED
    BY <2>1, <2>2
<1>9. ASSUME NEW w \in Watchers, Refuse(w) PROVE OpenInv'
  BY <1>9, OpenKept DEF Refuse, Onward, TypeOK, Active, Busy
<1>10. ASSUME NEW w \in Watchers, Run(w) PROVE OpenInv'
  BY <1>10, OpenKept DEF Run, Onward, TypeOK, Active, Busy
<1>11. ASSUME NEW w \in Watchers, NEW v \in {"done", "failed"}, Finish(w, v)
       PROVE  OpenInv'
  BY <1>11, OpenKept DEF Finish, Onward, TypeOK, Active, Busy
<1>12. ASSUME NEW w \in Watchers, Comment(w) PROVE OpenInv'
  BY <1>12, OpenKept DEF Comment, Onward, TypeOK, Active, Busy
<1>13. ASSUME NEW w \in Watchers, Close(w) PROVE OpenInv'
  <2>1. Request(w) \in claims /\ pc[w] \in Busy
    BY <1>13, Apart DEF Close, Busy
  <2>2. Onward /\ UNCHANGED <<body, meddled, claims>>
    BY <1>13 DEF Close, Leave, Onward, TypeOK, Active, Busy
  <2>3. \A v \in Watchers : pc'[v] \in Active => v # w
    BY <1>13 DEF Close, Leave, TypeOK, Active, Busy
  <2>4. open' = open \ {job[w].issue}
    BY <1>13 DEF Close
  <2>5. ASSUME NEW v \in Watchers, v # w, job[v].issue = job[w].issue
        PROVE  /\ <<WorkspaceOf[w], job[v].issue>> \in claims
               /\ pc[v] \in Busy => WorkspaceOf[w] # WorkspaceOf[v]
    BY <2>1, <2>5 DEF Request, ClaimInv
  <2>6. WorkspaceOf[w] \in Workspaces
    BY WorkspaceAssumption
  <2>. QED
    BY <2>2, <2>3, <2>4, <2>5, <2>6 DEF OpenInv, Onward
<1>14. ASSUME NEW w \in Watchers, Die(w) PROVE OpenInv'
  BY <1>14, OpenKept DEF Die, Leave, Onward, TypeOK, Active, Busy
<1>15. CASE UNCHANGED vars
  BY <1>15, OpenKept DEF vars, Onward
<1>. QED
  BY <1>1, <1>2, <1>3, <1>4, <1>5, <1>6, <1>7, <1>8, <1>9, <1>10, <1>11,
     <1>12, <1>13, <1>14, <1>15, NextCases

LEMMA PassedKept ==
    ASSUME PassedInv, Onward, UNCHANGED body, open' \subseteq open,
           meddled \subseteq meddled'
    PROVE  PassedInv'
BY DEF PassedInv, Onward

\* An older open issue is on every page a younger one is on.
LEMMA PageDownward ==
    ASSUME TypeOK, NEW j \in Page, NEW i \in open, i < j
    PROVE  i \in Page
<1> DEFINE Older(k) == {o \in open : o < k}
<1>1. open \subseteq 1..filed /\ filed \in Nat
  BY SizeAssumption DEF TypeOK
<1>2. IsFiniteSet(1..filed)
  BY <1>1, FS_Interval
<1>3. IsFiniteSet(Older(j)) /\ Older(i) \subseteq Older(j)
  <2>1. Older(j) \subseteq 1..filed
    BY <1>1
  <2>2. IsFiniteSet(Older(j))
    BY <1>2, <2>1, FS_Subset
  <2>3. j \in open
    BY DEF Page
  <2>4. i \in Int /\ j \in Int /\ \A o \in open : o \in Int
    BY <1>1, <2>3
  <2>5. ASSUME NEW o \in open, o < i PROVE o < j
    BY <2>4, <2>5
  <2>6. Older(i) \subseteq Older(j)
    BY <2>5
  <2>. QED
    BY <2>2, <2>6
<1>4. /\ Cardinality(Older(i)) <= Cardinality(Older(j))
      /\ Cardinality(Older(i)) \in Nat /\ Cardinality(Older(j)) \in Nat
  BY <1>3, FS_Subset, FS_CardinalityType
<1>5. Cardinality(Older(j)) < PageSize
  BY DEF Page
<1>6. Cardinality(Older(i)) < PageSize
  BY <1>4, <1>5, SizeAssumption
<1>. QED
  BY <1>6 DEF Page

LEMMA PassedStep ==
    ASSUME TypeOK, JobInv, PassedInv, [Next]_vars
    PROVE  PassedInv'
<1> USE DEF hub, comments, machine, history, GoTo
<1>1. ASSUME NEW b \in Bodies, NEW a \in BOOLEAN, File(b, a) PROVE PassedInv'
  <2>1. \A i \in 1..filed : body'[i] = body[i] /\ (i \in open' <=> i \in open)
    BY <1>1, SizeAssumption DEF File, TypeOK, Issues
  <2>2. ASSUME NEW v \in Watchers, pc[v] \in Active, NEW i \in 1..(job[v].issue - 1)
        PROVE  i \in 1..filed
    <3>1. job[v].issue \in 1..filed
      BY <2>2 DEF JobInv
    <3>. QED
      BY <3>1, SizeAssumption DEF TypeOK
  <2>. QED
    BY <1>1, <2>1, <2>2 DEF File, PassedInv
<1>2. ASSUME NEW i \in Issues, NEW b \in Bodies, Edit(i, b) PROVE PassedInv'
  BY <1>2 DEF Edit, PassedInv, TypeOK
<1>3. ASSUME NEW i \in Issues, ToggleLabel(i) PROVE PassedInv'
  BY <1>3 DEF ToggleLabel, PassedInv
<1>4. ASSUME NEW i \in Issues, ToggleOpen(i) PROVE PassedInv'
  BY <1>4 DEF ToggleOpen, PassedInv
<1>5. CASE ChangeVisibility
  BY <1>5 DEF ChangeVisibility, PassedInv
<1>6. ASSUME NEW w \in Watchers, Start(w) PROVE PassedInv'
  BY <1>6, PassedKept DEF Start, Onward, TypeOK, Active, Busy
<1>7. ASSUME NEW w \in Watchers, Poll(w) PROVE PassedInv'
  <2>1. PICK j \in Issues : Oldest(j) /\ job' = [job EXCEPT ![w] = Snapshot(j)]
    BY <1>7 DEF Poll
  <2>2. job'[w].issue = j
    BY <2>1 DEF TypeOK, Snapshot
  <2>3. ASSUME NEW i \in 1..(j - 1), i \in open PROVE body[i] = "foreign"
    <3>1. j \in Page /\ j \in Int /\ i < j
      BY <2>1 DEF Oldest, Pending, Issues
    <3>2. i \in Page
      BY <2>3, <3>1, PageDownward
    <3>. QED
      BY <2>1, <3>1, <3>2 DEF Oldest, Pending
  <2>4. \A v \in Watchers : v # w => job'[v] = job[v] /\ pc'[v] = pc[v]
    BY <1>7, <2>1 DEF Poll, TypeOK
  <2>5. UNCHANGED <<open, body, meddled>>
    BY <1>7 DEF Poll
  <2>. QED
    BY <2>2, <2>3, <2>4, <2>5 DEF PassedInv
<1>8. ASSUME NEW w \in Watchers, Claim(w) PROVE PassedInv'
  <2>1. \A v \in Watchers : pc'[v] \in Active => pc[v] \in Active /\ job'[v] = job[v]
    BY <1>8 DEF Claim, Leave, TypeOK, Active, Busy
  <2>. QED
    BY <1>8, <2>1 DEF Claim, PassedInv
<1>9. ASSUME NEW w \in Watchers, Refuse(w) PROVE PassedInv'
  BY <1>9, PassedKept DEF Refuse, Onward, TypeOK, Active, Busy
<1>10. ASSUME NEW w \in Watchers, Run(w) PROVE PassedInv'
  BY <1>10, PassedKept DEF Run, Onward, TypeOK, Active, Busy
<1>11. ASSUME NEW w \in Watchers, NEW v \in {"done", "failed"}, Finish(w, v)
       PROVE  PassedInv'
  BY <1>11, PassedKept DEF Finish, Onward, TypeOK, Active, Busy
<1>12. ASSUME NEW w \in Watchers, Comment(w) PROVE PassedInv'
  BY <1>12, PassedKept DEF Comment, Onward, TypeOK, Active, Busy
<1>13. ASSUME NEW w \in Watchers, Close(w) PROVE PassedInv'
  BY <1>13, PassedKept DEF Close, Leave, Onward, TypeOK, Active, Busy
<1>14. ASSUME NEW w \in Watchers, Die(w) PROVE PassedInv'
  BY <1>14, PassedKept DEF Die, Leave, Onward, TypeOK, Active, Busy
<1>15. CASE UNCHANGED vars
  BY <1>15, PassedKept DEF vars, Onward
<1>. QED
  BY <1>1, <1>2, <1>3, <1>4, <1>5, <1>6, <1>7, <1>8, <1>9, <1>10, <1>11,
     <1>12, <1>13, <1>14, <1>15, NextCases

-----------------------------------------------------------------------------
LEMMA Initially == Init => IInv
BY SizeAssumption DEF Init, IInv, TypeOK, JobInv, ClaimInv, StageInv, ClosedInv,
   SanctionInv, OpenInv, PassedInv, Active, Busy, Issues, Job, NoJob, Bodies,
   Verdicts

\* The inductive invariant.
THEOREM Invariance == Spec => []IInv
<1>1. Init => IInv
  BY Initially
<1>2. IInv /\ [Next]_vars => IInv'
  BY TypeStep, ClaimStep, StageStep, ClosedStep, SanctionStep, OpenStep,
     PassedStep DEF IInv
<1>. QED
  BY <1>1, <1>2, PTL DEF Spec

\* Type correctness of the control plane.
THEOREM TypeCorrect == Spec => []TypeOK
<1>1. IInv => TypeOK
  BY DEF IInv
<1>. QED
  BY <1>1, Invariance, PTL

\* A job runs at most once in a workspace, whatever crashes, however many
\* watchers compete and however the owner edits, relabels and reopens it.
THEOREM AtMostOnceRun == Spec => []ExecutedAtMostOnce
<1>1. IInv => ExecutedAtMostOnce
  BY DEF IInv, StageInv, ExecutedAtMostOnce
<1>. QED
  BY <1>1, Invariance, PTL

\* What runs elevated had its body and the approval label on it at once.
THEOREM SanctionedRun == Spec => []ElevatedWasSanctioned
<1>1. IInv => ElevatedWasSanctioned
  BY DEF IInv, SanctionInv, ElevatedWasSanctioned, Authorized, Active, Busy
<1>. QED
  BY <1>1, Invariance, PTL

\* The watchers of a workspace serialise their jobs through the queue's head.
THEOREM SerialRun == Spec => []SerialExecution
<1>1. IInv => SerialExecution
  <2> SUFFICES ASSUME IInv, NEW w \in Watchers, NEW v \in Watchers,
                      pc[w] \in Busy, pc[v] \in Busy,
                      WorkspaceOf[w] = WorkspaceOf[v],
                      job[w].issue < job[v].issue,
                      job[w].issue \notin meddled
               PROVE  \E s \in Workspaces \ {WorkspaceOf[w]} :
                          <<s, job[w].issue>> \in claims
    BY DEF SerialExecution
  <2>1. job[w].issue \in 1..filed /\ job[v].issue \in 1..filed
    BY DEF IInv, JobInv, Active
  <2>2. job[w].issue \in 1..(job[v].issue - 1)
    BY <2>1, SizeAssumption DEF IInv, TypeOK
  <2>3. job[w].issue \notin open \/ body[job[w].issue] = "foreign"
    BY <2>2 DEF IInv, PassedInv, Active
  <2>. QED
    BY <2>3 DEF IInv, OpenInv, Active
<1>. QED
  BY <1>1, Invariance, PTL

\* An issue a watcher closed has its reply, and the reply is the truth.
THEOREM TrueReplies == Spec => []ClosedWithTrueReply
<1>1. IInv => ClosedWithTrueReply
  <2> SUFFICES ASSUME IInv PROVE ClosedWithTrueReply
    OBVIOUS
  <2>1. ASSUME NEW i \in 1..filed, i \notin open \cup meddled
        PROVE  \E s \in Workspaces : replies[<<s, i>>] > 0
    BY <2>1 DEF IInv, ClosedInv
  <2>2. ASSUME NEW r \in Requests, replies[r] > 0
        PROVE  told[r] = "refused" <=> ran[r] = 0
    BY <2>2 DEF IInv, StageInv
  <2>. QED
    BY <2>1, <2>2 DEF ClosedWithTrueReply
<1>. QED
  BY <1>1, Invariance, PTL

\* The claim files implement the promise of AtMostOnce: whatever the owner,
\* the watchers and the crashes do, each step is one of its steps or a stutter.
THEOREM Refinement == Spec => RefinesAtMostOnce
<1> USE DEF Once!vars
<1>1. Init => Once!Init
  BY DEF Init, Once!Init
<1>2. IInv /\ [Next]_vars => [Once!Next]_(Once!vars)
  <2> SUFFICES ASSUME IInv, [Next]_vars PROVE [Once!Next]_(Once!vars)
    OBVIOUS
  <2> USE DEF hub, comments, machine, history
  <2>1. ASSUME NEW b \in Bodies, NEW a \in BOOLEAN, File(b, a)
        PROVE  [Once!Next]_(Once!vars)
    BY <2>1 DEF File
  <2>2. ASSUME NEW i \in Issues, NEW b \in Bodies, Edit(i, b)
        PROVE  [Once!Next]_(Once!vars)
    BY <2>2 DEF Edit
  <2>3. ASSUME NEW i \in Issues, ToggleLabel(i) PROVE [Once!Next]_(Once!vars)
    BY <2>3 DEF ToggleLabel
  <2>4. ASSUME NEW i \in Issues, ToggleOpen(i) PROVE [Once!Next]_(Once!vars)
    BY <2>4 DEF ToggleOpen
  <2>5. CASE ChangeVisibility
    BY <2>5 DEF ChangeVisibility
  <2>6. ASSUME NEW w \in Watchers, Start(w) PROVE [Once!Next]_(Once!vars)
    BY <2>6 DEF Start
  <2>7. ASSUME NEW w \in Watchers, Poll(w) PROVE [Once!Next]_(Once!vars)
    BY <2>7 DEF Poll
  <2>8. ASSUME NEW w \in Watchers, Claim(w) PROVE [Once!Next]_(Once!vars)
    <3>1. CASE Request(w) \in claims
      BY <2>8, <3>1 DEF Claim
    <3>2. CASE Request(w) \notin claims
      <4>1. job[w].issue \in Issues
        BY <2>8, SizeAssumption DEF Claim, IInv, TypeOK, JobInv, Active, Issues
      <4>2. Request(w) \in Requests
        BY <4>1, RequestTyped DEF IInv
      <4>. QED
        BY <2>8, <3>2, <4>2 DEF Claim, Once!Next, Once!Begin
    <3>. QED
      BY <3>1, <3>2
  <2>9. ASSUME NEW w \in Watchers, Refuse(w) PROVE [Once!Next]_(Once!vars)
    BY <2>9 DEF Refuse
  <2>10. ASSUME NEW w \in Watchers, Run(w) PROVE [Once!Next]_(Once!vars)
    <3>1. Request(w) \in Requests /\ Request(w) \in claims
      BY <2>10, Apart DEF Run, Busy, IInv
    <3>2. ran[Request(w)] = 0 /\ replies[Request(w)] = 0
      BY <2>10 DEF Run, IInv, StageInv
    <3>3. ran' = [ran EXCEPT ![Request(w)] = 1]
      BY <2>10, <3>2 DEF Run
    <3>. QED
      BY <2>10, <3>1, <3>2, <3>3 DEF Run, Once!Next, Once!Effect
  <2>11. ASSUME NEW w \in Watchers, NEW v \in {"done", "failed"}, Finish(w, v)
         PROVE  [Once!Next]_(Once!vars)
    BY <2>11 DEF Finish
  <2>12. ASSUME NEW w \in Watchers, Comment(w) PROVE [Once!Next]_(Once!vars)
    <3>1. Request(w) \in Requests /\ Request(w) \in claims
      BY <2>12, Apart DEF Comment, Busy, IInv
    <3>2. replies[Request(w)] = 0
      BY <2>12 DEF Comment, IInv, StageInv
    <3>3. replies' = [replies EXCEPT ![Request(w)] = 1]
      BY <2>12, <3>2 DEF Comment
    <3>. QED
      BY <2>12, <3>1, <3>2, <3>3 DEF Comment, Once!Next, Once!Answer
  <2>13. ASSUME NEW w \in Watchers, Close(w) PROVE [Once!Next]_(Once!vars)
    BY <2>13 DEF Close
  <2>14. ASSUME NEW w \in Watchers, Die(w) PROVE [Once!Next]_(Once!vars)
    BY <2>14 DEF Die
  <2>15. CASE UNCHANGED vars
    BY <2>15 DEF vars
  <2>. QED
    BY <2>1, <2>2, <2>3, <2>4, <2>5, <2>6, <2>7, <2>8, <2>9, <2>10, <2>11,
       <2>12, <2>13, <2>14, <2>15, NextCases
<1>. QED
  BY <1>1, <1>2, Invariance, PTL DEF Spec, RefinesAtMostOnce, Once!Spec
===============================================================================
