----------------------------- MODULE GitHubQueue -----------------------------
(***************************************************************************)
(* The GitHub control plane (github_queue.py, started by cli.py).          *)
(*                                                                         *)
(* The owner files issues in a control repository; watcher processes poll  *)
(* it, take the oldest job of the page they are served, claim it with an   *)
(* exclusively created file in their workspace, run it, post the result as *)
(* a comment and close the issue.  The owner edits, labels, closes and     *)
(* reopens issues, and the repository changes visibility, between any two  *)
(* of those steps.  A watcher ends at any step: it is killed, an exception *)
(* leaves _execute_job, or an HTTP call fails (GitHubQueueError reaches    *)
(* cli.main, which exits).  A reply lost after the server applied the call *)
(* is the call followed by Die.                                            *)
(***************************************************************************)
EXTENDS Integers, FiniteSets

CONSTANTS
    Watchers,
    Workspaces,
    WorkspaceOf,    \* the workspace_root each watcher was started with
    MaxIssue,       \* bound: issues filed in a behaviour
    PageSize        \* issues GitHub returns in one page of the listing

ASSUME WorkspaceAssumption == WorkspaceOf \in [Watchers -> Workspaces]
ASSUME SizeAssumption == MaxIssue \in Nat /\ PageSize \in Nat

Issues == 1..MaxIssue
Requests == Workspaces \X Issues

\* "foreign": labelled as a job, but parse_issue_job returns None or raises.
\* "plain": runs without approval (absorb, read-only commands and actions).
\* "elevated": needs APPROVAL_LABEL (construct, elevated commands, blender).
Bodies == {"foreign", "plain", "elevated"}
Verdicts == {"refused", "done", "failed"}
Busy == {"authorize", "running", "comment", "close"}
NoJob == [issue |-> 0, body |-> "foreign", approved |-> FALSE]

VARIABLES
    \* GitHub
    filed,      \* number of the last issue filed
    body,       \* what parse_issue_job makes of each issue
    open,       \* open issues
    labelled,   \* issues carrying APPROVAL_LABEL
    private,    \* what the repository metadata reports
    replies,    \* number of result comments, by request
    told,       \* the verdict of the last result comment, by request
    \* the machine
    pc, job, verdict,   \* of each watcher: its step, its job, its payload
    claims,             \* claim files present, by request
    ran,                \* number of times a request's effect was started
    \* history, read by properties only
    meddled,    \* issues the owner edited, closed or reopened
    sanctioned  \* issues seen open, elevated and labelled at one moment

hub == <<filed, body, open, labelled, private>>
machine == <<pc, job, verdict, claims, ran>>
comments == <<replies, told>>
history == <<meddled, sanctioned>>
vars == <<hub, comments, machine, history>>

Job == [issue : 0..MaxIssue, body : Bodies, approved : BOOLEAN]

TypeOK ==
    /\ filed \in 0..MaxIssue
    /\ body \in [Issues -> Bodies]
    /\ open \subseteq 1..filed
    /\ labelled \subseteq Issues
    /\ private \in BOOLEAN
    /\ replies \in [Requests -> Nat]
    /\ told \in [Requests -> Verdicts \cup {"none"}]
    /\ pc \in [Watchers -> Busy \cup {"down", "idle", "claim"}]
    /\ job \in [Watchers -> Job]
    /\ verdict \in [Watchers -> Verdicts]
    /\ claims \subseteq Requests
    /\ ran \in [Requests -> Nat]
    /\ meddled \subseteq Issues
    /\ sanctioned \subseteq Issues

Init ==
    /\ filed = 0
    /\ body = [i \in Issues |-> "foreign"]
    /\ open = {}
    /\ labelled = {}
    /\ private \in BOOLEAN
    /\ replies = [r \in Requests |-> 0]
    /\ told = [r \in Requests |-> "none"]
    /\ pc = [w \in Watchers |-> "down"]
    /\ job = [w \in Watchers |-> NoJob]
    /\ verdict = [w \in Watchers |-> "refused"]
    /\ claims = {}
    /\ ran = [r \in Requests |-> 0]
    /\ meddled = {}
    /\ sanctioned = {}

-----------------------------------------------------------------------------
(* The owner and GitHub. *)

Witness == sanctioned' = sanctioned \cup
    {i \in open' \cap labelled' : body'[i] = "elevated"}

File(b, approve) ==
    /\ filed < MaxIssue
    /\ filed' = filed + 1
    /\ body' = [body EXCEPT ![filed'] = b]
    /\ open' = open \cup {filed'}
    /\ labelled' = IF approve THEN labelled \cup {filed'} ELSE labelled
    /\ UNCHANGED <<private, comments, machine, meddled>>
    /\ Witness

Edit(i, b) ==
    /\ i <= filed
    /\ b # body[i]
    /\ body' = [body EXCEPT ![i] = b]
    /\ meddled' = meddled \cup {i}
    /\ UNCHANGED <<filed, open, labelled, private, comments, machine>>
    /\ Witness

ToggleLabel(i) ==
    /\ i <= filed
    /\ labelled' = IF i \in labelled THEN labelled \ {i} ELSE labelled \cup {i}
    /\ UNCHANGED <<filed, body, open, private, comments, machine, meddled>>
    /\ Witness

ToggleOpen(i) ==
    /\ i <= filed
    /\ open' = IF i \in open THEN open \ {i} ELSE open \cup {i}
    /\ meddled' = meddled \cup {i}
    /\ UNCHANGED <<filed, body, labelled, private, comments, machine>>
    /\ Witness

ChangeVisibility ==
    /\ private' = ~private
    /\ UNCHANGED <<filed, body, open, labelled, comments, machine, history>>

-----------------------------------------------------------------------------
(* A watcher. *)

Request(w) == <<WorkspaceOf[w], job[w].issue>>

GoTo(w, step) == pc' = [pc EXCEPT ![w] = step]

\* Leaving _execute_job, or the process, its local variables are gone.
Leave(w, step) ==
    /\ GoTo(w, step)
    /\ job' = [job EXCEPT ![w] = NoJob]
    /\ verdict' = [verdict EXCEPT ![w] = "refused"]

\* assert_private_repository: once, before the first poll.
Start(w) ==
    /\ pc[w] = "down"
    /\ private
    /\ GoTo(w, "idle")
    /\ UNCHANGED <<hub, comments, job, verdict, claims, ran, history>>

\* The listing is sorted by creation, oldest first, and only its first page is
\* requested; issues that do not parse take their place in the page.
Page == {i \in open : Cardinality({j \in open : j < i}) < PageSize}
Pending == {i \in Page : body[i] # "foreign"}
\* Mutant of Oldest: the listing is sorted newest first.
Newest(i) == i \in Pending /\ \A j \in Pending : i >= j

Oldest(i) == i \in Pending /\ \A j \in Pending : i <= j

\* Mutant of Snapshot: "approved" is read from the issue body.
SelfApproved(i) == [issue |-> i, body |-> body[i], approved |-> TRUE]

\* The job is a snapshot: its body and the approval label as polled.
Snapshot(i) == [issue |-> i, body |-> body[i], approved |-> i \in labelled]

\* Mutant of Poll: no early return on an empty listing.
PollUnguarded(w) ==
    /\ pc[w] = "idle"
    /\ IF Pending = {} THEN job' = [job EXCEPT ![w] = NoJob]
       ELSE \E i \in Issues : Oldest(i) /\ job' = [job EXCEPT ![w] = Snapshot(i)]
    /\ GoTo(w, "claim")
    /\ UNCHANGED <<hub, comments, verdict, claims, ran, history>>

Poll(w) ==
    /\ pc[w] = "idle"
    /\ \E i \in Issues : Oldest(i) /\ job' = [job EXCEPT ![w] = Snapshot(i)]
    /\ GoTo(w, "claim")
    /\ UNCHANGED <<hub, comments, verdict, claims, ran, history>>

\* Mutant of Claim: the claim file is opened without O_EXCL.
ClaimShared(w) ==
    /\ pc[w] = "claim"
    /\ GoTo(w, "authorize")
    /\ claims' = claims \cup {Request(w)}
    /\ UNCHANGED <<hub, comments, job, verdict, ran, history>>

\* os.open(..., O_CREAT | O_EXCL): the loser returns and polls again.
Claim(w) ==
    /\ pc[w] = "claim"
    /\ IF Request(w) \in claims
       THEN Leave(w, "idle") /\ UNCHANGED claims
       ELSE /\ GoTo(w, "authorize")
            /\ claims' = claims \cup {Request(w)}
            /\ UNCHANGED <<job, verdict>>
    /\ UNCHANGED <<hub, comments, ran, history>>

Authorized(j) == j.body = "elevated" => j.approved

\* PolicyError and ActionError are caught and become the payload.
Refuse(w) ==
    /\ pc[w] = "authorize"
    /\ ~Authorized(job[w])
    /\ verdict' = [verdict EXCEPT ![w] = "refused"]
    /\ GoTo(w, "comment")
    /\ UNCHANGED <<hub, comments, job, claims, ran, history>>

Run(w) ==
    /\ pc[w] = "authorize"
    /\ Authorized(job[w])
    /\ ran' = [ran EXCEPT ![Request(w)] = @ + 1]
    /\ GoTo(w, "running")
    /\ UNCHANGED <<hub, comments, job, verdict, claims, history>>

\* The process ended, timed out, or raised one of the caught exceptions.
Finish(w, v) ==
    /\ pc[w] = "running"
    /\ verdict' = [verdict EXCEPT ![w] = v]
    /\ GoTo(w, "comment")
    /\ UNCHANGED <<hub, comments, job, claims, ran, history>>

\* Mutant of Comment: a failed POST is ignored and the issue closed.
CommentSwallowed(w) ==
    /\ pc[w] = "comment"
    /\ GoTo(w, "close")
    /\ UNCHANGED <<hub, comments, job, verdict, claims, ran, history>>

Comment(w) ==
    /\ pc[w] = "comment"
    /\ replies' = [replies EXCEPT ![Request(w)] = @ + 1]
    /\ told' = [told EXCEPT ![Request(w)] = verdict[w]]
    /\ GoTo(w, "close")
    /\ UNCHANGED <<hub, job, verdict, claims, ran, history>>

\* Mutant of Close: the issue of a refused job is left open.
CloseUnlessRefused(w) ==
    /\ pc[w] = "close"
    /\ open' = IF verdict[w] = "refused" THEN open ELSE open \ {job[w].issue}
    /\ Leave(w, "idle")
    /\ UNCHANGED <<filed, body, labelled, private, comments, claims, ran,
                   history>>

Close(w) ==
    /\ pc[w] = "close"
    /\ open' = open \ {job[w].issue}
    /\ Leave(w, "idle")
    /\ UNCHANGED <<filed, body, labelled, private, comments, claims, ran,
                   history>>

\* Mutant of Die: the claim is released when _execute_job raises.
DieUnclaimed(w) ==
    /\ pc[w] # "down"
    /\ claims' = IF pc[w] \in Busy THEN claims \ {Request(w)} ELSE claims
    /\ Leave(w, "down")
    /\ UNCHANGED <<hub, comments, ran, history>>

Die(w) ==
    /\ pc[w] # "down"
    /\ Leave(w, "down")
    /\ UNCHANGED <<hub, comments, claims, ran, history>>

-----------------------------------------------------------------------------
Filing == \E b \in Bodies, approve \in BOOLEAN : File(b, approve)

Meddling == \E i \in Issues :
    \/ \E b \in Bodies : Edit(i, b)
    \/ ToggleOpen(i)

Step(w) ==
    \/ Poll(w)
    \/ Claim(w)
    \/ Refuse(w)
    \/ Run(w)
    \/ \E v \in {"done", "failed"} : Finish(w, v)
    \/ Comment(w)
    \/ Close(w)

Next ==
    \/ Filing
    \/ Meddling
    \/ \E i \in Issues : ToggleLabel(i)
    \/ ChangeVisibility
    \/ \E w \in Watchers : Start(w) \/ Step(w) \/ Die(w)

Spec == Init /\ [][Next]_vars

-----------------------------------------------------------------------------
(* Safety. *)

\* A job is executed at most once in a workspace, however many watchers poll
\* it, die and restart, and however often the owner edits or reopens the
\* issue: the claim file of _claim_job is never released.
ExecutedAtMostOnce == \A r \in Requests : ran[r] <= 1

\* An elevated job runs only if its issue once had an elevated body and the approval
\* label at the same moment: neither a label put on after the poll makes one run, nor
\* one taken off a body that needed none, before that was edited.  (A label that stays
\* on over an edit does approve what is there then.)
ElevatedWasSanctioned == \A w \in Watchers :
    (pc[w] = "running" /\ job[w].body = "elevated")
        => job[w].issue \in sanctioned

\* Watchers of one workspace run jobs one at a time without any lock: all of
\* them poll the same oldest issue, which stays open until its claimant closes
\* it.  Only the owner, or a watcher of another workspace, can let a later
\* issue through while an earlier one is being executed.
SerialExecution == \A w, v \in Watchers :
    /\ pc[w] \in Busy
    /\ pc[v] \in Busy
    /\ WorkspaceOf[w] = WorkspaceOf[v]
    /\ job[w].issue < job[v].issue
    => \/ job[w].issue \in meddled
       \/ \E s \in Workspaces \ {WorkspaceOf[w]} :
              <<s, job[w].issue>> \in claims

\* An issue that nobody but a watcher closed carries a result comment, and the
\* comment says "refused" exactly when nothing was run.
ClosedWithTrueReply ==
    /\ \A i \in 1..filed : i \notin open \cup meddled
          => \E s \in Workspaces : replies[<<s, i>>] > 0
    /\ \A r \in Requests : replies[r] > 0
          => (told[r] = "refused" <=> ran[r] = 0)

\* The request paths promise of AtMostOnce, for each workspace and issue.
Once == INSTANCE AtMostOnce WITH
    begun <- claims, effects <- ran, answers <- replies

RefinesAtMostOnce == Once!Spec

-----------------------------------------------------------------------------
(* Liveness.  The watchers are scheduled and HTTP answers. *)

Fairness == \A w \in Watchers : WF_vars(Start(w)) /\ WF_vars(Step(w))

\* Fewer issues that never parse than a page holds.
PageNotClogged == Cardinality({i \in open : body[i] = "foreign"}) < PageSize

\* No fault, no meddling, a private repository.
CalmNext ==
    \/ Filing /\ PageNotClogged'
    \/ \E w \in Watchers : Start(w) \/ Step(w)

PrivateInit == Init /\ private

CalmSpec == PrivateInit /\ [][CalmNext]_vars /\ Fairness

\* The same with watchers that die and are restarted.
FaultySpec ==
    /\ PrivateInit
    /\ [][CalmNext \/ \E w \in Watchers : Die(w)]_vars
    /\ Fairness

\* Every job filed is eventually answered and its issue closed.
EveryJobAnswered == \A i \in Issues :
    (i \in open /\ body[i] # "foreign") ~>
        (i \notin open /\ \E s \in Workspaces : replies[<<s, i>>] > 0)

\* The same asked only of behaviours in which the watchers, whatever happened
\* to them before, are one day all up and stay up (README.md: the control plane
\* "executes them ..., comments the structured result, and closes the issue").
AnsweredOnceStable ==
    <>[](\A w \in Watchers : pc[w] # "down") => EveryJobAnswered
===============================================================================
