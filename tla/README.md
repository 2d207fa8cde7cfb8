# Verification of WARPBLACK in TLA+

WARPBLACK runs commands, patches, memory updates and desktop actions on a user's
machine for requests that come from GitHub issues, a job directory, a loopback HTTP
bridge and the command line. This directory models those request paths: TLA+ modules
translated from `src/src/warpblack`, TLC runs on small instances, and TLAPS proofs
for every value of the constants.

    tlc -workers 2 -config MCGitHubQueue_safety.cfg MCGitHubQueue.tla
    for m in *Proofs.tla; do tlapm $m; done

`PROJECT.json` maps every definition to the lines it models and lists the runs, the
mutants each property is tried on, the hazards and the theorems.

## 1. Inventory

### Components, their state and operations

| component | state it keeps | operations |
|---|---|---|
| GitHub control plane (`github_queue.py`) | claim files in `.warpblack/github-claims`; the issues, labels and comments of a control repository | `watch` → `run_once` → `pending_jobs`, `_claim_job`, `_execute_job` (authorize, run, comment, close) |
| Automator queue (`automator_queue.py`) | job files in `jobs/`, result files in `results/` and `processed/` | `run_once`, `_consume`, `_find_result_by_idempotency_key`, `_replay_result`, `_execute`, `_write_result` |
| Read-only canary (`runtime_canary.py`, `task_envelope.py`) | one claim and one result file per request id; the state of a task envelope | `run_git_status_canary`, `_write_once`, `transition` |
| Project memory (`readme_absorb.py`) | `readme_state.json`, `README.generated.md` | `load`, `_save`, `ingest`, `render` |
| Patch construction (`construct.py`) | the work tree, `.warpblack/tasks/<id>/` | `construct`: mkdir, context, `git apply --check`, `git apply`, checks, read-back |
| HTTP bridge (`server.py`) | `readme_lock`, `construct_lock` | one handler thread per request |
| Executor, audit (`executor.py`, `audit.py`) | an append-only ledger, one file for all processes | `execute`: policy, subprocess, ledger line |
| Desktop agent (`desktop*.py`) | none of its own; it acts on the screen and the focus | `click_visual_box`, `click_label`, `click_at`, `keystroke`, `activate_application` |
| Project registry (`project_registry.py`) | one JSON file, loaded once by each process and saved whole | `add`, `scan`, `move`, `remove`, `refresh`, `get` |
| Policy (`policy.py`) | none | `decide`, a function of the argv |
| Capabilities, actions (`capabilities.py`, `actions.py`, `contracts.py`) | none | `plan`, `execute`, `dispatch_action` |
| Blender (`blender.py`, `blender_certificate.py`) | an evidence directory for each request id | `translate_restore`, `certify_translate_restore` |
| Client, CLI, XARVIS, routines, doctor, handoff | none | one call each |

### How they interact

* The watcher, the CLI and the bridge use **the same** memory, constructor and
  executor objects, but only the bridge holds locks, and only against its own
  threads. `construct` loads the memory without `readme_lock`.
* The Automator queue and Automator share three directories and no lock.
* The canary runs through `dispatch_action` and the executor, twice per request.
* The audit ledger sits under the executor: when it cannot be written the caller
  sees an exception although the command has run. The bridge's threads and the local
  processes append to the same file.
* The Blender capabilities start Blender themselves: neither the command policy nor
  the ledger sees it, although docs/THREAT_MODEL.md:98 calls a feature that gets by
  them a regression. Their evidence directory is named for the request id, and
  shared by whoever uses the id again.
* `projects` commands and the Automator queue's `workspace.import` load and save the
  same registry without a lock.

### What is hard here, and what has to be true

* *Two processes at one request.* At most one execution: exclusive claim files
  (control plane, canary), the exclusive task directory (construction), a lookup by
  idempotency key (Automator queue).
* *A process that ends between two steps.* What was begun must not be begun again
  where that would repeat an effect; what is told must be on disk.
* *Evidence used after it was gathered*: the approval label and body of an issue,
  the list of result files, the checked patch, the screenshot and the focus.
* *A caller that asks again* after a timeout while the first call still runs.
* *Load, change, save* by processes that do not know of each other (memory,
  registry): what one may lose of another's, and that it loses nothing else.
* *Files named by whoever asks*: evidence directories that two requests share.
* *A write that fails*: a ledger line cut short, or a descriptor closed twice, hits
  callers whose own writes went well.
* *Writes that are not atomic*: the memory is truncated and rewritten in place, a
  record is created and then filled, a job's result goes through a temporary file
  that workers share. The write may fail after the file was emptied.
* *A command that outlives its caller*: git apply, a check, Blender or a
  screencapture goes on when the bridge that started it is dead.

`hazards` in `PROJECT.json` lists each at its line, with the properties that would
notice it going wrong.

## 2. Modules

| module | models | notes |
|---|---|---|
| `AtMostOnce` | what the request paths promise: begun once, at most one effect, at most one answer, no effect after it | abstract |
| `GitHubQueue` | owner, repository and watchers | refines `AtMostOnce` |
| `GitHubQueueProofs` | the proofs about it | TLAPS |
| `AutomatorQueue` | Automator and the workers, one step per file operation, the temporary file included | |
| `AutomatorQueueProofs` | the proofs about it | TLAPS |
| `TaskEnvelope` | the transition table of a task | used by `RuntimeCanary` |
| `RuntimeCanary` | overlapping calls of the canary | refines `AtMostOnce` |
| `RuntimeCanaryProofs` | the proofs about it | TLAPS |
| `ReadmeAbsorb` | absorbs by bridge threads and local processes | |
| `PatchConstruct` | constructs by the same | refines `AtMostOnce` |
| `Bridge` | the two together: one bridge whose end ends all its threads, local processes, one workspace | INSTANCEs both |
| `BridgeProofs` | the proofs about `Bridge` and so about its parts | TLAPS |
| `ProjectRegistry` | processes that load, change and save one registry | |
| `ProjectRegistryProofs` | the proofs about it and the operators on entries | TLAPS |
| `Policy` | `decide`, over attributes of a command | no state; used by `Execution` |
| `Execution` | commands through policy, executor and ledger, from four doors | |
| `Certificate` | the Blender capabilities and their evidence directories | |
| `Service` | the two together in threads of one bridge and in local processes | INSTANCEs both |
| `ServiceCommandProofs` | the proofs about the commands of `Service` | TLAPS |
| `ServiceCertificateProofs` | ... about its certifications, and its types | TLAPS |
| `Desktop` | a call against a screen that changes between any two of its steps | |
| `DesktopProofs` | the proofs about it | TLAPS |
| `MC*` | the instances for TLC | constants, symmetry, bounds |

### Correspondence with the code

**GitHubQueue.** GitHub is `filed`, `body`, `open`, `labelled`, `private`,
`replies`, `told`; the owner's actions (`File`, `Edit`, `ToggleLabel`, `ToggleOpen`,
`ChangeVisibility`) may come between any two steps of a watcher. `body` is what
`parse_issue_job` makes of an issue: nothing, a job that needs no approval, or one
that does. A watcher is `pc`, the job it polled — a snapshot of body and label — and
the verdict it is about to report. `Claim` is the `O_CREAT|O_EXCL` open; no action
removes a claim, as no code does. `Die` is a kill or an exception that leaves
`_execute_job`; HTTP failures are of this kind, as `GitHubQueueError` reaches
`main`, and a lost reply is the call followed by `Die`.

**AutomatorQueue.** A job file is absent, torn or whole; a result file has a key and
a status. `Take`, `Parse`, `List`, one `Read` per result file, `Execute`, `Open`,
`Fill`, `Publish` and `Move` follow `_consume` in order. The middle three are
`_write_result`: `write_text` opens and empties `results/<job_id>...tmp`, fills it,
and `replace` renames it. Each may fail (`GiveUp`), for a job in `Unwritable`, whose
id cannot name a file, the first always does; the worker ends and the job file
stays. The temporary file is named after the job, so workers on one job share it:
`handle` is where the file a worker has open is by now, `Rename` moves what others
have open with the file, and what is written over another's text may leave that
one's tail (`Over`). The adapters are represented by the statuses they end in and by
whether they had an effect; what `workspace.import` does to the registry is an `Add`
of `ProjectRegistry`.

**RuntimeCanary.** `_write_once` is two steps (create, fill). A call advances its
envelope with the moves of `TaskEnvelope`, and would be stuck where `transition`
raises. A reading is what git status reports of the tree at that moment, a reading
that does not certify, or no reading.

**ReadmeAbsorb, PatchConstruct, Bridge.** `door` says whether a request came through
the bridge, under its lock, or a local process, without one. `write_text` is
truncate and fill, each of which may fail; two writers, or a write that ends in the
middle, may leave a mixed file. `FailToFill` is the failing write of the memory,
after which what was in it is lost. A fact stands for an item up to the
normalization that removes duplicates. A patch is in the tree or not; `Clash` says
what it cannot be applied over. `Outcomes` is what the executor makes of a command;
git apply may fail on a patch that fits, for a file it may not write or a full disk,
and a check, being any approved program, may leave any tree (`Rework`). When a
process dies while one of the two runs, the command does not: `Orphan` is what it
still does, at any later time. `Bridge` defines `readable`, the view construction
has of the memory, by the state of ReadmeAbsorb's file.

**ProjectRegistry.** The file is a function from folders to entries, an entry's
order and status; the id is a hash of the path, so a folder is its project. `Load`
normalizes as `_load` does; `Ranked` is `_normalize_order`, `Reordered` is
`_reorder`. Each command is a load and a save of its own, a scan one save for each
folder that it found, so that others, a folder's removal, or the end of the process
come between any two. The save is one step because the code renames a temporary
file.

**Policy, Execution.** A command is what `decide` tells commands apart by: its
program's class, git's subcommand, whether it has risky flags, whether its paths and
working directory are inside the workspace, its timeout, its approval. `Requests`
says by which door it comes and who approves: over HTTP and on the command line the
request, by XARVIS the operator, for a capability nobody. A call runs through
`Decided`, `Start`, `End`, `Open`, `Answer`, or through the refusals and errors
between them. The ledger is a sequence of lines; `Cut` is a line that a full disk
cuts short, into which the next one is glued. `Fail` and `CloseAgain` are
`_append`'s two closes of one descriptor: `descriptor` is what each number of the
bridge's process denotes, `theirs` which numbers other threads hold to be theirs.

**Certificate, Service.** A picture is told apart by the call it was made for, a
hash is what it is the hash of, and files are rewritten in place by truncating and
filling. `Blender` is a process of its own: it goes on when its caller is dead, and
renders into the directory it was given, and so does a screencapture (`ShootLate`).
The hash that goes into the checksum, `sum`, is read before the checksum file is
opened. `Service` puts commands and certifications into threads of one bridge, which
ends them together, or into local processes.

**Desktop.** A picture stands for what a screenshot shows and fixes the control a
click at each point hits; `Tree` is what the accessibility tree of each window
lists, which may include a control that something else covers. Windows are known by
process id and title, which several may share; a pin names either, both or neither,
and `Matches` is the comparison of `_assert_focused_window`. `Pin` is the first
focus query, whose process and title the call expects from there on; each later
assertion, screenshot and inspection is a step. `Inspect` reads the tree of the
front window of the pinned process, whatever its title is by now, as the code does,
and `source` remembers which window that was. A screenshot has pixels and a click
takes a point of the screen: `Shot` hands the one to the other unchanged, as the
code does, and `display` says which point a pixel really shows. What a click does is
the environment's (`Refocus`, `Repaint`).

## 3. Runs

States are those TLC reports as distinct.

| run | question | instance and bounds | states |
|---|---|---|---|
| `github_safety` | are jobs run once, serially, with sanction, and answered truly, and is `AtMostOnce` refined? | 2 watchers of one workspace dying at will, 2 issues relabelled at will, one of them edited, closed or reopened | 466 886 |
| `github_calm` | is every job answered without faults? | 3 watchers, 2 workspaces, 2 issues | 129 510 |
| `github_wedge` | ... and after faults that stop? *violated* | 1 watcher, 2 issues | |
| `automator_safety` | one execution per key and loss, no job lost, replays agree, records kept | 2 workers, a gated job and its authorized resubmission under one key, 3 emissions (fewer when workers overlap), 2 kinds of disturbance | 1 036 093 |
| `automator_live` | is every job file before an unwritable one consumed? | 1 worker, 2 jobs, the last unwritable, each emitted twice | 183 976 |
| `automator_ingest` | does ingestion keep suppressing? *violated* | 1 worker, 1 job | |
| `canary` | no replay, certification, final records, refinement | 2 callers, 1 request id, 2 envelopes, 2 tree states | 95 976 |
| `bridge_safety` | memory kept, patches applied once and validated as applied, locks returned, refinement | 2 requests out of 2 absorbs and 2 constructs, 2 tasks, 2 patches, 1 check | 1 069 358 |
| `bridge_review` | is a failed validation told as needs-review? *violated* | 1 request | |
| `registry` | is the order a numbering, and what may a save drop or move? | 2 processes, 3 folders, one in another and two of one name, any prior registry, positions 0, 1 and beyond | 1 565 656 |
| `service` | is what runs sanctioned, the ledger true and complete, a certificate sound? | 2 requests out of 2 commands and 2 certifications, 6 kinds of command, 2 directories, 1 cut line, 2 descriptors | 1 368 826 |
| `desktop_safety` | does a call aim at and act in what was asked? | 4 windows of 2 processes, 3 titled alike, 3 pictures, 2 points, 2 displays | 1 974 084 |

*Why the bounds are enough.* The interference each property is about takes two
actors: two watchers, two workers, two callers, two requests. A third watcher, in
another workspace, is in `github_calm`, since the exception in `SerialExecution` is
about it. Two issues are needed for an order between them, and one of the two being
meddled with covers either case. One idempotency key shared by two jobs is the
interesting case; different keys do not meet. Three emissions let a job be emitted
again after its result was replayed; overlapping workers have two to meet over, of
one job, whose temporary file they share. The canary's ids share nothing, so one
suffices. Three pictures hold a control that moved, and one hidden by a dialog that
doubles another; a window alone in its process, one that shares process and title
with another, and one that shares only the process are the ways in which pins can be
ambiguous; with two pixels to the point, one of two pixels shows another point.
Symmetry is over watchers, workers, callers and requests, which the modules never
compare in order, and is not used with liveness.

For the registry two processes are a lost update, and three folders a rest whose
order can change around the one that is moved. A certificate is spoilt by one other
call in its directory, dead or alive; a second directory is where nothing may
happen. A descriptor closed twice takes the append that fails, the one that is given
the number, and a third thread, which is the environment's. One cut line shows the
loss; the property counts them.

*The bounds by name.* `MaxIssue`, `PageSize`, `MaxId`, `MaxEmit`, `MaxChecks`,
`MaxRequests`, `MaxCuts`, `Numbers` in the modules; the state constraints
`OneMeddled` (one issue is meddled with, the repository stays private) and
`FewEmissions` (three emissions, two kinds of disturbance, and fewer emissions when
workers overlap, who can destroy the records of a key and have it executed for ever:
up to twice is looked at) in the MC modules.

### Violations

Each is a sentence of the documentation or a comment that the code does not keep;
`findings` in `PROJECT.json` quotes it.

* `github_wedge`: a job whose watcher ends between claim and close is never
  answered, and being the oldest open issue it keeps all younger ones waiting.
* `automator_ingest`: a result that Automator moves between the listing and the
  reading no longer suppresses a second execution.
* `bridge_review`: a check that raises leaves `construct` without a result after the
  patch was applied.

Four more that no run is spent on, as they are plain from the code:

* docs/THREAT_MODEL.md:50 says a repository is refused unless it is private.
  Visibility is checked once, when the watcher starts (`Start` in `GitHubQueue`).
* README.md:194 says a click fails closed "if anything changed between observe and
  act". The screenshot is compared, then the focus is read and the click sent by two
  more processes; `AimsAtWhatWasAsked` states what is left. It has the premise
  `Truthful`: on a display with two pixels to the point a click by box goes
  elsewhere, and a click by label presses what covers the control.
* docs/THREAT_MODEL.md:98 wants no way to the machine that gets by policy and audit;
  the Blender capabilities do (`Certificate` has no policy and no ledger).
* docs/READ_ONLY_CANARY.md:77 says a claim without a result is reported as
  NEEDS_REVIEW; one left empty by a crash raises (`Compare` in `RuntimeCanary`).

And one defect of `audit.py`: `_append` closes its descriptor in the `with` block
and again in the `except` clause. `AnsweredIsOnRecord` holds up to the first append
of the bridge that fails; without its premise TLC finds a caller who is told a
result whose line went into another thread's file, on a disk that is not full.

### Fairness

* `GitHubQueue`: weak fairness of each watcher's start and of its own steps. A
  watcher is a loop without waiting conditions other than an empty listing; HTTP
  calls have timeouts, so a step is taken or the watcher dies. A claim that is lost
  counts as a step, so this does not assume that anyone gets work. `FaultySpec` adds
  deaths, and its property asks only about behaviours in which they stop.
* `AutomatorQueue`: weak fairness of each worker's start and of its steps; no
  fairness is assumed of Automator, which may leave a file torn for ever; that it
  emits a job at most `MaxEmit` times is the bound of the model, without which
  younger job files could be passed by for ever by older names. The property is
  conditioned on the workers staying up, and on their writes succeeding, in the end.
* The other modules state safety only: their callers may stop anywhere.

## 4. What is proved

Every safety property that a passing run checks, invariant, action property or
refinement, is a theorem for every value of the constants: the bounds of section 3
limit only what TLC has looked at. Each inductive invariant below was checked with
TLC before it was proved.

### GitHubQueueProofs

`GitHubQueueProofs` proves, for all finite or infinite sets of watchers and
workspaces, any number of issues and any page size, from the two assumptions of
`GitHubQueue` on its constants:

| theorem | statement |
|---|---|
| `Invariance` | `Spec => []IInv` |
| `TypeCorrect` | `Spec => []TypeOK` |
| `AtMostOnceRun` | `Spec => []ExecutedAtMostOnce` |
| `SanctionedRun` | `Spec => []ElevatedWasSanctioned` |
| `SerialRun` | `Spec => []SerialExecution` |
| `TrueReplies` | `Spec => []ClosedWithTrueReply` |
| `Refinement` | `Spec => RefinesAtMostOnce` |

The argument. None of the properties is inductive alone: that a job has run at most
once says nothing of a watcher that is about to run it. `IInv` adds who holds what.
`ClaimInv`: a busy watcher's request is claimed and no two busy watchers share one —
the exclusive creation is what makes it inductive. `StageInv` ties the counters of a
request to the step of its holder, so that `Run` finds 0 and `Comment` finds none.
`SanctionInv` follows the approval from the issue into the snapshot. `OpenInv` and
`PassedInv` say of an active watcher that its issue is still open and that older
issues were no jobs when it polled; together they give `SerialExecution`: if an
older issue's watcher is busy, the younger one's watcher has passed it, so it was
closed or no job, so the owner or another workspace had touched it. There is one
lemma per part of `IInv` and under it one step per action. The refinement uses
`StageInv` to show that `Run` and `Comment` map to `Effect` and `Answer`, `Claim` to
`Begin`, and everything else to a stutter.

### RuntimeCanaryProofs

`RuntimeCanaryProofs` proves of `RuntimeCanary`, for every set of callers, request
ids, envelopes and trees, from the two assumptions on its constants:

| theorem | statement |
|---|---|
| `Invariance` | `Spec => []IInv` |
| `TypeCorrect` | `Spec => []TypeOK` |
| `NoReplay` | `Spec => []NoSubprocessReplay` |
| `Certification` | `Spec => []CertifiedTwice` |
| `AnswersEnvelope` | `Spec => []AnsweredItsEnvelope` |
| `DoneOnDisk` | `Spec => []DoneIsRecorded` |
| `FinalRecords` | `Spec => RecordsAreFinal` |
| `Refinement` | `Spec => RefinesAtMostOnce` |

The argument. A call is the *claimant* of its id from the creation of the claim file
until it has filled the result. `ClaimInv`: no id has two claimants, by exclusive
creation, and nobody takes over from one that died, since the file stays. `StageInv`
and `ReadingInv` follow the claimant: how many processes it has started, that its
readings are all that was ever read for the id, and that the result file is absent
until it concludes and torn until it has filled it. So a record is only filled by
the one call that created it (`FinalRecords`), a claimant reads at most twice
(`NoReplay`), and DONE is written over two equal readings (`Certification`).
`ReplyInv` carries the comparison of envelopes to the answer. Steps that leave all
claimants and records alone are dealt with once (`QuietStep`). In the refinement the
first reading is the effect, the second a stutter, and the creation of the result
the answer.

### ServiceCommandProofs

`ServiceCommandProofs` proves of the commands of `Service`, for every set of calls,
descriptors and certifiers, any commands and any number of lines cut short, from
`CommandsAssumption` and `MaxCutsAssumption`:

| theorem | statement |
|---|---|
| `CommandInvariance` | `Spec => []IInv` |
| `SanctionedRuns` | `Spec => []Sanctioned` |
| `TrueLedger` | `Spec => []LedgerTellsTrue` |
| `RecordedAnswers` | `Spec => []AnsweredIsOnRecord` |

The argument. `Sanctioned` speaks of what was started and not of what is about to
be: `CommandInv` says that the executor's command is the request's with the approval
its door gives, and `OutcomeInv` that from `decide` on, the policy has allowed it.
`LedgerTellsTrue` says nothing of the call whose line comes next: `LedgerInv` adds
that a line is of a call that has passed its append, so that one at its append has
none (`LineAdded`) and its outcome changes no more. Nothing is needed of
descriptors: a number another thread has taken loses a line and never forges one.
That is why these two hold across the double close.

`AnsweredIsOnRecord` does need them, and holds only until an append of the bridge
fails. `NumberInv`: until then each append has a number of its own, which denotes
the ledger. `CountInv` makes the counting inductive: the answered calls whose line
cannot be read are finitely many, and *one fewer* than the cuts while the last line
has no end, since the next line will be lost in it. A step then loses no call
(`NoneLost`), or the one whose line goes into an unended one (`OneLost`).

### ServiceCertificateProofs

For every set of calls and evidence directories; it extends `ServiceCommandProofs`
and needs no more assumptions.

| theorem | statement |
|---|---|
| `CertifyInvariance` | `Spec => []CertifyInv` |
| `TypeCorrect` | `Spec => []TypeOK`, with `CommandInvariance` |
| `StandingCertificates` | `Spec => []CertificateStands` |
| `ExecutionPart`, `CertificatePart` | `Spec => E!Spec`, `Spec => C!Spec` |

The argument. `CertificateStands` is about a certificate that was told;
`EvidenceInv` says what there is of one at each step before: the desktop picture is
the call's own, then the hashes are those of the pictures that lie there, then the
certificate is its text, then `sum` is its hash, then the checksum is that — or the
call is disturbed, and stays so. What makes it inductive is that whoever writes into
a directory disturbs all that have written there before (`OwnOrUntouched`: a step is
a call's own, or leaves its evidence alone, or disturbs it) and that a Blender that
has printed its verification renders no more. `RenderInv`, that a picture is by one
of those that wrote into its directory, gives the last clause.

### BridgeProofs

For every set of absorbs, constructs, facts, tasks, patches and any number of
checks, from `BundlesAssumption` and `MaxChecksAssumption`:

| theorem | statement |
|---|---|
| `Invariance` | `Spec => []IInv` |
| `TypeCorrect` | `Spec => []TypeOK` |
| `KeptAbsorbs` | `Spec => []AbsorbedIsKept` |
| `TruePages` | `Spec => []PageShowsWhatWasTold` |
| `ValidatedTrees` | `Spec => []ValidatedAsApplied` |
| `CheckedPatches` | `Spec => []CheckedPatchFits` |
| `ReturnedLocks` | `Spec => []LocksAreReturned` |
| `Refinement` | `Spec => RefinesAtMostOnce` |
| `AbsorbPart`, `ConstructPart` | `Spec => A!Spec`, `Spec => C!Spec` |

The argument. The two halves have the same shape, and each step is a step of one of
them (`AbsorbCases`, `ConstructCases`). A request of the bridge that is past its
lock holds it (`AbsorbLockInv`, `ConstructLockInv`), so that there is one; as long
as no local process came in between, there is no other (`AbsorbAloneInv`,
`ConstructAloneInv`). Only then do the files follow from one request's steps:
`MemoryInv` says that what a request has loaded holds what all answered ones
brought, which truncating does not take away as long as its draft is written next:
hence the premise that this write does not fail. `TreeInv` says that the tree is the
one its patch was tried against, then that tree with the patch; it is kept because
nothing else touches the tree, which is the premise `Undisturbed`: no local process,
no edit by the user or by a check, no command left by a bridge that died. git apply
itself may fail for whatever reason. The refinement maps the exclusive creation of
the task directory to `Begin`, `git apply` to `Effect`, the result to `Answer`; it
needs that a task has one owner, dead or alive.

### AutomatorQueueProofs

For every set of workers, any number of jobs and emissions, any keys, kinds and
unwritable ids, from the four assumptions of `AutomatorQueue`:

| theorem | statement |
|---|---|
| `Invariance` | `Spec => []IInv` |
| `TypeCorrect` | `Spec => []TypeOK` |
| `NothingVanishes` | `Spec => []NoJobVanishes` |
| `OnceAKey` | `Spec => []ExecutedOncePerLoss` |
| `AgreeingReplays` | `Spec => []ReplaysAgree` |
| `KeptRecords` | `Spec => RecordsAreKept` |

The argument. Even the types need an invariant: `runs` is counted down when a result
is lost, and stays natural because executions under way are counted (`CountInv`, on
the cardinality of `Holders`). `NoJobVanishes` needs `WorkInv`, that a worker about
to move a job's file has answered it (`VanishInv`), and that no file vanishes that
somebody has open (`OpenInv`); and, for results to be whole, that as long as workers
have not overlapped, a worker fills the temporary file it has emptied and renames
what it has filled (`OwnInv`). The other three are about one worker and whole job
files: `AloneInv` and `WholeInv` carry that premise from step to step, `KeyInv` says
that a path only ever holds its job's key, and `LookupInv`, the centre, that a
lookup under way either has every result of its key still to read or there is none:
so `Execute` finds none. `OnceInv` turns that into a count, `AgreeInv` into one
status for each key. The premise is needed at `LookupInv`, where `automator_ingest`
breaks it.

### ProjectRegistryProofs

For every set of calls and of positions, any finitely many folders, and any prior
registry, from `PathsAssumption` and `PositionsAssumption`:

| theorem | statement |
|---|---|
| `Invariance` | `Spec => []IInv` |
| `TypeCorrect` | `Spec => []TypeOK` |
| `DenseOrder` | `Spec => []OrderIsDense` |
| `LossesExplained` | `Spec => LosesOnlyWhatItNeverSaw` |
| `RestInPlace` | `Spec => RestKeepsItsPlace` |

The argument. The work is in the operators. `Good` entries have distinct orders
below their number; that is the same as a numbering without gaps by counting
(`NoGaps`, `GoodIsDense`), but is easier to keep. `PlaceFacts` says how counting
what comes before places an entry, and from it `RankedGood`, `ReorderedGood`,
`AddedGood`, `RemovedGood` and `RefreshedGood` say of each operator that it returns
good entries, which, where the moved one is, and that the rest keeps its order.
`MinIsInSet` is the fact about the community module's `Min` that a scan needs.
`SaveFacts` puts them to the five steps that save; `OneSaves` says that a step is
the save of one call.

### DesktopProofs

For any windows, processes, titles, pictures, points, controls, trees and displays,
from the five assumptions of `Desktop`:

| theorem | statement |
|---|---|
| `Invariance` | `Spec => []IInv` |
| `TypeCorrect` | `Spec => []TypeOK` |
| `TrueAim` | `Spec => []AimsAtWhatWasAsked` |
| `OwnWindow` | `Spec => []ActsInItsWindow` |
| `ChangeVerified` | `Spec => []VerifiedClickChanged` |

The argument. `StepInv` says which steps which kind of call goes through. `AimInv`
has, from the moment the evidence is in and until a repaint, the point of a box as
planned, on the picture it was planned on, and that of a label in the tree that was
read; `TrueAim` then needs of display and tree what `Truthful` says and no more.
`TargetInv` keeps what was found first within what was asked for, `HeldInv` has the
window match that at the last assertion, and `AimInv` keeps the tree's window in the
pinned process, which is all the code sees to: the window itself may be another of
that process. `SameInv` makes `same` mean what it says, so that a comparison with a
picture of an earlier call would show.

### Only model-checked

Liveness (`EveryJobAnswered`, `EveryJobConsumed`), as liveness under fairness is out
of the prover's reach, and the three violations.

## 5. Not modelled

* Texts: the wording of comments and pages, JSON escaping and the bounding of
  payloads. `_bound_payload_total` measures compact JSON and the comment is posted
  with the default separators, so that a payload may stay too long; the hazard is
  listed without a property, and what follows from a failing POST is `github_wedge`.
* `ensure_control_labels` and `bootstrap` of the control plane, set-up calls that
  change nothing when repeated; authentication and HTTP parsing of the bridge, which
  refuse before anything happens; the routes and commands that only read.
* How an argv is classified: which flags are risky, what looks like a path. A link
  made between the policy's look at a path and the program's, or a file that grows
  between `stat` and `cat`, is below the model.
* What `files.read` and git status return; the groups, names and metadata of
  projects, and the depth of a scan.
* A temporary file that a failing screencapture or render leaves half written, other
  than as the file it was to be; windows that open and close during a call (they are
  all there, and the focus moves between them).
* A timeout_s that is not a number passes the policy's comparison and ends the
  program at once with an exception (`End` in `Execution`, which takes it for
  "timely").
* The routine learner, doctor and readme handoff: sequential, without state of their
  own.

## 6. Plan

Done: `AtMostOnce`, `GitHubQueue`, `AutomatorQueue`, `TaskEnvelope`,
`RuntimeCanary`, `ReadmeAbsorb`, `PatchConstruct`, `Bridge`, `Desktop`,
`ProjectRegistry`, `Policy`, `Execution`, `Certificate`, `Service`, and the proofs
of their safety properties.

Next, in this order:

1. Proofs: what the steps that liveness rests on can be proved to do without
   fairness — that a worker's step brings a job file nearer to its end, that a
   watcher which has claimed is never waiting for another.
2. `RuntimeCanary` over `ProjectRegistry`, which it asks whether a project is
   registered and active, instead of a registration that changes by itself.
3. The bounding of payloads, over lengths, against what GitHub accepts.
