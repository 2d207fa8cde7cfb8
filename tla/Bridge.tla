-------------------------------- MODULE Bridge --------------------------------
(***************************************************************************)
(* The HTTP bridge (server.py) and the local processes beside it, in one   *)
(* workspace: absorbs (ReadmeAbsorb) and constructs (PatchConstruct) run   *)
(* in threads of one bridge, each kind under its own lock, or in processes *)
(* of their own.  They meet in readme_state.json, which a construct loads  *)
(* without readme_lock, and in the bridge, whose end ends all its threads. *)
(***************************************************************************)
EXTENDS Naturals, FiniteSets

CONSTANTS Absorbs, Facts, Bundles, Calls, Tasks, Patches, Clash, MaxChecks,
    MaxRequests     \* bound: absorbs and constructs asked for in all

ASSUME BundlesAssumption == Bundles \subseteq SUBSET Facts

ASSUME MaxChecksAssumption == MaxChecks \in Nat

VARIABLES
    memory, page, readme_lock, apc, ask, draft, aodd,
    tree, owner, construct_lock, cpc, call, passed, status, base, starts, codd

absorbing == <<memory, page, readme_lock, apc, ask, draft, aodd>>
constructing == <<tree, owner, construct_lock, cpc, call, passed, status,
                  base, starts, codd>>
vars == <<absorbing, constructing>>

A == INSTANCE ReadmeAbsorb WITH lock <- readme_lock, pc <- apc, odd <- aodd

C == INSTANCE PatchConstruct WITH
    readable <- memory.is \in {"absent", "whole"},
    lock <- construct_lock, pc <- cpc, odd <- codd

TypeOK == A!TypeOK /\ C!TypeOK

Init == A!Init /\ C!Init

Asked == Cardinality({a \in Absorbs : apc[a] # "new"})
            + Cardinality({c \in Calls : cpc[c] # "new"})

Bounded == Asked' <= MaxRequests

AbsorbStep(a) == A!Step(a) /\ UNCHANGED constructing /\ Bounded

ConstructStep(c) == UNCHANGED absorbing /\ C!Step(c) /\ Bounded

Edit(p) == UNCHANGED absorbing /\ C!Edit(p)

Orphan(c) == UNCHANGED absorbing /\ C!Orphan(c)

BridgeDies == A!Kill(A!Victims("bridge")) /\ C!Kill(C!Victims("bridge"))

LocalDies ==
    \/ \E a \in A!Victims("local") : A!Kill({a}) /\ UNCHANGED constructing
    \/ \E c \in C!Victims("local") : UNCHANGED absorbing /\ C!Kill({c})

Next ==
    \/ \E a \in Absorbs : AbsorbStep(a)
    \/ \E c \in Calls : ConstructStep(c) \/ Orphan(c)
    \/ \E p \in Patches : Edit(p)
    \/ BridgeDies
    \/ LocalDies

Spec == Init /\ [][Next]_vars

-----------------------------------------------------------------------------
(* Properties. *)

\* What an answered absorb brought is kept, and the memory stays readable, whatever
\* the bridge's threads of either kind do, unless a write of the memory fails.
AbsorbedIsKept == A!AbsorbedIsKept

\* README.generated.md shows at least what the requests that wrote it brought.
PageShowsWhatWasTold == A!PageShowsWhatWasTold

\* Checks see the tree the patch was tried against plus the patch, as long as nothing
\* but the bridge's calls touched it.
ValidatedAsApplied == C!ValidatedAsApplied

\* Under the same condition git apply starts on a tree its patch fits.
CheckedPatchFits == C!CheckedPatchFits

\* Constructs implement AtMostOnce, a task being a request.
RefinesAtMostOnce == C!RefinesAtMostOnce

\* README.md:384: a validation that does not get through is told as needs-review.
FailedValidationNeedsReview == C!FailedValidationNeedsReview

\* A lock is held only by a thread that is still on its way to giving it back, so
\* that no way out of a handler, and no end of the bridge, stops the others.
LocksAreReturned ==
    /\ \A a \in readme_lock : A!Running(a) /\ apc[a] # "lock"
    /\ \A c \in construct_lock : C!Running(c) /\ cpc[c] # "lock"
===============================================================================
