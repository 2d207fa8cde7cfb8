-------------------------------- MODULE Service --------------------------------
(***************************************************************************)
(* The routes of the HTTP bridge that keep nothing of their own,           *)
(* /v1/execute and /v1/intent/execute, and the local processes beside it:  *)
(* commands and read-only capabilities (Execution) and the Blender         *)
(* capabilities (Certificate) in threads of one bridge, whose end ends     *)
(* them all, or in processes of their own.                                 *)
(***************************************************************************)
EXTENDS Naturals, FiniteSets

CONSTANTS Calls, Commands, MaxCuts, Numbers, Certifiers, Dirs, None,
    MaxRequests     \* bound: requests of either kind in all

VARIABLES
    epc, ask, cmd, outcome, ledger, unended, descriptor, fd, theirs, cuts, failed,
    desktop, renders, certificate, checksum, cpc, job, blender, hashes, sum,
    users, disturbed

executing == <<epc, ask, cmd, outcome, ledger, unended, descriptor, fd, theirs,
               cuts, failed>>
certifying == <<desktop, renders, certificate, checksum, cpc, job, blender,
                hashes, sum, users, disturbed>>
vars == <<executing, certifying>>

E == INSTANCE Execution WITH pc <- epc

C == INSTANCE Certificate WITH pc <- cpc

ASSUME CommandsAssumption == Commands \subseteq E!Command

ASSUME MaxCutsAssumption == MaxCuts \in Nat

TypeOK == E!TypeOK /\ C!TypeOK

Init == E!Init /\ C!Init

Asked == Cardinality({c \in Calls : epc[c] # "new"})
            + Cardinality({c \in Certifiers : cpc[c] # "new"})

Bounded == Asked' <= MaxRequests

Execute(c) == E!Step(c) /\ UNCHANGED certifying /\ Bounded

Certify(c) == UNCHANGED executing /\ C!Step(c) /\ Bounded

\* The other threads of the bridge open and close files.
Elsewhere == E!Elsewhere /\ UNCHANGED certifying

\* The bridge ends, with the threads of all its requests.
BridgeDies == E!BridgeDies /\ C!Kill(C!Victims("bridge"))

LocalDies ==
    \/ \E c \in Calls : E!LocalDies(c) /\ UNCHANGED certifying
    \/ \E c \in C!Victims("local") : UNCHANGED executing /\ C!Kill({c})

Next ==
    \/ \E c \in Calls : Execute(c)
    \/ \E c \in Certifiers : Certify(c)
    \/ Elsewhere
    \/ BridgeDies
    \/ LocalDies

Spec == Init /\ [][Next]_vars

-----------------------------------------------------------------------------
(* Properties. *)

\* Only what the policy allows is started, and what may do more than read only with
\* the approval its door asks for.
Sanctioned == E!Sanctioned

\* No line of the ledger misreports a command, and a call has at most one.
LedgerTellsTrue == E!LedgerTellsTrue

\* Unless an append of the bridge failed, what a caller was told of a command is on
\* record, but for one call for each line a full disk cut short.
AnsweredIsOnRecord == E!AnsweredIsOnRecord

\* A certificate told stands until its directory is written into again.
CertificateStands == C!CertificateStands
===============================================================================
