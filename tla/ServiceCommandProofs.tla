------------------------ MODULE ServiceCommandProofs ------------------------
(***************************************************************************)
(* What holds of the commands of Service, for every set of calls, commands *)
(* and descriptors.                                                        *)
(*                                                                         *)
(* CommandInv ties a command to its request, OutcomeInv its outcome to the *)
(* step and to the policy, LedgerInv the lines of the ledger to the calls  *)
(* that have passed their append.                                          *)
(***************************************************************************)
EXTENDS Service, SequenceTheorems, FiniteSetTheorems, TLAPS

Idle == E!Ended \cup {"new"}

\* A command under way is the one its request asks for.
CommandInv == \A c \in Calls :
    /\ epc[c] \notin Idle => cmd[c] # E!NoCommand
    /\ epc[c] = "new" => cmd[c] = E!NoCommand
    /\ epc[c] = "resolve" => ask[c].door = "capability"
    /\ cmd[c] # E!NoCommand =>
          /\ ask[c] \in E!Requests /\ ~E!Forbidden(ask[c])
          /\ IF ask[c].door = "capability" THEN cmd[c] \in E!Reads
             ELSE cmd[c] = [ask[c].command EXCEPT !.approved = E!Approved(ask[c])]

\* The outcome follows the step; what is started was allowed.
OutcomeInv == \A c \in Calls :
    /\ epc[c] \in {"new", "resolve", "decide", "start"} => outcome[c] = "none"
    /\ epc[c] = "run" => outcome[c] = "running"
    /\ epc[c] \in {"record", "append"} => outcome[c] \in E!Results \cup {"none"}
    /\ epc[c] \in {"start", "run"} \/ outcome[c] # "none" =>
          cmd[c] # E!NoCommand /\ E!Allowed(cmd[c])

Readable(l) == l.event # "unreadable"

\* A line is of a call that has passed its append, and the only one of it.
LedgerInv ==
    /\ \A i \in 1 .. Len(ledger) : Readable(ledger[i]) =>
          /\ epc[ledger[i].call] \in E!Ended \cup {"close"}
          /\ ledger[i].event = "result" => outcome[ledger[i].call] = ledger[i].outcome
          /\ ledger[i].event = "denied" => outcome[ledger[i].call] = "none"
    /\ \A i, j \in 1 .. Len(ledger) :
          Readable(ledger[i]) /\ Readable(ledger[j])
            /\ ledger[i].call = ledger[j].call => i = j

-----------------------------------------------------------------------------
\* Splits a step into the actions on commands, so that every proof can cite it.
LEMMA StepCases ==
    ASSUME [Next]_vars,
           NEW P,
           ASSUME NEW c \in Calls, NEW r \in E!Requests, E!Ask(c, r) PROVE P,
           ASSUME NEW c \in Calls, E!Resolve(c) PROVE P,
           ASSUME NEW c \in Calls, E!Decided(c) PROVE P,
           ASSUME NEW c \in Calls, E!Start(c) PROVE P,
           ASSUME NEW c \in Calls, E!End(c) PROVE P,
           ASSUME NEW c \in Calls, E!Open(c) PROVE P,
           ASSUME NEW c \in Calls, E!Answer(c) PROVE P,
           ASSUME NEW c \in Calls, E!Fail(c) PROVE P,
           ASSUME NEW c \in Calls, E!CloseAgain(c) PROVE P,
           ASSUME NEW n \in Numbers, E!OpenElsewhere(n) PROVE P,
           ASSUME NEW n \in Numbers, E!CloseElsewhere(n) PROVE P,
           ASSUME E!BridgeDies PROVE P,
           ASSUME NEW c \in Calls, E!LocalDies(c) PROVE P,
           ASSUME UNCHANGED executing PROVE P
    PROVE  P
    BY DEF Next, vars, Execute, Certify, Elsewhere, BridgeDies, LocalDies, E!Step,
           E!Elsewhere

\* An outcome is set while the program runs; the policy comes before.
LEMMA OutcomeStep ==
    ASSUME E!TypeOK, CommandInv, OutcomeInv, [Next]_vars
    PROVE  OutcomeInv'
<1>1. ASSUME NEW c \in Calls, NEW r \in E!Requests, E!Ask(c, r) PROVE OutcomeInv'
  BY <1>1 DEF E!Ask, E!GoTo, E!TypeOK, OutcomeInv, CommandInv, Idle, E!Ended, E!Steps,
       E!Results
<1>2. ASSUME NEW c \in Calls, E!Resolve(c) PROVE OutcomeInv'
  BY <1>2 DEF E!Resolve, E!GoTo, E!TypeOK, OutcomeInv, CommandInv, Idle, E!Ended,
       E!Steps,
       E!Results
<1>3. ASSUME NEW c \in Calls, E!Decided(c) PROVE OutcomeInv'
  BY <1>3 DEF E!Decided, E!GoTo, E!TypeOK, OutcomeInv, CommandInv, Idle, E!Ended,
       E!Steps,
       E!Results
<1>4. ASSUME NEW c \in Calls, E!Start(c) PROVE OutcomeInv'
  BY <1>4 DEF E!Start, E!GoTo, E!TypeOK, OutcomeInv, CommandInv, Idle, E!Ended, E!Steps,
       E!Results
<1>5. ASSUME NEW c \in Calls, E!End(c) PROVE OutcomeInv'
  BY <1>5 DEF E!End, E!GoTo, E!TypeOK, OutcomeInv, CommandInv, Idle, E!Ended, E!Steps,
       E!Results
<1>6. ASSUME NEW c \in Calls, E!Open(c) PROVE OutcomeInv'
  BY <1>6 DEF E!Open, E!GoTo, E!InBridge, E!TypeOK, OutcomeInv, CommandInv, Idle,
       E!Ended,
       E!Steps, E!Results
<1>7. ASSUME NEW c \in Calls, E!Answer(c) PROVE OutcomeInv'
  BY <1>7 DEF E!Answer, E!GoTo, E!Closes, E!Denotes, E!InBridge, E!TypeOK, OutcomeInv,
       CommandInv, Idle, E!Ended, E!Steps, E!Results
<1>8. ASSUME NEW c \in Calls, E!Fail(c) PROVE OutcomeInv'
  BY <1>8 DEF E!Fail, E!GoTo, E!Closes, E!Denotes, E!InBridge, E!TypeOK, OutcomeInv,
       CommandInv, Idle, E!Ended, E!Steps, E!Results
<1>9. ASSUME NEW c \in Calls, E!CloseAgain(c) PROVE OutcomeInv'
  BY <1>9 DEF E!CloseAgain, E!GoTo, E!Closes, E!InBridge, E!TypeOK, OutcomeInv,
       CommandInv, Idle, E!Ended, E!Steps, E!Results
<1>10. ASSUME NEW n \in Numbers, E!OpenElsewhere(n) PROVE OutcomeInv'
  BY <1>10 DEF E!OpenElsewhere, E!GoTo, E!TypeOK, OutcomeInv, CommandInv, Idle, E!Ended,
       E!Steps, E!Results
<1>11. ASSUME NEW n \in Numbers, E!CloseElsewhere(n) PROVE OutcomeInv'
  BY <1>11 DEF E!CloseElsewhere, E!GoTo, E!TypeOK, OutcomeInv, CommandInv, Idle,
       E!Ended,
       E!Steps, E!Results
<1>12. ASSUME E!BridgeDies PROVE OutcomeInv'
  BY <1>12 DEF E!BridgeDies, E!GoTo, E!Kill, E!Victims, E!Running, E!TypeOK, OutcomeInv,
       CommandInv, Idle, E!Ended, E!Steps, E!Results
<1>13. ASSUME NEW c \in Calls, E!LocalDies(c) PROVE OutcomeInv'
  BY <1>13 DEF E!LocalDies, E!GoTo, E!Kill, E!Victims, E!Running, E!TypeOK, OutcomeInv,
       CommandInv, Idle, E!Ended, E!Steps, E!Results
<1>14. ASSUME UNCHANGED executing PROVE OutcomeInv'
  BY <1>14 DEF executing, E!TypeOK, OutcomeInv, CommandInv, Idle, E!Ended, E!Steps,
       E!Results
<1>. QED
  BY <1>1, <1>2, <1>3, <1>4, <1>5, <1>6, <1>7, <1>8, <1>9, <1>10, <1>11, <1>12, <1>13,
       <1>14, StepCases

\* A command is set when it is asked for, and stays.
LEMMA CommandStep ==
    ASSUME E!TypeOK, CommandInv, [Next]_vars
    PROVE  CommandInv'
<1>1. ASSUME NEW c \in Calls, NEW r \in E!Requests, E!Ask(c, r) PROVE CommandInv'
  <2>1. r.door # "capability" =>
          [r.command EXCEPT !.approved = E!Approved(r)].program \in E!Programs
    BY CommandsAssumption DEF E!Requests, E!Command
  <2>2. /\ \A k \in E!Reads : k.program # "none"
        /\ "none" \notin E!Programs /\ E!NoCommand.program = "none"
    BY DEF E!Reads, E!Capability, E!Programs, E!NoCommand
  <2>3. /\ epc[c] = "new" /\ ask' = [ask EXCEPT ![c] = r]
        /\ \/ E!Forbidden(r) /\ epc' = [epc EXCEPT ![c] = "refused"] /\ cmd' = cmd
           \/ /\ ~E!Forbidden(r) /\ epc'[c] \in {"resolve", "decide"}
              /\ epc'[c] = "resolve" => r.door = "capability"
              /\ epc' = [epc EXCEPT ![c] = epc'[c]]
              /\ \E k : /\ cmd' = [cmd EXCEPT ![c] = k] /\ k # E!NoCommand
                       /\ IF r.door = "capability" THEN k \in E!Reads
                          ELSE k = [r.command EXCEPT !.approved = E!Approved(r)]
    BY <1>1, <2>1, <2>2 DEF E!Ask, E!GoTo, E!TypeOK
  <2>4. CASE E!Forbidden(r)
    BY <2>3, <2>4 DEF E!TypeOK, CommandInv, Idle, E!Ended, E!Steps
  <2>5. CASE ~E!Forbidden(r)
    <3>1. PICK k : /\ cmd' = [cmd EXCEPT ![c] = k] /\ k # E!NoCommand
                   /\ IF r.door = "capability" THEN k \in E!Reads
                      ELSE k = [r.command EXCEPT !.approved = E!Approved(r)]
      BY <2>3, <2>5
    <3>2. cmd'[c] = k /\ ask'[c] = r /\ epc'[c] # "new"
      BY <2>3, <2>5, <3>1 DEF E!TypeOK
    <3>3. \A d \in Calls \ {c} : cmd'[d] = cmd[d] /\ ask'[d] = ask[d] /\ epc'[d] = epc[d]
      BY <2>3, <2>5, <3>1 DEF E!TypeOK
    <3>. QED
      BY <2>3, <2>5, <3>1, <3>2, <3>3 DEF CommandInv, Idle, E!Ended
  <2>. QED
    BY <2>4, <2>5
<1>2. ASSUME NEW c \in Calls, E!Resolve(c) PROVE CommandInv'
  BY <1>2 DEF E!Resolve, E!GoTo, E!TypeOK, CommandInv, Idle, E!Ended, E!Steps
<1>3. ASSUME NEW c \in Calls, E!Decided(c) PROVE CommandInv'
  BY <1>3 DEF E!Decided, E!GoTo, E!TypeOK, CommandInv, Idle, E!Ended, E!Steps
<1>4. ASSUME NEW c \in Calls, E!Start(c) PROVE CommandInv'
  BY <1>4 DEF E!Start, E!GoTo, E!TypeOK, CommandInv, Idle, E!Ended, E!Steps
<1>5. ASSUME NEW c \in Calls, E!End(c) PROVE CommandInv'
  BY <1>5 DEF E!End, E!GoTo, E!TypeOK, CommandInv, Idle, E!Ended, E!Steps
<1>6. ASSUME NEW c \in Calls, E!Open(c) PROVE CommandInv'
  BY <1>6 DEF E!Open, E!GoTo, E!InBridge, E!TypeOK, CommandInv, Idle, E!Ended, E!Steps
<1>7. ASSUME NEW c \in Calls, E!Answer(c) PROVE CommandInv'
  BY <1>7 DEF E!Answer, E!GoTo, E!Closes, E!Denotes, E!InBridge, E!TypeOK, CommandInv,
       Idle, E!Ended, E!Steps
<1>8. ASSUME NEW c \in Calls, E!Fail(c) PROVE CommandInv'
  BY <1>8 DEF E!Fail, E!GoTo, E!Closes, E!Denotes, E!InBridge, E!TypeOK, CommandInv,
       Idle,
       E!Ended, E!Steps
<1>9. ASSUME NEW c \in Calls, E!CloseAgain(c) PROVE CommandInv'
  BY <1>9 DEF E!CloseAgain, E!GoTo, E!Closes, E!InBridge, E!TypeOK, CommandInv, Idle,
       E!Ended, E!Steps
<1>10. ASSUME NEW n \in Numbers, E!OpenElsewhere(n) PROVE CommandInv'
  BY <1>10 DEF E!OpenElsewhere, E!GoTo, E!TypeOK, CommandInv, Idle, E!Ended, E!Steps
<1>11. ASSUME NEW n \in Numbers, E!CloseElsewhere(n) PROVE CommandInv'
  BY <1>11 DEF E!CloseElsewhere, E!GoTo, E!TypeOK, CommandInv, Idle, E!Ended, E!Steps
<1>12. ASSUME E!BridgeDies PROVE CommandInv'
  BY <1>12 DEF E!BridgeDies, E!GoTo, E!Kill, E!Victims, E!Running, E!TypeOK, CommandInv,
       Idle, E!Ended, E!Steps
<1>13. ASSUME NEW c \in Calls, E!LocalDies(c) PROVE CommandInv'
  BY <1>13 DEF E!LocalDies, E!GoTo, E!Kill, E!Victims, E!Running, E!TypeOK, CommandInv,
       Idle, E!Ended, E!Steps
<1>14. ASSUME UNCHANGED executing PROVE CommandInv'
  BY <1>14 DEF executing, E!TypeOK, CommandInv, Idle, E!Ended, E!Steps
<1>. QED
  BY <1>1, <1>2, <1>3, <1>4, <1>5, <1>6, <1>7, <1>8, <1>9, <1>10, <1>11, <1>12, <1>13,
       <1>14, StepCases

\* What an append does to the file.
LEMMA FileTyped ==
    ASSUME E!TypeOK, OutcomeInv, NEW c \in Calls, epc[c] = "append",
           \/ UNCHANGED <<ledger, unended, cuts>>
           \/ E!Cut
           \/ E!Written(E!LineOf(c))
    PROVE  /\ ledger' \in Seq(E!Line) /\ unended' \in BOOLEAN /\ cuts' \in 0 .. MaxCuts
<1>1. E!LineOf(c) \in E!Line /\ E!Unreadable \in E!Line
  BY DEF E!LineOf, E!Line, E!Unreadable, OutcomeInv, E!Results
<1>2. ledger \in Seq(E!Line) /\ unended \in BOOLEAN /\ cuts \in 0 .. MaxCuts
  BY DEF E!TypeOK
<1>3. ASSUME NEW l \in E!Line PROVE Append(ledger, l) \in Seq(E!Line)
  BY <1>2, AppendProperties
<1>4. CASE UNCHANGED <<ledger, unended, cuts>>
  BY <1>2, <1>4
<1>5. CASE E!Cut
  <2>1. cuts + 1 \in 0 .. MaxCuts
    BY <1>2, <1>5, MaxCutsAssumption DEF E!Cut
  <2>. QED
    BY <1>1, <1>2, <1>3, <1>5, <2>1 DEF E!Cut
<1>6. CASE E!Written(E!LineOf(c))
  BY <1>1, <1>2, <1>3, <1>6 DEF E!Written
<1>. QED
  BY <1>4, <1>5, <1>6

\* Every variable of the commands stays in its set.
LEMMA TypeStep ==
    ASSUME E!TypeOK, OutcomeInv, [Next]_vars
    PROVE  E!TypeOK'
<1>1. ASSUME NEW c \in Calls, NEW r \in E!Requests, E!Ask(c, r) PROVE E!TypeOK'
  <2>1. cmd' \in [Calls -> E!Command \cup {E!NoCommand}]
    <3>1. E!Reads \subseteq E!Command
      BY DEF E!Reads, E!Capability, E!Command, E!Programs, E!Subcommands
    <3>2. ~E!Forbidden(r) /\ r.door # "capability" =>
             [r.command EXCEPT !.approved = E!Approved(r)] \in E!Command
      BY CommandsAssumption DEF E!Requests, E!Command, E!Approved
    <3>. QED
      BY <1>1, <3>1, <3>2 DEF E!Ask, E!TypeOK
  <2>. QED
    BY <1>1, <2>1 DEF E!Ask, E!GoTo, E!TypeOK, E!Steps, E!Ended, E!file, E!table
<1>2. ASSUME NEW c \in Calls, E!Resolve(c) PROVE E!TypeOK'
  BY <1>2 DEF E!Resolve, E!GoTo, E!file, E!table, E!TypeOK, E!Steps, E!Ended,
       E!Outcomes,
       E!Results
<1>3. ASSUME NEW c \in Calls, E!Decided(c) PROVE E!TypeOK'
  BY <1>3 DEF E!Decided, E!GoTo, E!file, E!table, E!TypeOK, E!Steps, E!Ended,
       E!Outcomes,
       E!Results
<1>4. ASSUME NEW c \in Calls, E!Start(c) PROVE E!TypeOK'
  BY <1>4 DEF E!Start, E!GoTo, E!file, E!table, E!TypeOK, E!Steps, E!Ended, E!Outcomes,
       E!Results
<1>5. ASSUME NEW c \in Calls, E!End(c) PROVE E!TypeOK'
  BY <1>5 DEF E!End, E!GoTo, E!file, E!table, E!TypeOK, E!Steps, E!Ended, E!Outcomes,
       E!Results
<1>6. ASSUME NEW c \in Calls, E!Open(c) PROVE E!TypeOK'
  BY <1>6 DEF E!Open, E!GoTo, E!InBridge, E!file, E!table, E!TypeOK, E!Steps, E!Ended,
       E!Outcomes, E!Results
<1>7. ASSUME NEW c \in Calls, E!Answer(c) PROVE E!TypeOK'
  <2>1. /\ ledger' \in Seq(E!Line) /\ unended' \in BOOLEAN /\ cuts' \in 0 .. MaxCuts
    BY <1>7, FileTyped DEF E!Answer, E!file, OutcomeInv, E!TypeOK
  <2>. QED
    BY <1>7, <2>1 DEF E!Answer, E!GoTo, E!Closes, E!TypeOK, E!Steps, E!Ended
<1>8. ASSUME NEW c \in Calls, E!Fail(c) PROVE E!TypeOK'
  <2>1. /\ ledger' \in Seq(E!Line) /\ unended' \in BOOLEAN /\ cuts' \in 0 .. MaxCuts
    BY <1>8, FileTyped DEF E!Fail, E!file, OutcomeInv, E!TypeOK
  <2>. QED
    BY <1>8, <2>1 DEF E!Fail, E!GoTo, E!Closes, E!TypeOK, E!Steps, E!Ended
<1>9. ASSUME NEW c \in Calls, E!CloseAgain(c) PROVE E!TypeOK'
  BY <1>9 DEF E!CloseAgain, E!GoTo, E!Closes, E!InBridge, E!file, E!table, E!TypeOK,
       E!Steps, E!Ended, E!Outcomes, E!Results
<1>10. ASSUME NEW n \in Numbers, E!OpenElsewhere(n) PROVE E!TypeOK'
  BY <1>10 DEF E!OpenElsewhere, E!GoTo, E!file, E!table, E!TypeOK, E!Steps, E!Ended,
       E!Outcomes, E!Results
<1>11. ASSUME NEW n \in Numbers, E!CloseElsewhere(n) PROVE E!TypeOK'
  BY <1>11 DEF E!CloseElsewhere, E!GoTo, E!file, E!table, E!TypeOK, E!Steps, E!Ended,
       E!Outcomes, E!Results
<1>12. ASSUME E!BridgeDies PROVE E!TypeOK'
  BY <1>12 DEF E!BridgeDies, E!GoTo, E!Kill, E!Victims, E!Running, E!file, E!table,
       E!TypeOK, E!Steps, E!Ended, E!Outcomes, E!Results
<1>13. ASSUME NEW c \in Calls, E!LocalDies(c) PROVE E!TypeOK'
  BY <1>13 DEF E!LocalDies, E!GoTo, E!Kill, E!Victims, E!Running, E!file, E!table,
       E!TypeOK, E!Steps, E!Ended, E!Outcomes, E!Results
<1>14. ASSUME UNCHANGED executing PROVE E!TypeOK'
  BY <1>14 DEF executing, E!TypeOK, E!Steps, E!Ended, E!Outcomes, E!Results
<1>. QED
  BY <1>1, <1>2, <1>3, <1>4, <1>5, <1>6, <1>7, <1>8, <1>9, <1>10, <1>11, <1>12, <1>13,
       <1>14, StepCases

\* The ledger is a sequence, and Append adds one line to its end.
LEMMA LedgerTyped ==
    ASSUME E!TypeOK
    PROVE  /\ Len(ledger) \in Nat
           /\ \A i \in 1 .. Len(ledger) : ledger[i] \in E!Line
           /\ \A i \in 1 .. Len(ledger) :
                 Readable(ledger[i]) => ledger[i].call \in Calls
<1>1. ledger \in Seq(E!Line)
  BY DEF E!TypeOK
<1>2. \A i \in 1 .. Len(ledger) : ledger[i] \in E!Line
  BY <1>1, ElementOfSeq
<1>. QED
  BY <1>1, <1>2, LenProperties DEF E!Line, Readable

\* A line appended leaves those before it as they are.
LEMMA AppendedLine ==
    ASSUME E!TypeOK, NEW l
    PROVE  /\ Len(Append(ledger, l)) = Len(ledger) + 1
           /\ \A i \in 1 .. Len(ledger) : Append(ledger, l)[i] = ledger[i]
           /\ Append(ledger, l)[Len(ledger) + 1] = l
<1>1. ledger \in Seq(E!Line \cup {l})
  BY DEF E!TypeOK
<1>. QED
  BY <1>1, AppendProperties

\* The line of a call at its append is its first.
LEMMA LineAdded ==
    ASSUME E!TypeOK, OutcomeInv, LedgerInv, NEW c \in Calls, epc[c] = "append",
           ledger' = Append(ledger, E!LineOf(c)), outcome' = outcome,
           NEW s \in E!Ended \cup {"close"}, epc' = [epc EXCEPT ![c] = s]
    PROVE  LedgerInv'
<1>1. /\ E!LineOf(c).call = c
      /\ E!LineOf(c).event = "result" => E!LineOf(c).outcome = outcome[c]
      /\ E!LineOf(c).event = "denied" => outcome[c] = "none"
  BY DEF E!LineOf
<1>2. \A i \in 1 .. Len(ledger) : Readable(ledger[i]) =>
          ledger[i].call \in Calls /\ ledger[i].call # c
  BY LedgerTyped DEF LedgerInv, E!Ended
<1>3. /\ Len(ledger) \in Nat /\ Len(ledger') = Len(ledger) + 1
      /\ \A i \in 1 .. Len(ledger) : ledger'[i] = ledger[i]
      /\ ledger'[Len(ledger) + 1] = E!LineOf(c)
  BY AppendedLine, LedgerTyped
<1>4. /\ epc'[c] \in E!Ended \cup {"close"}
      /\ \A d \in Calls : d # c => epc'[d] = epc[d]
  BY DEF E!TypeOK
<1>5. ASSUME NEW i \in 1 .. Len(ledger'), Readable(ledger'[i])
      PROVE  /\ epc'[ledger'[i].call] \in E!Ended \cup {"close"}
             /\ ledger'[i].event = "result" => outcome[ledger'[i].call] = ledger'[i].outcome
             /\ ledger'[i].event = "denied" => outcome[ledger'[i].call] = "none"
  <2>1. CASE i \in 1 .. Len(ledger)
    BY <1>2, <1>3, <1>4, <1>5, <2>1 DEF LedgerInv
  <2>2. CASE i = Len(ledger) + 1
    BY <1>1, <1>3, <1>4, <2>2
  <2>. QED
    BY <1>3, <2>1, <2>2
<1>6. ASSUME NEW i \in 1 .. Len(ledger'), NEW j \in 1 .. Len(ledger'),
             Readable(ledger'[i]), Readable(ledger'[j]),
             ledger'[i].call = ledger'[j].call
      PROVE  i = j
  <2>1. CASE i \in 1 .. Len(ledger) /\ j \in 1 .. Len(ledger)
    BY <1>3, <1>6, <2>1 DEF LedgerInv
  <2>2. CASE ~(i \in 1 .. Len(ledger) /\ j \in 1 .. Len(ledger))
    BY <1>1, <1>2, <1>3, <1>6, <2>2
  <2>. QED
    BY <2>1, <2>2
<1>. QED
  BY <1>5, <1>6 DEF LedgerInv

\* A line is added at a call's append only, and a call with a line has passed it.
LEMMA LedgerStep ==
    ASSUME E!TypeOK, OutcomeInv, LedgerInv, [Next]_vars
    PROVE  LedgerInv'
<1>1. ASSUME NEW c \in Calls, NEW r \in E!Requests, E!Ask(c, r) PROVE LedgerInv'
  BY <1>1, LedgerTyped DEF E!Ask, E!GoTo, E!file, Readable, E!TypeOK, LedgerInv,
       OutcomeInv, E!Ended, E!Steps
<1>2. ASSUME NEW c \in Calls, E!Resolve(c) PROVE LedgerInv'
  BY <1>2, LedgerTyped DEF E!Resolve, E!GoTo, E!file, Readable, E!TypeOK, LedgerInv,
       OutcomeInv, E!Ended, E!Steps
<1>3. ASSUME NEW c \in Calls, E!Decided(c) PROVE LedgerInv'
  BY <1>3, LedgerTyped DEF E!Decided, E!GoTo, E!file, Readable, E!TypeOK, LedgerInv,
       OutcomeInv, E!Ended, E!Steps
<1>4. ASSUME NEW c \in Calls, E!Start(c) PROVE LedgerInv'
  BY <1>4, LedgerTyped DEF E!Start, E!GoTo, E!file, Readable, E!TypeOK, LedgerInv,
       OutcomeInv, E!Ended, E!Steps
<1>5. ASSUME NEW c \in Calls, E!End(c) PROVE LedgerInv'
  BY <1>5, LedgerTyped DEF E!End, E!GoTo, E!file, Readable, E!TypeOK, LedgerInv,
       OutcomeInv, E!Ended, E!Steps
<1>6. ASSUME NEW c \in Calls, E!Open(c) PROVE LedgerInv'
  BY <1>6, LedgerTyped DEF E!Open, E!GoTo, E!InBridge, E!file, Readable, E!TypeOK,
       LedgerInv, OutcomeInv, E!Ended, E!Steps
<1>7. ASSUME NEW c \in Calls, E!Answer(c) PROVE LedgerInv'
  <2>1. LedgerInv'
    <3>1. CASE UNCHANGED ledger
      BY <1>7, <3>1, LedgerTyped DEF E!Answer, E!GoTo, E!TypeOK, LedgerInv, E!Ended,
           E!Steps, Readable
    <3>2. CASE ledger' = Append(ledger, E!Unreadable)
      BY <1>7, <3>2, LedgerTyped, AppendedLine DEF E!Answer, E!GoTo, E!TypeOK,
           LedgerInv,
           E!Ended, E!Steps, Readable,
        E!Unreadable
    <3>3. CASE ledger' = Append(ledger, E!LineOf(c))
      <4>1. PICK s \in E!Ended \cup {"close"} : epc' = [epc EXCEPT ![c] = s]
        BY <1>7 DEF E!Answer, E!GoTo, E!Ended
      <4>. QED
        BY <1>7, <3>3, <4>1, LineAdded DEF E!Answer
    <3>. QED
      BY <1>7, <3>1, <3>2, <3>3 DEF E!Answer, E!Written, E!Cut, E!file
  <2>. QED
    BY <2>1
<1>8. ASSUME NEW c \in Calls, E!Fail(c) PROVE LedgerInv'
  <2>1. LedgerInv'
    <3>1. CASE UNCHANGED ledger
      BY <1>8, <3>1, LedgerTyped DEF E!Fail, E!GoTo, E!TypeOK, LedgerInv, E!Ended,
           E!Steps, Readable
    <3>2. CASE ledger' = Append(ledger, E!Unreadable)
      BY <1>8, <3>2, LedgerTyped, AppendedLine DEF E!Fail, E!GoTo, E!TypeOK, LedgerInv,
           E!Ended, E!Steps, Readable,
        E!Unreadable
    <3>3. CASE ledger' = Append(ledger, E!LineOf(c))
      <4>1. PICK s \in E!Ended \cup {"close"} : epc' = [epc EXCEPT ![c] = s]
        BY <1>8 DEF E!Fail, E!GoTo, E!Ended
      <4>. QED
        BY <1>8, <3>3, <4>1, LineAdded DEF E!Fail
    <3>. QED
      BY <1>8, <3>1, <3>2, <3>3 DEF E!Fail, E!Written, E!Cut, E!file
  <2>. QED
    BY <2>1
<1>9. ASSUME NEW c \in Calls, E!CloseAgain(c) PROVE LedgerInv'
  BY <1>9, LedgerTyped DEF E!CloseAgain, E!GoTo, E!Closes, E!InBridge, E!file, Readable,
       E!TypeOK, LedgerInv, OutcomeInv, E!Ended, E!Steps
<1>10. ASSUME NEW n \in Numbers, E!OpenElsewhere(n) PROVE LedgerInv'
  BY <1>10, LedgerTyped DEF E!OpenElsewhere, E!GoTo, E!file, Readable, E!TypeOK,
       LedgerInv, OutcomeInv, E!Ended, E!Steps
<1>11. ASSUME NEW n \in Numbers, E!CloseElsewhere(n) PROVE LedgerInv'
  BY <1>11, LedgerTyped DEF E!CloseElsewhere, E!GoTo, E!file, Readable, E!TypeOK,
       LedgerInv, OutcomeInv, E!Ended, E!Steps
<1>12. ASSUME E!BridgeDies PROVE LedgerInv'
  BY <1>12, LedgerTyped DEF E!BridgeDies, E!GoTo, E!Kill, E!Victims, E!Running, E!file,
       Readable, E!TypeOK, LedgerInv, OutcomeInv, E!Ended, E!Steps
<1>13. ASSUME NEW c \in Calls, E!LocalDies(c) PROVE LedgerInv'
  BY <1>13, LedgerTyped DEF E!LocalDies, E!GoTo, E!Kill, E!Victims, E!Running, E!file,
       Readable, E!TypeOK, LedgerInv, OutcomeInv, E!Ended, E!Steps
<1>14. ASSUME UNCHANGED executing PROVE LedgerInv'
  BY <1>14, LedgerTyped DEF executing, E!TypeOK, LedgerInv, OutcomeInv, E!Ended, E!Steps
<1>. QED
  BY <1>1, <1>2, <1>3, <1>4, <1>5, <1>6, <1>7, <1>8, <1>9, <1>10, <1>11, <1>12, <1>13,
       <1>14, StepCases

-----------------------------------------------------------------------------
\* The inductive invariant of the commands.
IInv == E!TypeOK /\ CommandInv /\ OutcomeInv /\ LedgerInv

\* Nothing has been asked for yet and the ledger is empty.
LEMMA InitIInv == Init => IInv
<1>. SUFFICES ASSUME E!Init PROVE IInv
  BY DEF Init
<1>1. E!TypeOK
  <2>1. ledger \in Seq(E!Line)
    BY DEF E!Init
  <2>2. cuts \in 0 .. MaxCuts
    BY MaxCutsAssumption DEF E!Init
  <2>. QED
    BY <2>1, <2>2 DEF E!Init, E!TypeOK, E!Steps, E!Outcomes
<1>2. CommandInv /\ OutcomeInv
  BY DEF E!Init, CommandInv, OutcomeInv, Idle
<1>3. LedgerInv
  <2>1. ledger = <<>> /\ Len(ledger) = 0
    BY DEF E!Init
  <2>. QED
    BY <2>1 DEF LedgerInv
<1>. QED
  BY <1>1, <1>2, <1>3 DEF IInv

\* Whatever the commands, the calls and the descriptors, the invariant always holds.
THEOREM CommandInvariance == Spec => []IInv
<1>1. IInv /\ [Next]_vars => IInv'
  BY TypeStep, CommandStep, OutcomeStep, LedgerStep DEF IInv
<1>. QED
  BY <1>1, InitIInv, PTL DEF Spec

\* Every program the executor starts is one the policy allows, by the approval its
\* door asks for: decide (policy.py) is not passed by any way to the executor.
THEOREM SanctionedRuns == Spec => []Sanctioned
<1>1. ASSUME IInv PROVE Sanctioned
  <2>. SUFFICES ASSUME NEW c \in Calls, outcome[c] # "none"
               PROVE  /\ cmd[c].program # "denied" /\ cmd[c].cwd /\ cmd[c].timely
                      /\ \/ E!Harmless(cmd[c])
                         \/ ask[c].door \in {"http", "local"} /\ ask[c].claims
                         \/ ask[c].door = "xarvis" /\ ask[c].granted /\ ~ask[c].claims
    BY DEF Sanctioned, E!Sanctioned, E!Started
  <2>1. cmd[c] # E!NoCommand /\ E!Allowed(cmd[c]) /\ ask[c] \in E!Requests
        /\ ~E!Forbidden(ask[c])
    BY <1>1 DEF IInv, OutcomeInv, CommandInv
  <2>2. /\ cmd[c].program # "denied" /\ cmd[c].cwd /\ cmd[c].timely
        /\ E!LowRead(cmd[c]) \/ E!LowGit(cmd[c]) \/ cmd[c].approved
    BY <2>1 DEF E!Allowed, E!Risk
  <2>3. CASE E!LowRead(cmd[c]) \/ E!LowGit(cmd[c])
    BY <2>2, <2>3 DEF E!LowRead, E!LowGit, E!Harmless
  <2>4. CASE cmd[c].approved
    <3>1. ask[c].door # "capability"
      <4>1. \A k \in E!Reads : k.approved = FALSE
        BY DEF E!Reads, E!Capability
      <4>. QED
        BY <1>1, <2>1, <2>4, <4>1 DEF IInv, CommandInv
    <3>2. cmd[c] = [ask[c].command EXCEPT !.approved = E!Approved(ask[c])]
          /\ ask[c].command \in E!Command
      BY <1>1, <2>1, <3>1, CommandsAssumption DEF IInv, CommandInv, E!Requests
    <3>3. E!Approved(ask[c])
      BY <2>4, <3>2 DEF E!Command
    <3>. QED
      BY <2>1, <2>2, <3>1, <3>3 DEF E!Approved, E!Forbidden, E!Requests
  <2>. QED
    BY <2>2, <2>3, <2>4
<1>. QED
  BY <1>1, CommandInvariance, PTL

\* However many processes and threads append to the ledger, cut lines short and close
\* each other's descriptors, no line of audit.jsonl misreports a command.
THEOREM TrueLedger == Spec => []LedgerTellsTrue
<1>1. ASSUME IInv PROVE LedgerTellsTrue
  <2>1. ASSUME NEW l \in E!Lines
        PROVE  /\ l.event = "result" => outcome[l.call] = l.outcome
               /\ l.event = "denied" => ~E!Started(l.call)
    BY <1>1 DEF IInv, LedgerInv, Readable, E!Lines, E!Started
  <2>. QED
    BY <1>1, <2>1 DEF IInv, LedgerInv, Readable, LedgerTellsTrue, E!LedgerTellsTrue
<1>. QED
  BY <1>1, CommandInvariance, PTL

-----------------------------------------------------------------------------
(* That what was answered is on record takes more: who holds which descriptor, and *)
(* how many lines the cuts have cost so far.                                       *)

\* Until an append of the bridge fails, each has a number of its own, which denotes the
\* ledger and no other thread holds.
NumberInv == ~failed =>
    /\ \A c \in Calls : epc[c] # "close"
    /\ \A c \in Calls : epc[c] = "append" /\ E!InBridge(c) =>
          fd[c] \in Numbers /\ descriptor[fd[c]] = "ledger"
    /\ \A c, d \in Calls :
          /\ epc[c] = "append" /\ E!InBridge(c)
          /\ epc[d] = "append" /\ E!InBridge(d)
          /\ fd[c] = fd[d]
          => c = d
    /\ \A n \in theirs : descriptor[n] = "other"

\* The calls that were answered, and whose line cannot be read.
Lost == {c \in Calls : E!Answered(c) /\ ~E!OnRecord(c)}

\* A cut costs the call none, since its own caller is told of an error, but it costs
\* the next one that writes its line, as long as the line cut short has no end.
CountInv == ~failed =>
    /\ IsFiniteSet(Lost)
    /\ Cardinality(Lost) + (IF unended THEN 1 ELSE 0) <= cuts

\* An append takes a number that is free and gives up its own; only one that fails
\* closes what is not its own any more.
LEMMA NumberStep ==
    ASSUME E!TypeOK, NumberInv, [Next]_vars
    PROVE  NumberInv'
<1>1. ASSUME NEW c \in Calls, NEW r \in E!Requests, E!Ask(c, r) PROVE NumberInv'
  BY <1>1 DEF E!Ask, E!GoTo, E!file, E!table, E!Requests, E!InBridge, NumberInv,
       E!TypeOK
<1>2. ASSUME NEW c \in Calls, E!Resolve(c) PROVE NumberInv'
  BY <1>2 DEF E!Resolve, E!GoTo, E!file, E!table, E!InBridge, NumberInv, E!TypeOK
<1>3. ASSUME NEW c \in Calls, E!Decided(c) PROVE NumberInv'
  BY <1>3 DEF E!Decided, E!GoTo, E!file, E!table, E!InBridge, NumberInv, E!TypeOK
<1>4. ASSUME NEW c \in Calls, E!Start(c) PROVE NumberInv'
  BY <1>4 DEF E!Start, E!GoTo, E!file, E!table, E!InBridge, NumberInv, E!TypeOK
<1>5. ASSUME NEW c \in Calls, E!End(c) PROVE NumberInv'
  BY <1>5 DEF E!End, E!GoTo, E!file, E!table, E!InBridge, NumberInv, E!TypeOK
<1>6. ASSUME NEW c \in Calls, E!Open(c) PROVE NumberInv'
  BY <1>6 DEF E!Open, E!GoTo, E!file, E!InBridge, NumberInv, E!TypeOK
<1>7. ASSUME NEW c \in Calls, E!Answer(c) PROVE NumberInv'
  BY <1>7 DEF E!Answer, E!GoTo, E!Closes, E!file, E!InBridge, NumberInv, E!TypeOK
<1>8. ASSUME NEW c \in Calls, E!Fail(c) PROVE NumberInv'
  BY <1>8 DEF E!Fail, E!GoTo, E!Closes, E!file, E!InBridge, NumberInv, E!TypeOK
<1>9. ASSUME NEW c \in Calls, E!CloseAgain(c) PROVE NumberInv'
  BY <1>9 DEF E!CloseAgain, E!GoTo, E!Closes, E!file, E!InBridge, NumberInv, E!TypeOK
<1>10. ASSUME NEW n \in Numbers, E!OpenElsewhere(n) PROVE NumberInv'
  BY <1>10 DEF E!OpenElsewhere, E!file, E!InBridge, NumberInv, E!TypeOK
<1>11. ASSUME NEW n \in Numbers, E!CloseElsewhere(n) PROVE NumberInv'
  BY <1>11 DEF E!CloseElsewhere, E!file, E!InBridge, NumberInv, E!TypeOK
<1>12. ASSUME E!BridgeDies PROVE NumberInv'
  BY <1>12 DEF E!BridgeDies, E!Kill, E!Victims, E!Running, E!Ended, E!file, E!InBridge,
       NumberInv, E!TypeOK
<1>13. ASSUME NEW c \in Calls, E!LocalDies(c) PROVE NumberInv'
  BY <1>13 DEF E!LocalDies, E!Kill, E!Victims, E!Running, E!Ended, E!file, E!InBridge,
       NumberInv, E!TypeOK
<1>14. ASSUME UNCHANGED executing PROVE NumberInv'
  BY <1>14 DEF executing, E!file, E!table, E!InBridge, NumberInv, E!TypeOK
<1>. QED
  BY <1>1, <1>2, <1>3, <1>4, <1>5, <1>6, <1>7, <1>8, <1>9, <1>10, <1>11, <1>12, <1>13,
       <1>14, StepCases

\* What happens to the file in a step: nothing, a cut, or a whole line.
LEMMA FileStep ==
    ASSUME [Next]_vars
    PROVE  \/ UNCHANGED <<ledger, unended, cuts>>
           \/ E!Cut
           \/ \E c \in Calls : E!Written(E!LineOf(c))
<1>. DEFINE Goal == \/ UNCHANGED <<ledger, unended, cuts>>
                    \/ E!Cut
                    \/ \E e \in Calls : E!Written(E!LineOf(e))
<1>1. ASSUME NEW c \in Calls, NEW r \in E!Requests, E!Ask(c, r) PROVE Goal
  BY <1>1 DEF E!Ask, E!file
<1>2. ASSUME NEW c \in Calls, E!Resolve(c) PROVE Goal
  BY <1>2 DEF E!Resolve, E!file
<1>3. ASSUME NEW c \in Calls, E!Decided(c) PROVE Goal
  BY <1>3 DEF E!Decided, E!file
<1>4. ASSUME NEW c \in Calls, E!Start(c) PROVE Goal
  BY <1>4 DEF E!Start, E!file
<1>5. ASSUME NEW c \in Calls, E!End(c) PROVE Goal
  BY <1>5 DEF E!End, E!file
<1>6. ASSUME NEW c \in Calls, E!Open(c) PROVE Goal
  BY <1>6 DEF E!Open, E!file
<1>7. ASSUME NEW c \in Calls, E!Answer(c) PROVE Goal
  BY <1>7 DEF E!Answer, E!file
<1>8. ASSUME NEW c \in Calls, E!Fail(c) PROVE Goal
  BY <1>8 DEF E!Fail, E!file
<1>9. ASSUME NEW c \in Calls, E!CloseAgain(c) PROVE Goal
  BY <1>9 DEF E!CloseAgain, E!file
<1>10. ASSUME NEW n \in Numbers, E!OpenElsewhere(n) PROVE Goal
  BY <1>10 DEF E!OpenElsewhere, E!file
<1>11. ASSUME NEW n \in Numbers, E!CloseElsewhere(n) PROVE Goal
  BY <1>11 DEF E!CloseElsewhere, E!file
<1>12. ASSUME E!BridgeDies PROVE Goal
  BY <1>12 DEF E!BridgeDies, E!Kill, E!file
<1>13. ASSUME NEW c \in Calls, E!LocalDies(c) PROVE Goal
  BY <1>13 DEF E!LocalDies, E!Kill, E!file
<1>14. ASSUME UNCHANGED executing PROVE Goal
  BY <1>14 DEF executing, E!file
<1>. HIDE DEF Goal
<1>15. Goal
  BY <1>1, <1>2, <1>3, <1>4, <1>5, <1>6, <1>7, <1>8, <1>9, <1>10, <1>11, <1>12, <1>13,
       <1>14, StepCases
<1>. QED
  BY <1>15 DEF Goal

\* That an append of the bridge has failed is not forgotten.
LEMMA FailedStays ==
    ASSUME failed, [Next]_vars
    PROVE  failed'
<1>1. ASSUME NEW c \in Calls, NEW r \in E!Requests, E!Ask(c, r) PROVE failed'
  BY <1>1 DEF E!Ask, E!GoTo, E!file, E!table
<1>2. ASSUME NEW c \in Calls, E!Resolve(c) PROVE failed'
  BY <1>2 DEF E!Resolve, E!GoTo, E!file, E!table
<1>3. ASSUME NEW c \in Calls, E!Decided(c) PROVE failed'
  BY <1>3 DEF E!Decided, E!GoTo, E!file, E!table
<1>4. ASSUME NEW c \in Calls, E!Start(c) PROVE failed'
  BY <1>4 DEF E!Start, E!GoTo, E!file, E!table
<1>5. ASSUME NEW c \in Calls, E!End(c) PROVE failed'
  BY <1>5 DEF E!End, E!GoTo, E!file, E!table
<1>6. ASSUME NEW c \in Calls, E!Open(c) PROVE failed'
  BY <1>6 DEF E!Open, E!GoTo, E!file
<1>7. ASSUME NEW c \in Calls, E!Answer(c) PROVE failed'
  BY <1>7 DEF E!Answer, E!GoTo, E!Closes, E!file
<1>8. ASSUME NEW c \in Calls, E!Fail(c) PROVE failed'
  BY <1>8 DEF E!Fail, E!GoTo, E!Closes, E!file
<1>9. ASSUME NEW c \in Calls, E!CloseAgain(c) PROVE failed'
  BY <1>9 DEF E!CloseAgain, E!GoTo, E!Closes, E!file
<1>10. ASSUME NEW n \in Numbers, E!OpenElsewhere(n) PROVE failed'
  BY <1>10 DEF E!OpenElsewhere, E!file
<1>11. ASSUME NEW n \in Numbers, E!CloseElsewhere(n) PROVE failed'
  BY <1>11 DEF E!CloseElsewhere, E!file
<1>12. ASSUME E!BridgeDies PROVE failed'
  BY <1>12 DEF E!BridgeDies, E!Kill, E!Victims, E!Running, E!Ended, E!file
<1>13. ASSUME NEW c \in Calls, E!LocalDies(c) PROVE failed'
  BY <1>13 DEF E!LocalDies, E!Kill, E!Victims, E!Running, E!Ended, E!file
<1>14. ASSUME UNCHANGED executing PROVE failed'
  BY <1>14 DEF executing, E!file, E!table
<1>. QED
  BY <1>1, <1>2, <1>3, <1>4, <1>5, <1>6, <1>7, <1>8, <1>9, <1>10, <1>11, <1>12, <1>13,
       <1>14, StepCases

\* A call that is on record stays there.
LEMMA StaysOnRecord ==
    ASSUME E!TypeOK, [Next]_vars, NEW d \in Calls, E!OnRecord(d)
    PROVE  E!OnRecord(d)'
<1>1. PICK i \in 1 .. Len(ledger) : ledger[i].event # "unreadable" /\ ledger[i].call = d
  BY DEF E!OnRecord, E!Lines
<1>2. i \in 1 .. Len(ledger') /\ ledger'[i] = ledger[i]
  <2>1. ASSUME NEW l, ledger' = Append(ledger, l)
        PROVE  i \in 1 .. Len(ledger') /\ ledger'[i] = ledger[i]
    BY <2>1, AppendedLine, LedgerTyped
  <2>2. ledger' = ledger \/ \E l : ledger' = Append(ledger, l)
    BY FileStep DEF E!Cut, E!Written
  <2>. QED
    BY <2>1, <2>2
<1>. QED
  BY <1>1, <1>2 DEF E!OnRecord, E!Lines

\* Only the last step of an append answers a call.
LEMMA NewlyAnswered ==
    ASSUME E!TypeOK, CommandInv, [Next]_vars,
           NEW d \in Calls, E!Answered(d)', ~E!Answered(d)
    PROVE  E!Answer(d)
<1>1. ASSUME NEW c \in Calls, NEW r \in E!Requests, E!Ask(c, r) PROVE E!Answer(d)
  BY <1>1 DEF E!Ask, E!GoTo, E!Answered, E!TypeOK, CommandInv, E!Requests
<1>2. ASSUME NEW c \in Calls, E!Resolve(c) PROVE E!Answer(d)
  BY <1>2 DEF E!Resolve, E!GoTo, E!Answered, E!TypeOK, CommandInv
<1>3. ASSUME NEW c \in Calls, E!Decided(c) PROVE E!Answer(d)
  BY <1>3 DEF E!Decided, E!GoTo, E!Answered, E!TypeOK, CommandInv
<1>4. ASSUME NEW c \in Calls, E!Start(c) PROVE E!Answer(d)
  BY <1>4 DEF E!Start, E!GoTo, E!Answered, E!TypeOK, CommandInv
<1>5. ASSUME NEW c \in Calls, E!End(c) PROVE E!Answer(d)
  BY <1>5 DEF E!End, E!GoTo, E!Answered, E!TypeOK, CommandInv
<1>6. ASSUME NEW c \in Calls, E!Open(c) PROVE E!Answer(d)
  BY <1>6 DEF E!Open, E!GoTo, E!Answered, E!TypeOK, CommandInv
<1>7. ASSUME NEW c \in Calls, E!Answer(c) PROVE E!Answer(d)
  <2>1. CASE c = d
    BY <1>7, <2>1
  <2>2. CASE c # d
    BY <1>7, <2>2 DEF E!Answer, E!GoTo, E!Answered, E!TypeOK
  <2>. QED
    BY <2>1, <2>2
<1>8. ASSUME NEW c \in Calls, E!Fail(c) PROVE E!Answer(d)
  BY <1>8 DEF E!Fail, E!GoTo, E!Answered, E!TypeOK, CommandInv
<1>9. ASSUME NEW c \in Calls, E!CloseAgain(c) PROVE E!Answer(d)
  BY <1>9 DEF E!CloseAgain, E!GoTo, E!Answered, E!TypeOK, CommandInv
<1>10. ASSUME NEW n \in Numbers, E!OpenElsewhere(n) PROVE E!Answer(d)
  BY <1>10 DEF E!OpenElsewhere, E!Answered, E!TypeOK, CommandInv
<1>11. ASSUME NEW n \in Numbers, E!CloseElsewhere(n) PROVE E!Answer(d)
  BY <1>11 DEF E!CloseElsewhere, E!Answered, E!TypeOK, CommandInv
<1>12. ASSUME E!BridgeDies PROVE E!Answer(d)
  BY <1>12 DEF E!BridgeDies, E!Kill, E!Victims, E!Running, E!Ended, E!Answered,
       E!TypeOK, CommandInv
<1>13. ASSUME NEW c \in Calls, E!LocalDies(c) PROVE E!Answer(d)
  BY <1>13 DEF E!LocalDies, E!Kill, E!Victims, E!Running, E!Ended, E!Answered, E!TypeOK,
       CommandInv
<1>14. ASSUME UNCHANGED executing PROVE E!Answer(d)
  BY <1>14 DEF executing, E!Answered, E!TypeOK, CommandInv
<1>. QED
  BY <1>1, <1>2, <1>3, <1>4, <1>5, <1>6, <1>7, <1>8, <1>9, <1>10, <1>11, <1>12, <1>13,
       <1>14, StepCases

\* No more calls are lost, and the cuts are as many, or one more with a line that
\* has no end.
LEMMA NoneLost ==
    ASSUME E!TypeOK, CountInv, ~failed, Lost' \subseteq Lost, cuts' \in Nat,
           \/ cuts' = cuts /\ (unended' => unended)
           \/ cuts' = cuts + 1 /\ unended'
    PROVE  CountInv'
<1>1. IsFiniteSet(Lost) /\ Cardinality(Lost) + (IF unended THEN 1 ELSE 0) <= cuts
  BY DEF CountInv
<1>2. IsFiniteSet(Lost') /\ Cardinality(Lost') <= Cardinality(Lost)
  BY <1>1, FS_Subset
<1>3. Cardinality(Lost) \in Nat /\ Cardinality(Lost') \in Nat
  BY <1>1, <1>2, FS_CardinalityType
<1>4. cuts \in Nat /\ unended \in BOOLEAN
  BY DEF E!TypeOK
<1>5. CASE cuts' = cuts /\ (unended' => unended)
  <2>1. (IF unended' THEN 1 ELSE 0) <= (IF unended THEN 1 ELSE 0)
    BY <1>4, <1>5
  <2>2. Cardinality(Lost') + (IF unended' THEN 1 ELSE 0) <= cuts'
    BY <1>1, <1>2, <1>3, <1>4, <1>5, <2>1
  <2>. QED
    BY <1>2, <2>2 DEF CountInv
<1>6. CASE cuts' = cuts + 1 /\ unended'
  <2>1. Cardinality(Lost') + (IF unended' THEN 1 ELSE 0) <= cuts'
    BY <1>1, <1>2, <1>3, <1>4, <1>6
  <2>. QED
    BY <1>2, <2>1 DEF CountInv
<1>. QED
  BY <1>5, <1>6

\* The line that is written into one without an end is the one more that is lost.
LEMMA OneLost ==
    ASSUME E!TypeOK, CountInv, ~failed, NEW c, Lost' \subseteq Lost \cup {c},
           unended, unended' = FALSE, cuts' = cuts
    PROVE  CountInv'
<1>1. IsFiniteSet(Lost) /\ Cardinality(Lost) + 1 <= cuts
  BY DEF CountInv
<1>2. /\ IsFiniteSet(Lost \cup {c})
      /\ \/ Cardinality(Lost \cup {c}) = Cardinality(Lost)
         \/ Cardinality(Lost \cup {c}) = Cardinality(Lost) + 1
  BY <1>1, FS_AddElement
<1>3. IsFiniteSet(Lost') /\ Cardinality(Lost') <= Cardinality(Lost \cup {c})
  BY <1>2, FS_Subset
<1>4. /\ Cardinality(Lost) \in Nat /\ Cardinality(Lost') \in Nat
      /\ Cardinality(Lost \cup {c}) \in Nat
  BY <1>1, <1>2, <1>3, FS_CardinalityType
<1>5. cuts \in Nat
  BY DEF E!TypeOK
<1>6. Cardinality(Lost') + (IF unended' THEN 1 ELSE 0) <= cuts'
  BY <1>1, <1>2, <1>3, <1>4, <1>5
<1>. QED
  BY <1>3, <1>6 DEF CountInv

\* Until an append of the bridge fails, every answer's line reaches the ledger, and is
\* lost there only to a line cut short before it.
LEMMA CountStep ==
    ASSUME IInv, IInv', NumberInv, CountInv, [Next]_vars
    PROVE  CountInv'
<1> SUFFICES ASSUME ~failed' PROVE CountInv'
  BY DEF CountInv
<1>1. ~failed /\ E!TypeOK /\ CommandInv
  BY FailedStays DEF IInv
<1>2. cuts \in Nat /\ cuts' \in Nat /\ unended \in BOOLEAN
  BY DEF IInv, E!TypeOK
<1>3. ASSUME NEW d \in Lost', d \notin Lost PROVE E!Answer(d)
  BY <1>1, <1>3, StaysOnRecord, NewlyAnswered DEF Lost
<1>4. CASE Lost' \subseteq Lost
  <2>1. CASE UNCHANGED <<ledger, unended, cuts>>
    BY <1>1, <1>2, <1>4, <2>1, NoneLost
  <2>2. CASE E!Cut
    BY <1>1, <1>2, <1>4, <2>2, NoneLost DEF E!Cut
  <2>3. CASE \E c \in Calls : E!Written(E!LineOf(c))
    BY <1>1, <1>2, <1>4, <2>3, NoneLost DEF E!Written
  <2>. QED
    BY <2>1, <2>2, <2>3, FileStep
<1>5. CASE ~(Lost' \subseteq Lost)
  <2>1. PICK c \in Lost' : c \notin Lost
    BY <1>5
  <2>2. c \in Calls /\ E!Answer(c) /\ ~E!OnRecord(c)'
    BY <1>3, <2>1 DEF Lost
  <2>3. E!Written(E!LineOf(c))
    BY <1>1, <2>2 DEF NumberInv, E!Answer, E!Denotes
  <2>4. unended
    <3> SUFFICES ASSUME ~unended PROVE FALSE
      OBVIOUS
    <3>1. ledger' = Append(ledger, E!LineOf(c))
      BY <2>3 DEF E!Written
    <3>2. /\ Len(ledger) + 1 \in 1 .. Len(ledger')
          /\ ledger'[Len(ledger) + 1] = E!LineOf(c)
      BY <1>1, <3>1, AppendedLine, LedgerTyped
    <3>3. E!LineOf(c).event # "unreadable" /\ E!LineOf(c).call = c
      BY DEF E!LineOf
    <3>. QED
      BY <2>2, <3>2, <3>3 DEF E!OnRecord, E!Lines
  <2>5. Lost' \subseteq Lost \cup {c}
    <3>1. ASSUME NEW d \in Calls, E!Answer(d) PROVE d = c
      BY <1>1, <2>2, <3>1 DEF E!Answer, E!GoTo, E!TypeOK
    <3>. QED
      BY <1>3, <3>1 DEF Lost
  <2>. QED
    BY <1>1, <2>3, <2>4, <2>5, OneLost DEF E!Written
<1>. QED
  BY <1>4, <1>5

\* At the start nobody has been answered and no number is in use.
LEMMA InitRecord == Init => NumberInv /\ CountInv
<1> SUFFICES ASSUME E!Init PROVE NumberInv /\ CountInv
  BY DEF Init
<1>1. Lost = {} /\ cuts = 0 /\ ~unended
  BY DEF Lost, E!Answered, E!Init
<1>2. CountInv
  BY <1>1, FS_EmptySet DEF CountInv
<1>3. NumberInv
  BY DEF NumberInv, E!Init
<1>. QED
  BY <1>2, <1>3

\* The operator of FiniteSets is one, by whichever module it is reached.
LEMMA OneCardinality == ASSUME NEW S PROVE E!Cardinality(S) = Cardinality(S)
  BY DEF E!Cardinality, Cardinality

\* Until an append of the bridge fails, whoever was told a result or the policy's
\* refusal finds it in the ledger, but for one call for each line a full disk cut
\* short: TerminalExecutor appends before it answers.
THEOREM RecordedAnswers == Spec => []AnsweredIsOnRecord
<1>1. IInv /\ IInv' /\ NumberInv /\ CountInv /\ [Next]_vars => NumberInv' /\ CountInv'
  BY NumberStep, CountStep DEF IInv
<1>2. ASSUME IInv, CountInv PROVE AnsweredIsOnRecord
  <2>. SUFFICES ASSUME ~failed
                PROVE  E!Cardinality(Lost) <= cuts
    BY Zenon DEF AnsweredIsOnRecord, E!AnsweredIsOnRecord, Lost
  <2>1. /\ IsFiniteSet(Lost) /\ cuts \in Nat /\ unended \in BOOLEAN
        /\ Cardinality(Lost) + (IF unended THEN 1 ELSE 0) <= cuts
    BY <1>2 DEF CountInv, IInv, E!TypeOK
  <2>2. Cardinality(Lost) <= cuts
    BY <2>1, FS_CardinalityType
  <2>. QED
    BY <2>2, OneCardinality
<1>. QED
  BY <1>1, <1>2, InitRecord, CommandInvariance, PTL DEF Spec

=============================================================================
