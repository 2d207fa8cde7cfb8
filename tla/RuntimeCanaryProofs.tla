------------------------- MODULE RuntimeCanaryProofs -------------------------
(***************************************************************************)
(* What holds of RuntimeCanary for every set of callers, request ids,      *)
(* envelopes and trees.                                                    *)
(*                                                                         *)
(* A call is the claimant of its id from the creation of the claim file    *)
(* until it has filled the result.  ClaimInv says that an id has one       *)
(* claimant at most; StageInv and ReadingInv follow what the claimant has  *)
(* done so far; ReplyInv what the answers given so far rest on.            *)
(***************************************************************************)
EXTENDS RuntimeCanary, SequenceTheorems, TLAPS

Call == [id : Ids, envelope : Envelopes]

\* A call under way has its arguments; one that will replay has compared them.
CallInv == \A c \in Callers :
    /\ pc[c] # "idle" => call[c] \in Call
    /\ pc[c] = "replay" => claims[call[c].id] = call[c].envelope

\* A claimant's claim is on disk, and no other call is claimant of its id.
ClaimInv ==
    /\ \A c \in Callers : pc[c] \in Claimant => claims[call[c].id] =
           IF pc[c] = "fill_claim" THEN "torn" ELSE call[c].envelope
    /\ \A c, d \in Callers :
           (pc[c] \in Claimant /\ pc[d] \in Claimant /\ c # d)
               => call[c].id # call[d].id

\* The processes started and the result file follow the claimant's step.
StageInv ==
    /\ \A i \in Ids :
          /\ spawns[i] \in 0..2
          /\ claims[i] = "absent" =>
                spawns[i] = 0 /\ seen[i] = <<>> /\ results[i] = "absent"
    /\ \A c \in Callers :
          /\ pc[c] \in {"fill_claim", "observe"} => spawns[call[c].id] = 0
          /\ pc[c] = "readback" => spawns[call[c].id] = 1
          /\ pc[c] \in Claimant => results[call[c].id] =
                IF pc[c] = "fill_result" THEN "torn" ELSE "absent"

\* A claimant's readings are all that was read for its id.
ReadingInv == \A c \in Callers :
    /\ pc[c] \in Claimant => readings[c] = seen[call[c].id]
    /\ pc[c] \notin {"readback", "conclude", "fill_result"} => readings[c] = <<>>
    /\ pc[c] = "readback" => Len(readings[c]) = 1
    /\ pc[c] \in {"readback", "conclude", "fill_result"} =>
          Len(readings[c]) \in {1, 2}
    /\ pc[c] = "readback" \/ (pc[c] \in Claimant /\ Len(readings[c]) = 2) =>
          readings[c][1] \in Trees
    /\ pc[c] = "fill_result" => task[c].state \in Final
    /\ pc[c] = "fill_result" /\ task[c].state = "DONE" => Verified(readings[c])

\* An answer was given to a call that came with the envelope of the claim.
ReplyInv == \A c \in Callers :
    /\ reply[c].kind \in {"first", "replayed"} =>
          /\ reply[c].call \in Call
          /\ claims[reply[c].call.id] = reply[c].call.envelope
    /\ reply[c].state = "DONE" => reply[c].kind \in {"first", "replayed"}

IInv == /\ TypeOK /\ CallInv /\ ClaimInv /\ StageInv /\ ReadingInv
        /\ ReplyInv /\ CertifiedTwice /\ DoneIsRecorded

-----------------------------------------------------------------------------
\* Splits a step into the actions, so that every proof below can cite it.
LEMMA NextCases ==
    ASSUME [Next]_vars,
           NEW P,
           ASSUME NEW t \in Trees, Work(t) PROVE P,
           ASSUME Register PROVE P,
           ASSUME NEW c \in Callers, NEW i \in Ids, NEW e \in Envelopes, Enter(c, i, e) PROVE P,
           ASSUME NEW c \in Callers, Claim(c) PROVE P,
           ASSUME NEW c \in Callers, FillClaim(c) PROVE P,
           ASSUME NEW c \in Callers, Compare(c) PROVE P,
           ASSUME NEW c \in Callers, Replay(c) PROVE P,
           ASSUME NEW c \in Callers, Observe(c) PROVE P,
           ASSUME NEW c \in Callers, Readback(c) PROVE P,
           ASSUME NEW c \in Callers, Conclude(c) PROVE P,
           ASSUME NEW c \in Callers, FillResult(c) PROVE P,
           ASSUME NEW c \in Callers, Die(c) PROVE P,
           ASSUME UNCHANGED vars PROVE P
    PROVE  P
    BY DEF Next, Step

\* A call that returns leaves its locals as they were at the start.
LEMMA ReturnTyped ==
    ASSUME TypeOK, NEW c \in Callers, Return(c)
    PROVE  /\ pc' \in [Callers -> Steps]
           /\ call' \in [Callers -> Calls]
           /\ task' \in [Callers -> Tasks]
           /\ readings' \in [Callers -> Seq(Reading)]
           /\ \A d \in Callers : Len(readings'[d]) <= 2
<1>1. Proposed \in Tasks /\ NoCall \in Calls /\ "idle" \in Steps
  BY DEF Proposed, Tasks, States, Risks, NoCall, Calls, Steps
<1>2. <<>> \in Seq(Reading) /\ Len(<<>>) = 0
  OBVIOUS
<1>. QED
  BY <1>1, <1>2 DEF TypeOK, Return, GoTo

\* An answer is of the type of answers.
LEMMA TellTyped ==
    ASSUME TypeOK, NEW c \in Callers,
           NEW kind \in {"none", "rejected", "first", "replayed"},
           NEW state \in Final \cup {"none"}, Tell(c, kind, state)
    PROVE  reply' \in [Callers -> Replies]
    BY DEF TypeOK, Tell, Replies

\* Reading adds one process and one reading, to the claimant's and to its id's.
LEMMA ReadTyped ==
    ASSUME TypeOK, NEW c \in Callers, NEW x \in Reading, Read(c, x),
           call[c].id \in Ids, Len(readings[c]) <= 1
    PROVE  /\ readings' \in [Callers -> Seq(Reading)]
           /\ \A d \in Callers : Len(readings'[d]) <= 2
           /\ spawns' \in [Ids -> Nat]
           /\ seen' \in [Ids -> Seq(Reading)]
           /\ UNCHANGED <<disk, project, call, task, reply>>
<1>1. readings[c] \in Seq(Reading) /\ seen[call[c].id] \in Seq(Reading)
  BY DEF TypeOK
<1>2. /\ Append(readings[c], x) \in Seq(Reading)
      /\ Len(Append(readings[c], x)) = Len(readings[c]) + 1
      /\ Append(seen[call[c].id], x) \in Seq(Reading)
  BY <1>1, AppendProperties
<1>3. Len(readings[c]) \in Nat
  BY <1>1, LenProperties
<1>4. /\ readings' = [readings EXCEPT ![c] = Append(@, x)]
      /\ spawns' = [spawns EXCEPT ![call[c].id] = @ + 1]
      /\ seen' = [seen EXCEPT ![call[c].id] = Append(@, x)]
      /\ UNCHANGED <<disk, project, call, task, reply>>
  BY DEF Read
<1>5. readings' \in [Callers -> Seq(Reading)] /\ seen' \in [Ids -> Seq(Reading)]
  BY <1>2, <1>4 DEF TypeOK
<1>6. ASSUME NEW d \in Callers PROVE Len(readings'[d]) <= 2
  <2>1. readings'[d] = IF d = c THEN Append(readings[c], x) ELSE readings[d]
    BY <1>4 DEF TypeOK
  <2>2. Len(readings[d]) <= 2
    BY DEF TypeOK
  <2>. QED
    BY <2>1, <2>2, <1>2, <1>3
<1>7. spawns' \in [Ids -> Nat]
  BY <1>4 DEF TypeOK
<1>. QED
  BY <1>4, <1>5, <1>6, <1>7

-----------------------------------------------------------------------------
LEMMA TypeStep ==
    ASSUME IInv, [Next]_vars
    PROVE  TypeOK'
<1> USE DEF disk, project, locals, history
<1>0. TypeOK
  BY DEF IInv
<1>1. ASSUME NEW t \in Trees, Work(t) PROVE TypeOK'
  BY <1>0, <1>1 DEF Work, TypeOK
<1>2. CASE Register
  BY <1>0, <1>2 DEF Register, TypeOK
<1>3. ASSUME NEW c \in Callers, NEW i \in Ids, NEW e \in Envelopes, Enter(c, i, e)
      PROVE TypeOK'
  <2>1. call' \in [Callers -> Calls] /\ pc' \in [Callers -> Steps]
    BY <1>0, <1>3 DEF Enter, GoTo, TypeOK, Calls, Steps
  <2>. QED
    BY <1>0, <1>3, <2>1 DEF Enter, TypeOK
<1>4. ASSUME NEW c \in Callers, Claim(c) PROVE TypeOK'
  <2>1. claims' \in [Ids -> Envelopes \cup {"absent", "torn"}] /\ pc' \in [Callers -> Steps]
    BY <1>0, <1>4 DEF Claim, GoTo, TypeOK, Steps
  <2>. QED
    BY <1>0, <1>4, <2>1 DEF Claim, TypeOK
<1>5. ASSUME NEW c \in Callers, FillClaim(c) PROVE TypeOK'
  <2>1. call[c].envelope \in Envelopes
    BY <1>5 DEF FillClaim, IInv, CallInv, Call
  <2>2. claims' \in [Ids -> Envelopes \cup {"absent", "torn"}] /\ pc' \in [Callers -> Steps]
    BY <1>0, <1>5, <2>1 DEF FillClaim, GoTo, TypeOK, Steps
  <2>3. task' \in [Callers -> Tasks]
    BY <1>0, <1>5 DEF FillClaim, Moved, TypeOK, Tasks, States
  <2>. QED
    BY <1>0, <1>5, <2>2, <2>3 DEF FillClaim, TypeOK
<1>6. ASSUME NEW c \in Callers, Compare(c) PROVE TypeOK'
  <2>1. CASE claims[call[c].id] = call[c].envelope
    <3>1. pc' \in [Callers -> Steps]
      BY <1>0, <1>6, <2>1 DEF Compare, GoTo, TypeOK, Steps
    <3>. QED
      BY <1>0, <1>6, <2>1, <3>1 DEF Compare, TypeOK
  <2>2. CASE claims[call[c].id] # call[c].envelope
    <3>1. Return(c) /\ Tell(c, "rejected", "none")
      BY <1>6, <2>2 DEF Compare
    <3>. QED
      BY <1>0, <1>6, <3>1, ReturnTyped, TellTyped DEF Compare, TypeOK
  <2>. QED
    BY <2>1, <2>2
<1>7. ASSUME NEW c \in Callers, Replay(c) PROVE TypeOK'
  <2>1. PICK r \in Final \cup {"none"} : Tell(c, "replayed", r)
    BY <1>7 DEF Replay, Final
  <2>2. reply' \in [Callers -> Replies]
    BY <1>0, <2>1, TellTyped
  <2>. QED
    BY <1>0, <1>7, <2>2, ReturnTyped DEF Replay, TypeOK
<1>8. ASSUME NEW c \in Callers, Observe(c) PROVE TypeOK'
  <2>1. PICK x \in Reading : Read(c, x) /\ GoTo(c, IF x \in Trees THEN "readback" ELSE "conclude")
    BY <1>8 DEF Observe
  <2>2. call[c].id \in Ids /\ Len(readings[c]) <= 1
    BY <1>8 DEF Observe, IInv, CallInv, Call, ReadingInv
  <2>3. pc' \in [Callers -> Steps]
    BY <1>0, <2>1 DEF GoTo, TypeOK, Steps
  <2>. QED
    BY <1>0, <2>1, <2>2, <2>3, ReadTyped DEF TypeOK
<1>9. ASSUME NEW c \in Callers, Readback(c) PROVE TypeOK'
  <2>1. PICK x \in Reading : Read(c, x) /\ GoTo(c, "conclude")
    BY <1>9 DEF Readback
  <2>2. call[c].id \in Ids /\ Len(readings[c]) <= 1
    <3>1. pc[c] = "readback" /\ CallInv /\ ReadingInv
      BY <1>9 DEF Readback, IInv
    <3>2. Len(readings[c]) = 1
      BY <3>1 DEF ReadingInv
    <3>. QED
      BY <3>1, <3>2 DEF CallInv, Call
  <2>3. pc' \in [Callers -> Steps]
    BY <1>0, <2>1 DEF GoTo, TypeOK, Steps
  <2>. QED
    BY <1>0, <2>1, <2>2, <2>3, ReadTyped DEF TypeOK
<1>10. ASSUME NEW c \in Callers, Conclude(c) PROVE TypeOK'
  <2>1. task' \in [Callers -> Tasks]
    <3>1. PICK next \in Final : task' = [task EXCEPT ![c].state = next]
      BY <1>0, <1>10 DEF Conclude, Moved, TypeOK, Final, Tasks
    <3>2. [task[c] EXCEPT !.state = next] \in Tasks
      BY <1>0 DEF TypeOK, Tasks, States, Final
    <3>. QED
      BY <1>0, <3>1, <3>2 DEF TypeOK
  <2>2. results' \in [Ids -> Final \cup {"absent", "torn"}] /\ pc' \in [Callers -> Steps]
    BY <1>0, <1>10 DEF Conclude, GoTo, TypeOK, Steps
  <2>. QED
    BY <1>0, <1>10, <2>1, <2>2 DEF Conclude, TypeOK
<1>11. ASSUME NEW c \in Callers, FillResult(c) PROVE TypeOK'
  <2>1. task[c].state \in Final
    BY <1>11 DEF FillResult, IInv, ReadingInv
  <2>2. results' \in [Ids -> Final \cup {"absent", "torn"}]
    BY <1>0, <1>11, <2>1 DEF FillResult, TypeOK
  <2>3. reply' \in [Callers -> Replies]
    BY <1>0, <1>11, <2>1, TellTyped DEF FillResult
  <2>. QED
    BY <1>0, <1>11, <2>2, <2>3, ReturnTyped DEF FillResult, TypeOK
<1>12. ASSUME NEW c \in Callers, Die(c) PROVE TypeOK'
  <2>1. reply' \in [Callers -> Replies]
    BY <1>0, <1>12 DEF Die, TypeOK, Replies, Silence, Calls
  <2>. QED
    BY <1>0, <1>12, <2>1, ReturnTyped DEF Die, TypeOK
<1>13. CASE UNCHANGED vars
  BY <1>0, <1>13 DEF vars, TypeOK
<1>. QED
  BY <1>1, <1>2, <1>3, <1>4, <1>5, <1>6, <1>7, <1>8, <1>9, <1>10, <1>11, <1>12, <1>13,
     NextCases

\* What reading changes, pointwise.
LEMMA ReadAt ==
    ASSUME TypeOK, NEW c \in Callers, NEW x, Read(c, x), call[c].id \in Ids
    PROVE  /\ readings'[c] = Append(readings[c], x)
           /\ \A d \in Callers : d # c => readings'[d] = readings[d]
           /\ spawns'[call[c].id] = spawns[call[c].id] + 1
           /\ seen'[call[c].id] = Append(seen[call[c].id], x)
           /\ \A i \in Ids : i # call[c].id => spawns'[i] = spawns[i] /\ seen'[i] = seen[i]
           /\ UNCHANGED <<claims, results, tree, active, call, task, reply>>
    BY DEF TypeOK, Read, disk, project

\* What returning changes, pointwise.
LEMMA ReturnAt ==
    ASSUME TypeOK, NEW c \in Callers, Return(c)
    PROVE  /\ pc'[c] = "idle" /\ readings'[c] = <<>>
           /\ \A d \in Callers : d # c =>
                /\ pc'[d] = pc[d] /\ call'[d] = call[d]
                /\ task'[d] = task[d] /\ readings'[d] = readings[d]
    BY DEF TypeOK, Return, GoTo

\* Moving to another step, pointwise.
LEMMA GoToAt ==
    ASSUME TypeOK, NEW c \in Callers, NEW step, GoTo(c, step)
    PROVE  /\ pc'[c] = step
           /\ \A d \in Callers : d # c => pc'[d] = pc[d]
    BY DEF TypeOK, GoTo

\* A claimant's id is claimed and no other claimant's.
LEMMA Claimed ==
    ASSUME IInv, NEW c \in Callers, pc[c] \in Claimant
    PROVE  /\ call[c].id \in Ids /\ call[c].envelope \in Envelopes
           /\ claims[call[c].id] # "absent"
           /\ \A d \in Callers : (d # c /\ pc[d] \in Claimant) => call[d].id # call[c].id
    BY EnvelopeAssumption DEF IInv, CallInv, Call, ClaimInv, Claimant

LEMMA CallStep ==
    ASSUME IInv, [Next]_vars
    PROVE  CallInv'
<1> USE DEF disk, project, locals, history
<1>0. TypeOK /\ CallInv
  BY DEF IInv
<1>1. ASSUME NEW t \in Trees, Work(t) PROVE CallInv'
  BY <1>0, <1>1 DEF Work, CallInv
<1>2. CASE Register
  BY <1>0, <1>2 DEF Register, CallInv
<1>3. ASSUME NEW c \in Callers, NEW i \in Ids, NEW e \in Envelopes, Enter(c, i, e)
      PROVE CallInv'
  BY <1>0, <1>3 DEF Enter, GoTo, TypeOK, CallInv, Call
<1>4. ASSUME NEW c \in Callers, Claim(c) PROVE CallInv'
  <2>1. ASSUME NEW d \in Callers, pc'[d] = "replay" PROVE claims'[call[d].id] = call[d].envelope
    <3>1. pc[d] = "replay" /\ call[d] \in Call /\ claims[call[d].id] = call[d].envelope
      BY <1>0, <1>4, <2>1 DEF Claim, GoTo, TypeOK, CallInv
    <3>2. claims[call[d].id] # "absent"
      BY <3>1, EnvelopeAssumption DEF Call
    <3>. QED
      BY <1>0, <1>4, <3>1, <3>2 DEF Claim, TypeOK, Call
  <2>. QED
    BY <1>0, <1>4, <2>1 DEF Claim, GoTo, TypeOK, CallInv
<1>5. ASSUME NEW c \in Callers, FillClaim(c) PROVE CallInv'
  <2>1. claims[call[c].id] = "torn" /\ call[c].id \in Ids
    BY <1>5 DEF FillClaim, IInv, ClaimInv, Claimant, CallInv, Call
  <2>2. ASSUME NEW d \in Callers, pc'[d] = "replay" PROVE claims'[call[d].id] = call[d].envelope
    <3>1. pc[d] = "replay" /\ call[d] \in Call /\ claims[call[d].id] = call[d].envelope
      BY <1>0, <1>5, <2>2 DEF FillClaim, GoTo, TypeOK, CallInv
    <3>2. call[d].id # call[c].id
      BY <2>1, <3>1, EnvelopeAssumption DEF Call
    <3>. QED
      BY <1>0, <1>5, <3>1, <3>2 DEF FillClaim, TypeOK, Call
  <2>. QED
    BY <1>0, <1>5, <2>2 DEF FillClaim, GoTo, TypeOK, CallInv
<1>6. ASSUME NEW c \in Callers, Compare(c) PROVE CallInv'
  <2>1. CASE claims[call[c].id] = call[c].envelope
    BY <1>0, <1>6, <2>1 DEF Compare, GoTo, TypeOK, CallInv
  <2>2. CASE claims[call[c].id] # call[c].envelope
    BY <1>0, <1>6, <2>2, ReturnAt DEF Compare, CallInv
  <2>. QED
    BY <2>1, <2>2
<1>7. ASSUME NEW c \in Callers, Replay(c) PROVE CallInv'
  BY <1>0, <1>7, ReturnAt DEF Replay, CallInv
<1>8. ASSUME NEW c \in Callers, Observe(c) PROVE CallInv'
  BY <1>0, <1>8 DEF Observe, Read, GoTo, TypeOK, CallInv
<1>9. ASSUME NEW c \in Callers, Readback(c) PROVE CallInv'
  BY <1>0, <1>9 DEF Readback, Read, GoTo, TypeOK, CallInv
<1>10. ASSUME NEW c \in Callers, Conclude(c) PROVE CallInv'
  BY <1>0, <1>10 DEF Conclude, GoTo, TypeOK, CallInv
<1>11. ASSUME NEW c \in Callers, FillResult(c) PROVE CallInv'
  BY <1>0, <1>11, ReturnAt DEF FillResult, CallInv
<1>12. ASSUME NEW c \in Callers, Die(c) PROVE CallInv'
  BY <1>0, <1>12, ReturnAt DEF Die, CallInv
<1>13. CASE UNCHANGED vars
  BY <1>0, <1>13 DEF vars, CallInv
<1>. QED
  BY <1>1, <1>2, <1>3, <1>4, <1>5, <1>6, <1>7, <1>8, <1>9, <1>10, <1>11, <1>12, <1>13,
     NextCases

-----------------------------------------------------------------------------
Core == ClaimInv /\ StageInv /\ ReadingInv /\ CertifiedTwice

\* Steps that leave the records, and every claimant that stays one, alone.
LEMMA QuietStep ==
    ASSUME IInv,
           UNCHANGED <<claims, results, spawns, seen>>,
           \A d \in Callers : pc'[d] \in Claimant =>
               /\ pc'[d] = pc[d] /\ call'[d] = call[d]
               /\ task'[d] = task[d] /\ readings'[d] = readings[d],
           \A d \in Callers : pc'[d] \notin Claimant => readings'[d] = <<>>
    PROVE  Core'
<1>1. ClaimInv'
  BY DEF IInv, ClaimInv
<1>2. StageInv'
  BY DEF IInv, StageInv, Claimant
<1>3. ReadingInv'
  BY DEF IInv, ReadingInv, Claimant, Verified
<1>4. CertifiedTwice'
  BY DEF IInv, CertifiedTwice
<1>. QED
  BY <1>1, <1>2, <1>3, <1>4 DEF Core

\* Who is no claimant has read nothing.
LEMMA Unread ==
    ASSUME IInv, NEW d \in Callers, pc[d] \notin Claimant
    PROVE  readings[d] = <<>>
    BY DEF IInv, ReadingInv, Claimant

\* A call creates the claim file of a free id, or finds it taken.
LEMMA ClaimCore ==
    ASSUME IInv, NEW c \in Callers, Claim(c)
    PROVE  Core'
<1> DEFINE i == call[c].id
<1>0. TypeOK /\ pc[c] = "claim" /\ i \in Ids
  BY DEF IInv, Claim, CallInv, Call
<1>1. CASE claims[i] # "absent"
  <2>1. UNCHANGED <<claims, results, spawns, seen, call, task, readings>> /\ GoTo(c, "compare")
    BY <1>1 DEF Claim, history
  <2>2. pc[c] \notin Claimant /\ "compare" \notin Claimant
    BY <1>0 DEF Claimant
  <2>3. ASSUME NEW d \in Callers, pc'[d] \notin Claimant PROVE readings'[d] = <<>>
    BY <1>0, <2>1, <2>2, <2>3, GoToAt, Unread
  <2>4. ASSUME NEW d \in Callers, pc'[d] \in Claimant PROVE pc'[d] = pc[d]
    BY <1>0, <2>1, <2>2, <2>4, GoToAt
  <2>. QED
    BY <2>1, <2>3, <2>4, QuietStep
<1>2. CASE claims[i] = "absent"
  <2>1. /\ UNCHANGED <<results, spawns, seen, call, task, readings>>
        /\ GoTo(c, "fill_claim")
        /\ claims' = [claims EXCEPT ![i] = "torn"]
    BY <1>2 DEF Claim, history
  <2>2. /\ claims'[i] = "torn"
        /\ \A j \in Ids : j # i => claims'[j] = claims[j]
    BY <1>0, <2>1 DEF TypeOK
  <2>3. /\ pc'[c] = "fill_claim"
        /\ \A d \in Callers : d # c => pc'[d] = pc[d]
    BY <1>0, <2>1, GoToAt
  <2>4. \A d \in Callers : pc[d] \in Claimant => call[d].id \in Ids /\ call[d].id # i
    BY <1>2, Claimed
  <2>5. readings[c] = <<>>
    BY <1>0, Unread DEF Claimant
  <2>6. spawns[i] = 0 /\ seen[i] = <<>> /\ results[i] = "absent"
    BY <1>0, <1>2 DEF IInv, StageInv
  <2>7. ClaimInv'
    BY <2>1, <2>2, <2>3, <2>4 DEF IInv, ClaimInv, Claimant
  <2>8. StageInv'
    BY <2>1, <2>2, <2>3, <2>4, <2>6 DEF IInv, StageInv, Claimant
  <2>9. ReadingInv'
    BY <2>1, <2>3, <2>5, <2>6 DEF IInv, ReadingInv, Claimant, Verified
  <2>10. CertifiedTwice'
    BY <2>1 DEF IInv, CertifiedTwice
  <2>. QED
    BY <2>7, <2>8, <2>9, <2>10 DEF Core
<1>. QED
  BY <1>1, <1>2

LEMMA FillClaimCore ==
    ASSUME IInv, NEW c \in Callers, FillClaim(c)
    PROVE  Core'
<1> DEFINE i == call[c].id
<1>0. TypeOK /\ pc[c] = "fill_claim" /\ pc[c] \in Claimant
  BY DEF IInv, FillClaim, Claimant
<1>1. /\ UNCHANGED <<results, spawns, seen, call, readings>>
      /\ GoTo(c, "observe")
      /\ claims' = [claims EXCEPT ![i] = call[c].envelope]
      /\ \A d \in Callers : d # c => task'[d] = task[d]
  BY <1>0 DEF FillClaim, history, TypeOK
<1>2. /\ i \in Ids /\ call[c].envelope \in Envelopes
      /\ \A d \in Callers : (d # c /\ pc[d] \in Claimant) => call[d].id # i
  BY <1>0, Claimed
<1>3. /\ pc'[c] = "observe"
      /\ \A d \in Callers : d # c => pc'[d] = pc[d]
  BY <1>0, <1>1, GoToAt
<1>4. /\ claims'[i] = call[c].envelope
      /\ \A j \in Ids : j # i => claims'[j] = claims[j]
  BY <1>0, <1>1, <1>2 DEF TypeOK
<1>5. \A d \in Callers : pc[d] \in Claimant => call[d].id \in Ids
  BY Claimed
<1>6. ClaimInv'
  BY <1>0, <1>1, <1>2, <1>3, <1>4, <1>5 DEF IInv, ClaimInv, Claimant
<1>7. StageInv'
  <2>1. claims'[i] # "absent"
    BY <1>2, <1>4, EnvelopeAssumption
  <2>. QED
    BY <1>0, <1>1, <1>2, <1>3, <1>4, <2>1 DEF IInv, StageInv, Claimant
<1>8. ReadingInv'
  BY <1>0, <1>1, <1>3 DEF IInv, ReadingInv, Claimant, Verified
<1>9. CertifiedTwice'
  BY <1>1 DEF IInv, CertifiedTwice
<1>. QED
  BY <1>6, <1>7, <1>8, <1>9 DEF Core

\* A reading by a claimant that has none, or a valid one, and then moves on.
LEMMA ReadCore ==
    ASSUME IInv, NEW c \in Callers, NEW x \in Reading, Read(c, x),
           NEW step \in {"readback", "conclude"}, GoTo(c, step),
           \/ pc[c] = "observe" /\ (step = "readback" => x \in Trees)
           \/ pc[c] = "readback" /\ step = "conclude"
    PROVE  Core'
<1> DEFINE i == call[c].id
<1>0. TypeOK /\ pc[c] \in Claimant /\ pc[c] \in {"observe", "readback"}
  BY DEF IInv, Claimant
<1>1. /\ i \in Ids
      /\ claims[i] # "absent"
      /\ \A d \in Callers : (d # c /\ pc[d] \in Claimant) => call[d].id # i
  BY <1>0, Claimed
<1>2. /\ pc'[c] = step
      /\ \A d \in Callers : d # c => pc'[d] = pc[d]
  BY <1>0, GoToAt
<1>3. /\ readings'[c] = Append(readings[c], x)
      /\ \A d \in Callers : d # c => readings'[d] = readings[d]
      /\ spawns'[i] = spawns[i] + 1
      /\ seen'[i] = Append(seen[i], x)
      /\ \A j \in Ids : j # i => spawns'[j] = spawns[j] /\ seen'[j] = seen[j]
      /\ UNCHANGED <<claims, results, call, task>>
  BY <1>0, <1>1, ReadAt
<1>4. \A d \in Callers : pc[d] \in Claimant => call[d].id \in Ids
  BY Claimed
<1>5. /\ readings[c] = seen[i]
      /\ results[i] = "absent"
      /\ spawns[i] \in {0, 1}
      /\ spawns[i] = 0 <=> pc[c] = "observe"
  BY <1>0 DEF IInv, ReadingInv, StageInv, Claimant
<1>6. ASSUME NEW d \in Callers, d # c
      PROVE  /\ pc'[d] \in Claimant => readings'[d] = seen'[call'[d].id]
             /\ pc'[d] \notin {"readback", "conclude", "fill_result"} => readings'[d] = <<>>
             /\ pc'[d] = "readback" => Len(readings'[d]) = 1
             /\ pc'[d] \in {"readback", "conclude", "fill_result"} =>
                   Len(readings'[d]) \in {1, 2}
             /\ pc'[d] = "readback" \/ (pc'[d] \in Claimant /\ Len(readings'[d]) = 2) =>
                   readings'[d][1] \in Trees
             /\ pc'[d] = "fill_result" => task'[d].state \in Final
             /\ pc'[d] = "fill_result" /\ task'[d].state = "DONE" => Verified(readings'[d])
  <2>1. pc'[d] \in Claimant => seen'[call'[d].id] = seen[call[d].id]
    BY <1>1, <1>2, <1>3, <1>4, <1>6
  <2>2. pc'[d] = pc[d] /\ readings'[d] = readings[d] /\ task'[d] = task[d]
    BY <1>2, <1>3, <1>6
  <2>. QED
    BY <2>1, <2>2 DEF IInv, ReadingInv
<1>7. CASE pc[c] = "observe"
  <2>1. readings[c] = <<>>
    BY <1>7 DEF IInv, ReadingInv
  <2>2. readings'[c] = <<x>> /\ Len(readings'[c]) = 1 /\ readings'[c][1] = x
    BY <1>3, <2>1
  <2>3. Len(readings'[c]) # 2
    BY <2>2
  <2>4. readings'[c] = seen'[i]
    BY <1>3, <1>5
  <2>5. ReadingInv'
    BY <1>2, <1>3, <1>7, <1>6, <2>2, <2>3, <2>4 DEF ReadingInv, Claimant
  <2>6. StageInv'
    BY <1>0, <1>1, <1>2, <1>3, <1>4, <1>5, <1>7 DEF IInv, StageInv, Claimant
  <2>. QED
    <3>1. ClaimInv'
      BY <1>0, <1>2, <1>3, <1>7 DEF IInv, ClaimInv, Claimant
    <3>2. CertifiedTwice'
      BY <1>3, <1>5 DEF IInv, CertifiedTwice
    <3>. QED
      BY <2>5, <2>6, <3>1, <3>2 DEF Core
<1>8. CASE pc[c] = "readback"
  <2>1. readings[c] \in Seq(Reading) /\ Len(readings[c]) = 1 /\ readings[c][1] \in Trees
    BY <1>8 DEF IInv, TypeOK, ReadingInv
  <2>2. Len(readings'[c]) = 2 /\ readings'[c][1] \in Trees
    BY <1>3, <2>1, AppendProperties
  <2>3. ReadingInv'
    <3>1. readings'[c] = seen'[i]
      BY <1>3, <1>5
    <3>. QED
      BY <1>2, <1>3, <1>8, <1>6, <2>2, <3>1 DEF ReadingInv, Claimant
  <2>4. StageInv'
    BY <1>0, <1>1, <1>2, <1>3, <1>4, <1>5, <1>8 DEF IInv, StageInv, Claimant
  <2>5. ClaimInv'
    BY <1>0, <1>2, <1>3, <1>8 DEF IInv, ClaimInv, Claimant
  <2>6. CertifiedTwice'
    BY <1>3, <1>5 DEF IInv, CertifiedTwice
  <2>. QED
    BY <2>3, <2>4, <2>5, <2>6 DEF Core
<1>. QED
  BY <1>0, <1>7, <1>8

\* The final state is DONE only after two equal readings.
LEMMA Concluded ==
    ASSUME IInv, NEW c \in Callers, Conclude(c)
    PROVE  /\ task'[c].state \in Final
           /\ task'[c].state = "DONE" => Verified(readings[c])
           /\ \A d \in Callers : d # c => task'[d] = task[d]
<1>0. task \in [Callers -> Tasks]
  BY DEF IInv, TypeOK
<1>1. \/ task' = [task EXCEPT ![c].state = "BLOCKED"]
      \/ task' = [task EXCEPT ![c].state = "NEEDS_REVIEW"]
      \/ Verified(readings[c]) /\ task' = [task EXCEPT ![c].state = "DONE"]
  BY <1>0 DEF Conclude, Moved, Tasks
<1>. QED
  BY <1>0, <1>1 DEF Final, Tasks

LEMMA ConcludeCore ==
    ASSUME IInv, NEW c \in Callers, Conclude(c)
    PROVE  Core'
<1> DEFINE i == call[c].id
<1>0. TypeOK /\ pc[c] = "conclude" /\ pc[c] \in Claimant
  BY DEF IInv, Conclude, Claimant
<1>1. /\ i \in Ids
      /\ claims[i] # "absent"
      /\ \A d \in Callers : (d # c /\ pc[d] \in Claimant) => call[d].id # i
  BY <1>0, Claimed
<1>2. /\ UNCHANGED <<claims, call, readings, spawns, seen>>
      /\ results' = [results EXCEPT ![i] = "torn"]
      /\ GoTo(c, "fill_result")
  BY DEF Conclude, history
<1>3. /\ pc'[c] = "fill_result"
      /\ \A d \in Callers : d # c => pc'[d] = pc[d]
  BY <1>0, <1>2, GoToAt
<1>4. /\ results'[i] = "torn"
      /\ \A j \in Ids : j # i => results'[j] = results[j]
  BY <1>0, <1>1, <1>2 DEF TypeOK
<1>5. \A d \in Callers : pc[d] \in Claimant => call[d].id \in Ids
  BY Claimed
<1>6. ClaimInv'
  BY <1>0, <1>2, <1>3 DEF IInv, ClaimInv, Claimant
<1>7. StageInv'
  BY <1>0, <1>1, <1>2, <1>3, <1>4, <1>5 DEF IInv, StageInv, Claimant
<1>8. ReadingInv'
  BY <1>0, <1>2, <1>3, Concluded DEF IInv, ReadingInv, Claimant, Verified
<1>9. CertifiedTwice'
  BY <1>1, <1>2, <1>4 DEF IInv, CertifiedTwice
<1>. QED
  BY <1>6, <1>7, <1>8, <1>9 DEF Core

LEMMA FillResultCore ==
    ASSUME IInv, NEW c \in Callers, FillResult(c)
    PROVE  Core'
<1> DEFINE i == call[c].id
<1>0. TypeOK /\ pc[c] = "fill_result" /\ pc[c] \in Claimant
  BY DEF IInv, FillResult, Claimant
<1>1. /\ i \in Ids
      /\ claims[i] # "absent"
      /\ \A d \in Callers : (d # c /\ pc[d] \in Claimant) => call[d].id # i
  BY <1>0, Claimed
<1>2. /\ UNCHANGED <<claims, spawns, seen>>
      /\ results' = [results EXCEPT ![i] = task[c].state]
      /\ Return(c)
  BY DEF FillResult, history
<1>3. /\ pc'[c] = "idle" /\ readings'[c] = <<>>
      /\ \A d \in Callers : d # c =>
            /\ pc'[d] = pc[d] /\ call'[d] = call[d]
            /\ task'[d] = task[d] /\ readings'[d] = readings[d]
  BY <1>0, <1>2, ReturnAt
<1>4. /\ results'[i] = task[c].state
      /\ \A j \in Ids : j # i => results'[j] = results[j]
  BY <1>0, <1>1, <1>2 DEF TypeOK
<1>5. \A d \in Callers : pc[d] \in Claimant => call[d].id \in Ids
  BY Claimed
<1>6. ClaimInv'
  BY <1>2, <1>3 DEF IInv, ClaimInv, Claimant
<1>7. StageInv'
  BY <1>1, <1>2, <1>3, <1>4, <1>5 DEF IInv, StageInv, Claimant
<1>8. ReadingInv'
  BY <1>2, <1>3 DEF IInv, ReadingInv, Claimant, Verified
<1>9. CertifiedTwice'
  <2>1. task[c].state = "DONE" =>
            /\ Len(seen[i]) = 2
            /\ seen[i][1] = seen[i][2]
            /\ seen[i][1] \in Trees
    BY <1>0 DEF IInv, ReadingInv, Verified, Claimant
  <2>. QED
    BY <1>1, <1>2, <1>4, <2>1 DEF IInv, CertifiedTwice
<1>. QED
  BY <1>6, <1>7, <1>8, <1>9 DEF Core

-----------------------------------------------------------------------------
LEMMA CoreStep ==
    ASSUME IInv, [Next]_vars
    PROVE  Core'
<1> USE DEF disk, project, history
<1>0. TypeOK
  BY DEF IInv
<1>1. CASE UNCHANGED <<claims, results, spawns, seen, pc, call, task, readings>>
  BY <1>1, QuietStep, Unread
<1>2. ASSUME NEW t \in Trees, Work(t) PROVE Core'
  BY <1>1, <1>2 DEF Work, locals
<1>3. CASE Register
  BY <1>1, <1>3 DEF Register, locals
<1>4. ASSUME NEW c \in Callers, NEW i \in Ids, NEW e \in Envelopes, Enter(c, i, e)
      PROVE Core'
  <2>1. /\ UNCHANGED <<claims, results, spawns, seen, task, readings>>
        /\ call' = [call EXCEPT ![c] = [id |-> i, envelope |-> e]]
        /\ GoTo(c, "claim") /\ pc[c] = "idle"
    BY <1>4 DEF Enter
  <2>2. pc[c] \notin Claimant /\ "claim" \notin Claimant
    BY <2>1 DEF Claimant
  <2>3. /\ pc'[c] = "claim"
        /\ \A d \in Callers : d # c => pc'[d] = pc[d] /\ call'[d] = call[d]
    BY <1>0, <2>1, GoToAt DEF TypeOK
  <2>. QED
    BY <2>1, <2>2, <2>3, QuietStep, Unread
<1>5. ASSUME NEW c \in Callers, Return(c), pc[c] \notin Claimant,
             UNCHANGED <<claims, results, spawns, seen>>
      PROVE  Core'
  <2>1. "idle" \notin Claimant
    BY DEF Claimant
  <2>. QED
    BY <1>0, <1>5, <2>1, ReturnAt, QuietStep, Unread
<1>6. ASSUME NEW c \in Callers, Compare(c) PROVE Core'
  <2>1. pc[c] \notin Claimant /\ "replay" \notin Claimant
    BY <1>6 DEF Compare, Claimant
  <2>2. CASE Return(c)
    BY <1>5, <1>6, <2>1, <2>2 DEF Compare
  <2>3. CASE GoTo(c, "replay") /\ UNCHANGED <<call, task, readings, reply>>
    BY <1>0, <1>6, <2>1, <2>3, GoToAt, QuietStep, Unread DEF Compare
  <2>. QED
    BY <1>6, <2>2, <2>3 DEF Compare
<1>7. ASSUME NEW c \in Callers, Replay(c) PROVE Core'
  BY <1>5, <1>7 DEF Replay, Claimant
<1>8. ASSUME NEW c \in Callers, Observe(c) PROVE Core'
  BY <1>8, ReadCore DEF Observe
<1>9. ASSUME NEW c \in Callers, Readback(c) PROVE Core'
  BY <1>9, ReadCore DEF Readback
<1>10. ASSUME NEW c \in Callers, Die(c) PROVE Core'
  <2>1. UNCHANGED <<claims, results, spawns, seen>> /\ "idle" \notin Claimant
    BY <1>10 DEF Die, Claimant
  <2>. QED
    BY <1>0, <1>10, <2>1, ReturnAt, QuietStep, Unread DEF Die
<1>11. CASE UNCHANGED vars
  BY <1>1, <1>11 DEF vars, locals
<1>. QED
  BY <1>2, <1>3, <1>4, <1>6, <1>7, <1>8, <1>9, <1>10, <1>11, ClaimCore,
     FillClaimCore, ConcludeCore, FillResultCore, NextCases

\* A record once filled stays, a result file once created stays.
RecordsKept == \A i \in Ids :
    /\ claims[i] \in Envelopes => claims'[i] = claims[i]
    /\ results[i] \in Final => results'[i] = results[i]
    /\ results[i] # "absent" => results'[i] # "absent"

LEMMA RecordsStep ==
    ASSUME IInv, [Next]_vars
    PROVE  RecordsKept
<1> USE DEF disk, project, history, RecordsKept
<1>0. TypeOK
  BY DEF IInv
<1>1. CASE UNCHANGED <<claims, results>>
  BY <1>1
<1>2. ASSUME NEW c \in Callers, Claim(c) PROVE RecordsKept
  BY <1>0, <1>2, EnvelopeAssumption DEF Claim, TypeOK
<1>3. ASSUME NEW c \in Callers, FillClaim(c) PROVE RecordsKept
  <2>1. claims[call[c].id] = "torn"
    BY <1>3 DEF FillClaim, IInv, ClaimInv, Claimant
  <2>. QED
    BY <1>0, <1>3, <2>1, EnvelopeAssumption DEF FillClaim, TypeOK
<1>4. ASSUME NEW c \in Callers, Conclude(c) PROVE RecordsKept
  BY <1>0, <1>4 DEF Conclude, TypeOK, Final
<1>5. ASSUME NEW c \in Callers, FillResult(c) PROVE RecordsKept
  <2>1. results[call[c].id] = "torn" /\ task[c].state \in Final
    BY <1>5 DEF FillResult, IInv, StageInv, ReadingInv, Claimant
  <2>. QED
    BY <1>0, <1>5, <2>1 DEF FillResult, TypeOK, Final
<1>6. ASSUME NEW c \in Callers, Compare(c) PROVE RecordsKept
  BY <1>1, <1>6 DEF Compare
<1>. QED
  BY <1>1, <1>2, <1>3, <1>4, <1>5, <1>6, NextCases
     DEF Work, Register, Enter, Replay, Observe, Readback, Read, Die, vars

LEMMA ReplyStep ==
    ASSUME IInv, [Next]_vars
    PROVE  ReplyInv' /\ DoneIsRecorded'
<1> USE DEF disk, project, history
<1> DEFINE Rests(r) ==
      /\ r.kind \in {"first", "replayed"} =>
            /\ r.call \in Call
            /\ claims'[r.call.id] = r.call.envelope
      /\ r.state = "DONE" =>
            /\ r.kind \in {"first", "replayed"}
            /\ results'[r.call.id] = "DONE"
<1>0. TypeOK
  BY DEF IInv
<1>1. ASSUME NEW d \in Callers PROVE Rests(reply[d])
  <2>1. /\ reply[d].kind \in {"first", "replayed"} =>
              /\ reply[d].call \in Call
              /\ claims[reply[d].call.id] = reply[d].call.envelope
        /\ reply[d].state = "DONE" =>
              /\ reply[d].kind \in {"first", "replayed"}
              /\ results[reply[d].call.id] = "DONE"
    BY DEF IInv, ReplyInv, DoneIsRecorded
  <2>. QED
    BY <2>1, RecordsStep DEF RecordsKept, Call, Final
<1>2. SUFFICES \A d \in Callers : Rests(reply'[d])
  BY DEF ReplyInv, DoneIsRecorded
<1>3. CASE UNCHANGED reply
  BY <1>1, <1>3
<1>4. ASSUME NEW c \in Callers, NEW kind, NEW state, Tell(c, kind, state),
             Rests([kind |-> kind, call |-> call[c], state |-> state])
      PROVE  \A d \in Callers : Rests(reply'[d])
  <2>1. \A d \in Callers : reply'[d] =
            IF d = c THEN [kind |-> kind, call |-> call[c], state |-> state] ELSE reply[d]
    BY <1>0, <1>4 DEF Tell, TypeOK
  <2>. QED
    BY <1>1, <1>4, <2>1
<1>5. ASSUME NEW c \in Callers, Compare(c) PROVE \A d \in Callers : Rests(reply'[d])
  BY <1>3, <1>4, <1>5 DEF Compare
<1>6. ASSUME NEW c \in Callers, Replay(c) PROVE \A d \in Callers : Rests(reply'[d])
  <2>1. call[c] \in Call /\ claims[call[c].id] = call[c].envelope
    BY <1>6 DEF Replay, IInv, CallInv
  <2>2. UNCHANGED <<claims, results>>
    BY <1>6 DEF Replay
  <2>. QED
    BY <1>4, <1>6, <2>1, <2>2 DEF Replay
<1>7. ASSUME NEW c \in Callers, FillResult(c) PROVE \A d \in Callers : Rests(reply'[d])
  <2>1. call[c] \in Call /\ claims[call[c].id] = call[c].envelope
    BY <1>7 DEF FillResult, IInv, CallInv, ClaimInv, Claimant
  <2>2. claims' = claims /\ results'[call[c].id] = task[c].state
    BY <1>0, <1>7, <2>1 DEF FillResult, TypeOK, Call
  <2>. QED
    BY <1>4, <1>7, <2>1, <2>2 DEF FillResult
<1>8. ASSUME NEW c \in Callers, Die(c) PROVE \A d \in Callers : Rests(reply'[d])
  <2>1. \A d \in Callers : reply'[d] = IF d = c THEN Silence ELSE reply[d]
    BY <1>0, <1>8 DEF Die, TypeOK
  <2>2. Rests(Silence)
    BY DEF Silence
  <2>. QED
    BY <1>1, <2>1, <2>2
<1>. QED
  BY <1>3, <1>5, <1>6, <1>7, <1>8, NextCases
     DEF Work, Register, Enter, Claim, FillClaim, Observe, Readback, Read,
         Conclude, vars

-----------------------------------------------------------------------------
LEMMA Initially == Init => IInv
<1> SUFFICES ASSUME Init PROVE IInv
  OBVIOUS
<1>1. Proposed \in Tasks /\ NoCall \in Calls /\ Silence \in Replies /\ "idle" \in Steps
  BY DEF Proposed, Tasks, States, Risks, NoCall, Calls, Silence, Replies, Steps
<1>2. <<>> \in Seq(Reading) /\ Len(<<>>) = 0
  OBVIOUS
<1>3. TypeOK
  BY <1>1, <1>2 DEF Init, TypeOK
<1>4. \A c \in Callers : pc[c] = "idle" /\ pc[c] \notin Claimant /\ readings[c] = <<>>
  BY DEF Init, Claimant
<1>5. CallInv /\ ClaimInv /\ StageInv /\ ReadingInv
  BY <1>4 DEF Init, CallInv, ClaimInv, StageInv, ReadingInv
<1>6. ReplyInv /\ CertifiedTwice /\ DoneIsRecorded
  BY DEF Init, ReplyInv, CertifiedTwice, DoneIsRecorded, Silence
<1>. QED
  BY <1>3, <1>5, <1>6 DEF IInv

LEMMA Inductive == IInv /\ [Next]_vars => IInv'
BY TypeStep, CallStep, CoreStep, ReplyStep DEF IInv, Core

\* The inductive invariant.
THEOREM Invariance == Spec => []IInv
<1>. QED
  BY Initially, Inductive, PTL DEF Spec

\* Type correctness of the canary.
THEOREM TypeCorrect == Spec => []TypeOK
<1>1. IInv => TypeOK
  BY DEF IInv
<1>. QED
  BY <1>1, Invariance, PTL

\* docs/READ_ONLY_CANARY.md, "there is no subprocess replay": two processes at
\* most for a request id, however many calls name it and wherever they end.
THEOREM NoReplay == Spec => []NoSubprocessReplay
<1>1. IInv => NoSubprocessReplay
  BY DEF IInv, StageInv, NoSubprocessReplay
<1>. QED
  BY <1>1, Invariance, PTL

\* DONE stands on two equal valid readings made for the id, and no others.
THEOREM Certification == Spec => []CertifiedTwice
<1>1. IInv => CertifiedTwice
  BY DEF IInv
<1>. QED
  BY <1>1, Invariance, PTL

\* Results are told only to callers that came with the claim's envelope.
THEOREM AnswersEnvelope == Spec => []AnsweredItsEnvelope
<1>1. IInv => AnsweredItsEnvelope
  BY DEF IInv, ReplyInv, AnsweredItsEnvelope
<1>. QED
  BY <1>1, Invariance, PTL

\* DONE is told only when it is on disk.
THEOREM DoneOnDisk == Spec => []DoneIsRecorded
<1>1. IInv => DoneIsRecorded
  BY DEF IInv
<1>. QED
  BY <1>1, Invariance, PTL

\* runtime_canary.py:36: claim and result records are immutable.
THEOREM FinalRecords == Spec => RecordsAreFinal
<1>1. IInv /\ [Next]_vars => RecordsKept
  BY RecordsStep
<1>2. RecordsKept => [RecordsKept]_vars
  OBVIOUS
<1>. QED
  BY <1>1, Invariance, PTL DEF Spec, RecordsAreFinal, RecordsKept

\* An observation and its read-back count as one effect.
LEMMA Halves == (0 + 1) \div 2 = 0 /\ (1 + 1) \div 2 = 1 /\ (2 + 1) \div 2 = 1
OBVIOUS

\* Claim, observation and result implement the promise of AtMostOnce.
THEOREM Refinement == Spec => RefinesAtMostOnce
<1> DEFINE Begun == {i \in Ids : claims[i] # "absent"}
           Effects == [i \in Ids |-> (spawns[i] + 1) \div 2]
           Answers == [i \in Ids |-> IF results[i] = "absent" THEN 0 ELSE 1]
<1>1. Init => Once!Init
  BY Halves DEF Init, Once!Init
<1>2. IInv /\ [Next]_vars => [Once!Next]_(Once!vars)
  <2> SUFFICES ASSUME IInv, [Next]_vars PROVE [Once!Next]_(Once!vars)
    OBVIOUS
  <2> USE DEF disk, project, history
  <2>0. TypeOK
    BY DEF IInv
  <2>1. ASSUME Begun' = Begun, Effects' = Effects, Answers' = Answers
        PROVE  [Once!Next]_(Once!vars)
    BY <2>1 DEF Once!vars
  <2>2. CASE UNCHANGED <<claims, spawns, results>>
    BY <2>1, <2>2
  <2>3. ASSUME NEW c \in Callers, Claim(c) PROVE [Once!Next]_(Once!vars)
    <3>1. CASE claims[call[c].id] # "absent"
      BY <2>2, <2>3, <3>1 DEF Claim
    <3>2. CASE claims[call[c].id] = "absent"
      <4>1. call[c].id \in Ids
        BY <2>3 DEF Claim, IInv, CallInv, Call
      <4>2. /\ call[c].id \notin Begun /\ Begun' = Begun \cup {call[c].id}
            /\ Effects' = Effects /\ Answers' = Answers
        BY <2>0, <2>3, <3>2, <4>1 DEF Claim, TypeOK
      <4>. QED
        BY <4>1, <4>2 DEF Once!Next, Once!Begin
    <3>. QED
      BY <3>1, <3>2
  <2>4. ASSUME NEW c \in Callers, FillClaim(c) PROVE [Once!Next]_(Once!vars)
    <3>1. pc[c] \in Claimant
      BY <2>4 DEF FillClaim, Claimant
    <3>2. call[c].id \in Ids /\ claims[call[c].id] # "absent" /\ call[c].envelope # "absent"
      BY <3>1, Claimed, EnvelopeAssumption
    <3>. QED
      BY <2>0, <2>1, <2>4, <3>2 DEF FillClaim, TypeOK
  <2>5. ASSUME NEW c \in Callers, NEW x \in Reading, Read(c, x), pc[c] = "observe"
        PROVE  [Once!Next]_(Once!vars)
    <3>1. pc[c] \in Claimant
      BY <2>5 DEF Claimant
    <3>2. call[c].id \in Begun /\ results[call[c].id] = "absent" /\ spawns[call[c].id] = 0
      BY <2>5, <3>1, Claimed DEF IInv, StageInv
    <3>3. spawns' = [spawns EXCEPT ![call[c].id] = 1] /\ UNCHANGED <<claims, results>>
      BY <2>5, <3>2 DEF Read
    <3>4. Effects' = [Effects EXCEPT ![call[c].id] = 1]
      BY <2>0, <3>2, <3>3, Halves DEF TypeOK
    <3>5. Effects[call[c].id] = 0 /\ Answers[call[c].id] = 0
      BY <3>2, Halves
    <3>. QED
      BY <3>2, <3>3, <3>4, <3>5 DEF Once!Next, Once!Effect
  <2>6. ASSUME NEW c \in Callers, NEW x \in Reading, Read(c, x), pc[c] = "readback"
        PROVE  [Once!Next]_(Once!vars)
    <3>1. pc[c] \in Claimant
      BY <2>6 DEF Claimant
    <3>2. call[c].id \in Ids /\ spawns[call[c].id] = 1
      BY <2>6, <3>1, Claimed DEF IInv, StageInv
    <3>3. spawns' = [spawns EXCEPT ![call[c].id] = 2] /\ UNCHANGED <<claims, results>>
      BY <2>6, <3>2 DEF Read
    <3>4. Effects' = Effects
      BY <2>0, <3>2, <3>3, Halves DEF TypeOK
    <3>. QED
      BY <2>1, <3>3, <3>4
  <2>7. ASSUME NEW c \in Callers, Conclude(c) PROVE [Once!Next]_(Once!vars)
    <3>1. pc[c] \in Claimant
      BY <2>7 DEF Conclude, Claimant
    <3>2. call[c].id \in Begun /\ results[call[c].id] = "absent"
      BY <2>7, <3>1, Claimed DEF Conclude
    <3>3. /\ Answers[call[c].id] = 0
          /\ Answers' = [Answers EXCEPT ![call[c].id] = 1]
          /\ Begun' = Begun /\ Effects' = Effects
      BY <2>0, <2>7, <3>2 DEF Conclude, TypeOK
    <3>. QED
      BY <3>2, <3>3 DEF Once!Next, Once!Answer
  <2>8. ASSUME NEW c \in Callers, FillResult(c) PROVE [Once!Next]_(Once!vars)
    <3>1. pc[c] \in Claimant /\ pc[c] = "fill_result"
      BY <2>8 DEF FillResult, Claimant
    <3>2. call[c].id \in Ids /\ results[call[c].id] = "torn" /\ task[c].state \in Final
      BY <3>1, Claimed DEF IInv, StageInv, ReadingInv
    <3>. QED
      BY <2>0, <2>1, <2>8, <3>2 DEF FillResult, TypeOK, Final
  <2>9. ASSUME NEW c \in Callers, Compare(c) PROVE [Once!Next]_(Once!vars)
    BY <2>2, <2>9 DEF Compare
  <2>. QED
    BY <2>2, <2>3, <2>4, <2>5, <2>6, <2>7, <2>8, <2>9, NextCases
       DEF Work, Register, Enter, Replay, Observe, Readback, Die, vars
<1>. QED
  BY <1>1, <1>2, Invariance, PTL DEF Spec, RefinesAtMostOnce, Once!Spec
===============================================================================
