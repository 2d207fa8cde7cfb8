----------------------- MODULE ServiceCertificateProofs -----------------------
(***************************************************************************)
(* What holds of the Blender certifications of Service, for any number of  *)
(* calls and of evidence directories; with ServiceCommandProofs, the types *)
(* of the whole.                                                           *)
(*                                                                         *)
(* Evidence is written step by step into a directory that nothing locks.   *)
(* EvidenceInv says what a certification has established at each of its    *)
(* steps, unless another call has written into its directory meanwhile;    *)
(* then it is disturbed, and stays so.                                     *)
(***************************************************************************)
EXTENDS ServiceCommandProofs

\* The steps after the desktop, the renders, their hashes, both hashes, the
\* certificate and its hash are there.
Summed == {"truncate_sum", "fill_sum", "told"}
Filled == {"sum"} \cup Summed
Hashed == {"truncate", "fill"} \cup Filled
Collected == {"hash_desktop"} \cup Hashed
Rendered == {"collect"} \cup Collected
Shot == {"hash", "wait"} \cup Rendered

\* A call has a job from its request on, and goes through the steps of a
\* certification only if it is one; it has no Blender before.
JobInv == \A c \in Certifiers :
    /\ cpc[c] # "new" => job[c] \in C!Jobs
    /\ cpc[c] = "new" => blender[c] = "none" /\ \A d \in Dirs : c \notin users[d]
    /\ cpc[c] \in {"identify", "shoot"} \cup (Rendered \ {"told"}) => job[c].certify
    /\ cpc[c] \in {"identify", "shoot", "hash"} => blender[c] = "none"

\* Whoever rendered what lies in a directory is one of those that wrote into it.
RenderInv == \A d \in Dirs, p \in C!Phases : renders[d][p] \in users[d] \cup {None}

\* A certification whose Blender has ended well writes no more renders, and what it
\* has looked at is still what lies in its directory.
Established(c) ==
    LET d == job[c].dir
    IN  /\ cpc[c] \in Shot => desktop[d] = c
        /\ cpc[c] \in Collected => /\ hashes[c].renders = renders[d]
                                   /\ \A p \in C!Phases : renders[d][p] # None
        /\ cpc[c] \in Hashed => hashes[c].desktop = c
        /\ cpc[c] \in Filled => certificate[d] = C!Text(c)
        /\ cpc[c] \in Summed => sum[c] = certificate[d]
        /\ cpc[c] = "told" => checksum[d] = certificate[d]

Evidence(c) ==
    /\ cpc[c] \in Shot => c \in users[job[c].dir]
    /\ cpc[c] \in Rendered => blender[c] = "verified"
    /\ c \notin disturbed => Established(c)

EvidenceInv == \A c \in Certifiers : cpc[c] # "new" /\ job[c].certify => Evidence(c)

-----------------------------------------------------------------------------
\* Splits a step into the actions of certifications, so that every proof can cite it.
LEMMA CertifyCases ==
    ASSUME [Next]_vars, NEW P,
           ASSUME NEW c \in Certifiers, NEW j \in C!Jobs, C!Ask(c, j) PROVE P,
           ASSUME NEW c \in Certifiers, C!Identify(c) PROVE P,
           ASSUME NEW c \in Certifiers, C!Shoot(c) PROVE P,
           ASSUME NEW c \in Certifiers, C!ShootLate(c) PROVE P,
           ASSUME NEW c \in Certifiers, C!Start(c) PROVE P,
           ASSUME NEW c \in Certifiers, C!Blender(c) PROVE P,
           ASSUME NEW c \in Certifiers, C!Compare(c) PROVE P,
           ASSUME NEW c \in Certifiers, C!Timeout(c) PROVE P,
           ASSUME NEW c \in Certifiers, C!Collect(c) PROVE P,
           ASSUME NEW c \in Certifiers, C!HashDesktop(c) PROVE P,
           ASSUME NEW c \in Certifiers, C!Truncate(c) PROVE P,
           ASSUME NEW c \in Certifiers, C!Fill(c) PROVE P,
           ASSUME NEW c \in Certifiers, C!HashCertificate(c) PROVE P,
           ASSUME NEW c \in Certifiers, C!TruncateSum(c) PROVE P,
           ASSUME NEW c \in Certifiers, C!FillSum(c) PROVE P,
           ASSUME NEW c \in Certifiers, C!FailToWrite(c) PROVE P,
           ASSUME NEW S \in SUBSET {c \in Certifiers : C!Running(c)}, C!Kill(S) PROVE P,
           ASSUME UNCHANGED certifying PROVE P
    PROVE  P
  BY DEF Next, vars, Execute, Certify, Elsewhere, BridgeDies, LocalDies, C!Step,
       C!Victims

\* Every variable of the certifications stays in its set.
LEMMA CertifyTypeStep ==
    ASSUME C!TypeOK, JobInv, [Next]_vars
    PROVE  C!TypeOK'
<1>1. ASSUME NEW c \in Certifiers, NEW j \in C!Jobs, C!Ask(c, j) PROVE C!TypeOK'
  BY <1>1 DEF C!Ask, C!GoTo, C!evidence, C!history, C!Jobs, C!TypeOK, C!Steps, C!Ended
<1>2. ASSUME NEW c \in Certifiers, C!Identify(c) PROVE C!TypeOK'
  BY <1>2 DEF C!Identify, C!GoTo, C!evidence, C!history, C!TypeOK, C!Steps, C!Ended
<1>3. ASSUME NEW c \in Certifiers, C!Shoot(c) PROVE C!TypeOK'
  <2>1. cpc[c] # "new" /\ job[c].dir \in Dirs
    BY <1>3 DEF C!Shoot, JobInv, C!Jobs
  <2>2. desktop' \in [Dirs -> C!Pictures]
    BY <1>3, <2>1 DEF C!Shoot, C!Dir, C!TypeOK, C!Pictures
  <2>3. users' \in [Dirs -> SUBSET Certifiers] /\ disturbed' \subseteq Certifiers
    BY <1>3, <2>1 DEF C!Shoot, C!Writes, C!Dir, C!history, C!TypeOK
  <2>4. cpc' \in [Certifiers -> C!Steps]
    BY <1>3 DEF C!Shoot, C!GoTo, C!TypeOK, C!Steps, C!Ended
  <2>5. UNCHANGED <<renders, certificate, checksum, job, blender, hashes, sum>>
    BY <1>3 DEF C!Shoot
  <2>. QED
    BY <2>2, <2>3, <2>4, <2>5 DEF C!TypeOK
<1>4. ASSUME NEW c \in Certifiers, C!ShootLate(c) PROVE C!TypeOK'
  <2>1. cpc[c] # "new" /\ job[c].dir \in Dirs
    BY <1>4 DEF C!ShootLate, JobInv, C!Jobs
  <2>2. desktop' \in [Dirs -> C!Pictures]
    BY <1>4, <2>1 DEF C!ShootLate, C!Dir, C!TypeOK, C!Pictures
  <2>3. users' \in [Dirs -> SUBSET Certifiers] /\ disturbed' \subseteq Certifiers
    BY <1>4, <2>1 DEF C!ShootLate, C!Writes, C!Dir, C!history, C!TypeOK
  <2>4. cpc' \in [Certifiers -> C!Steps]
    BY <1>4 DEF C!ShootLate, C!GoTo, C!TypeOK, C!Steps, C!Ended
  <2>5. UNCHANGED <<renders, certificate, checksum, job, blender, hashes, sum>>
    BY <1>4 DEF C!ShootLate
  <2>. QED
    BY <2>2, <2>3, <2>4, <2>5 DEF C!TypeOK
<1>5. ASSUME NEW c \in Certifiers, C!Start(c) PROVE C!TypeOK'
  BY <1>5 DEF C!Start, C!GoTo, C!evidence, C!history, C!Phases, C!TypeOK, C!Steps,
       C!Ended
<1>6. ASSUME NEW c \in Certifiers, C!Blender(c) PROVE C!TypeOK'
  <2>1. cpc[c] # "new" /\ job[c].dir \in Dirs
    BY <1>6 DEF C!Blender, C!Phases, JobInv, C!Jobs
  <2>2. blender' \in [Certifiers -> C!Phases \cup {"none", "verified", "failed"}]
    BY <1>6 DEF C!Blender, C!Phases, C!Follows, C!TypeOK
  <2>3. renders' \in [Dirs -> [C!Phases -> C!Pictures]]
    <3>1. [renders[job[c].dir] EXCEPT ![blender[c]] = c] \in [C!Phases -> C!Pictures]
      BY <2>1 DEF C!TypeOK, C!Pictures
    <3>2. \/ UNCHANGED renders
          \/ renders' = [renders EXCEPT ![job[c].dir] =
                             [renders[job[c].dir] EXCEPT ![blender[c]] = c]]
      BY <1>6 DEF C!Blender, C!Dir
    <3>. QED
      BY <2>1, <3>1, <3>2 DEF C!TypeOK
  <2>4. users' \in [Dirs -> SUBSET Certifiers] /\ disturbed' \subseteq Certifiers
    BY <1>6, <2>1 DEF C!Blender, C!Writes, C!Dir, C!history, C!TypeOK
  <2>5. UNCHANGED <<desktop, certificate, checksum, cpc, job, hashes, sum>>
    BY <1>6 DEF C!Blender
  <2>. QED
    BY <2>2, <2>3, <2>4, <2>5 DEF C!TypeOK
<1>7. ASSUME NEW c \in Certifiers, C!Compare(c) PROVE C!TypeOK'
  BY <1>7 DEF C!Compare, C!GoTo, C!evidence, C!history, C!TypeOK, C!Steps, C!Ended
<1>8. ASSUME NEW c \in Certifiers, C!Timeout(c) PROVE C!TypeOK'
  BY <1>8 DEF C!Timeout, C!GoTo, C!evidence, C!history, C!Phases, C!TypeOK, C!Steps,
       C!Ended
<1>9. ASSUME NEW c \in Certifiers, C!Collect(c) PROVE C!TypeOK'
  <2>1. cpc[c] # "new" /\ job[c].dir \in Dirs
    BY <1>9 DEF C!Collect, JobInv, C!Jobs
  <2>2. [hashes[c] EXCEPT !.renders = renders[job[c].dir]] \in C!Hashes
    BY <2>1 DEF C!TypeOK, C!Hashes
  <2>3. \/ UNCHANGED hashes
        \/ hashes' = [hashes EXCEPT
                        ![c] = [hashes[c] EXCEPT !.renders = renders[job[c].dir]]]
    BY <1>9 DEF C!Collect, C!Dir
  <2>4. hashes' \in [Certifiers -> C!Hashes]
    BY <2>2, <2>3 DEF C!TypeOK
  <2>5. cpc' \in [Certifiers -> C!Steps]
    BY <1>9 DEF C!Collect, C!GoTo, C!TypeOK, C!Steps, C!Ended
  <2>6. UNCHANGED <<C!evidence, job, blender, sum, C!history>>
    BY <1>9 DEF C!Collect
  <2>. QED
    BY <2>4, <2>5, <2>6 DEF C!TypeOK, C!evidence, C!history
<1>10. ASSUME NEW c \in Certifiers, C!HashDesktop(c) PROVE C!TypeOK'
  <2>1. cpc[c] # "new" /\ job[c].dir \in Dirs
    BY <1>10 DEF C!HashDesktop, JobInv, C!Jobs
  <2>2. [hashes[c] EXCEPT !.desktop = desktop[job[c].dir]] \in C!Hashes
    BY <2>1 DEF C!TypeOK, C!Hashes
  <2>3. \/ UNCHANGED hashes
        \/ hashes' = [hashes EXCEPT
                        ![c] = [hashes[c] EXCEPT !.desktop = desktop[job[c].dir]]]
    BY <1>10 DEF C!HashDesktop, C!Dir
  <2>4. hashes' \in [Certifiers -> C!Hashes]
    BY <2>2, <2>3 DEF C!TypeOK
  <2>5. cpc' \in [Certifiers -> C!Steps]
    BY <1>10 DEF C!HashDesktop, C!GoTo, C!TypeOK, C!Steps, C!Ended
  <2>6. UNCHANGED <<C!evidence, job, blender, sum, C!history>>
    BY <1>10 DEF C!HashDesktop
  <2>. QED
    BY <2>4, <2>5, <2>6 DEF C!TypeOK, C!evidence, C!history
<1>11. ASSUME NEW c \in Certifiers, C!Truncate(c) PROVE C!TypeOK'
  <2>1. cpc[c] # "new" /\ job[c].dir \in Dirs
    BY <1>11 DEF C!Truncate, JobInv, C!Jobs
  <2>2. C!Empty \in C!Texts
    BY <2>1 DEF C!Empty, C!Absent, C!Texts, C!NoHashes, C!Hashes, C!TypeOK, C!Pictures
  <2>. QED
    BY <1>11, <2>1, <2>2 DEF C!Truncate, C!WriteCertificate, C!GoTo, C!Writes, C!Dir,
         C!TypeOK, C!Steps, C!Ended, C!Pictures
<1>12. ASSUME NEW c \in Certifiers, C!Fill(c) PROVE C!TypeOK'
  <2>1. cpc[c] # "new" /\ job[c].dir \in Dirs
    BY <1>12 DEF C!Fill, JobInv, C!Jobs
  <2>2. C!Text(c) \in C!Texts
    BY <2>1 DEF C!Text, C!Texts, C!TypeOK, C!Pictures
  <2>. QED
    BY <1>12, <2>1, <2>2 DEF C!Fill, C!WriteCertificate, C!GoTo, C!Writes, C!Dir,
         C!TypeOK, C!Steps, C!Ended, C!Pictures
<1>13. ASSUME NEW c \in Certifiers, C!HashCertificate(c) PROVE C!TypeOK'
  <2>1. cpc[c] # "new" /\ job[c].dir \in Dirs
    BY <1>13 DEF C!HashCertificate, JobInv, C!Jobs
  <2>2. certificate[job[c].dir] \in C!Texts
    BY <2>1 DEF C!TypeOK
  <2>. QED
    BY <1>13, <2>2 DEF C!HashCertificate, C!GoTo, C!Dir, C!evidence, C!history,
         C!TypeOK, C!Steps,
         C!Ended
<1>14. ASSUME NEW c \in Certifiers, C!TruncateSum(c) PROVE C!TypeOK'
  <2>1. cpc[c] # "new" /\ job[c].dir \in Dirs
    BY <1>14 DEF C!TruncateSum, JobInv, C!Jobs
  <2>2. C!Empty \in C!Texts
    BY <2>1 DEF C!Empty, C!Absent, C!Texts, C!NoHashes, C!Hashes, C!TypeOK, C!Pictures
  <2>. QED
    BY <1>14, <2>1, <2>2 DEF C!TruncateSum, C!WriteChecksum, C!GoTo, C!Writes, C!Dir,
         C!TypeOK, C!Steps, C!Ended, C!Pictures
<1>15. ASSUME NEW c \in Certifiers, C!FillSum(c) PROVE C!TypeOK'
  <2>1. cpc[c] # "new" /\ job[c].dir \in Dirs
    BY <1>15 DEF C!FillSum, JobInv, C!Jobs
  <2>2. sum[c] \in C!Texts
    BY <2>1 DEF C!TypeOK, C!Pictures
  <2>. QED
    BY <1>15, <2>1, <2>2 DEF C!FillSum, C!WriteChecksum, C!GoTo, C!Writes, C!Dir,
         C!TypeOK, C!Steps, C!Ended, C!Pictures
<1>16. ASSUME NEW c \in Certifiers, C!FailToWrite(c) PROVE C!TypeOK'
  BY <1>16 DEF C!FailToWrite, C!GoTo, C!evidence, C!history, C!TypeOK, C!Steps, C!Ended
<1>17. ASSUME NEW S \in SUBSET {c \in Certifiers : C!Running(c)}, C!Kill(S) PROVE
     C!TypeOK'
  BY <1>17 DEF C!Kill, C!evidence, C!history, C!TypeOK, C!Steps, C!Ended
<1>18. ASSUME UNCHANGED certifying PROVE C!TypeOK'
  BY <1>18 DEF certifying, C!TypeOK, C!Steps, C!Ended
<1>. QED
  BY <1>1, <1>2, <1>3, <1>4, <1>5, <1>6, <1>7, <1>8, <1>9, <1>10, <1>11, <1>12, <1>13,
       <1>14, <1>15, <1>16, <1>17, <1>18, CertifyCases

\* A call keeps its job.
LEMMA JobStep ==
    ASSUME C!TypeOK, JobInv, [Next]_vars
    PROVE  JobInv'
<1>1. ASSUME NEW c \in Certifiers, NEW j \in C!Jobs, C!Ask(c, j) PROVE JobInv'
  BY <1>1 DEF C!Ask, C!GoTo, C!evidence, C!history, C!Jobs, C!TypeOK, JobInv, Shot,
       Rendered, Collected, Hashed, Filled, Summed
<1>2. ASSUME NEW c \in Certifiers, C!Identify(c) PROVE JobInv'
  BY <1>2 DEF C!Identify, C!GoTo, C!evidence, C!history, C!TypeOK, JobInv, Shot,
       Rendered, Collected, Hashed, Filled, Summed
<1>3. ASSUME NEW c \in Certifiers, C!Shoot(c) PROVE JobInv'
  <2>1. \A e \in Certifiers \ {c} : \A d \in Dirs : e \in users'[d] => e \in users[d]
    BY <1>3 DEF C!Shoot, C!GoTo, C!history, C!Writes, C!Dir, C!TypeOK
  <2>2. UNCHANGED <<job, blender>> /\ cpc[c] # "new"
    BY <1>3 DEF C!Shoot
  <2>3. PICK s \in C!Steps \ {"new"} : cpc' = [cpc EXCEPT ![c] = s]
    BY <1>3 DEF C!Shoot, C!GoTo, C!history, C!Writes, C!Dir, C!Steps, C!Ended
  <2>4. s \in {"identify", "shoot"} \cup (Rendered \ {"told"}) => job[c].certify
    BY <1>3, <2>3 DEF C!Shoot, C!GoTo, C!history, C!Writes, C!Dir, JobInv, C!TypeOK,
         Shot, Rendered, Collected, Hashed, Filled, Summed
  <2>5. s \in {"identify", "shoot", "hash"} => blender[c] = "none"
    BY <1>3, <2>3 DEF C!Shoot, C!GoTo, C!history, C!Writes, C!Dir, JobInv, C!TypeOK
  <2>. QED
    BY <2>1, <2>2, <2>3, <2>4, <2>5 DEF JobInv, C!TypeOK
<1>4. ASSUME NEW c \in Certifiers, C!ShootLate(c) PROVE JobInv'
  <2>1. \A e \in Certifiers \ {c} : \A d \in Dirs : e \in users'[d] => e \in users[d]
    BY <1>4 DEF C!ShootLate, C!GoTo, C!Writes, C!Dir, C!TypeOK
  <2>2. UNCHANGED <<job, blender>> /\ cpc[c] # "new"
    BY <1>4 DEF C!ShootLate
  <2>3. PICK s \in C!Steps \ {"new"} : cpc' = [cpc EXCEPT ![c] = s]
    BY <1>4 DEF C!ShootLate, C!GoTo, C!Writes, C!Dir, C!Steps, C!Ended
  <2>4. s \in {"identify", "shoot"} \cup (Rendered \ {"told"}) => job[c].certify
    BY <1>4, <2>3 DEF C!ShootLate, C!GoTo, C!Writes, C!Dir, JobInv, C!TypeOK, Shot,
         Rendered, Collected, Hashed, Filled, Summed
  <2>5. s \in {"identify", "shoot", "hash"} => blender[c] = "none"
    BY <1>4, <2>3 DEF C!ShootLate, C!GoTo, C!Writes, C!Dir, JobInv, C!TypeOK
  <2>. QED
    BY <2>1, <2>2, <2>3, <2>4, <2>5 DEF JobInv, C!TypeOK
<1>5. ASSUME NEW c \in Certifiers, C!Start(c) PROVE JobInv'
  BY <1>5 DEF C!Start, C!GoTo, C!evidence, C!history, C!TypeOK, JobInv, Shot, Rendered,
       Collected, Hashed, Filled, Summed
<1>6. ASSUME NEW c \in Certifiers, C!Blender(c) PROVE JobInv'
  <2>1. cpc[c] # "new" /\ UNCHANGED <<cpc, job>> /\ blender[c] # "none"
    BY <1>6 DEF C!Blender, C!Phases, JobInv
  <2>2. \A e \in Certifiers \ {c} : blender'[e] = blender[e]
                /\ \A d \in Dirs : e \in users'[d] => e \in users[d]
    BY <1>6 DEF C!Blender, C!Writes, C!Dir, C!history, C!TypeOK
  <2>3. cpc[c] \notin {"identify", "shoot", "hash"}
    BY <2>1 DEF JobInv
  <2>. QED
    BY <2>1, <2>2, <2>3 DEF JobInv
<1>7. ASSUME NEW c \in Certifiers, C!Compare(c) PROVE JobInv'
  BY <1>7 DEF C!Compare, C!GoTo, C!evidence, C!history, C!TypeOK, JobInv, Shot,
       Rendered, Collected, Hashed, Filled, Summed
<1>8. ASSUME NEW c \in Certifiers, C!Timeout(c) PROVE JobInv'
  BY <1>8 DEF C!Timeout, C!GoTo, C!evidence, C!history, C!TypeOK, JobInv, Shot,
       Rendered, Collected, Hashed, Filled, Summed
<1>9. ASSUME NEW c \in Certifiers, C!Collect(c) PROVE JobInv'
  BY <1>9 DEF C!Collect, C!GoTo, C!evidence, C!history, C!TypeOK, JobInv, Shot,
       Rendered, Collected, Hashed, Filled, Summed
<1>10. ASSUME NEW c \in Certifiers, C!HashDesktop(c) PROVE JobInv'
  BY <1>10 DEF C!HashDesktop, C!GoTo, C!evidence, C!history, C!TypeOK, JobInv, Shot,
       Rendered, Collected, Hashed, Filled, Summed
<1>11. ASSUME NEW c \in Certifiers, C!Truncate(c) PROVE JobInv'
  <2>1. \A e \in Certifiers \ {c} : \A d \in Dirs : e \in users'[d] => e \in users[d]
    BY <1>11 DEF C!Truncate, C!WriteCertificate, C!GoTo, C!Writes, C!Dir, C!TypeOK
  <2>2. UNCHANGED <<job, blender>> /\ cpc[c] # "new"
    BY <1>11 DEF C!Truncate, C!WriteCertificate, C!WriteChecksum
  <2>3. PICK s \in C!Steps \ {"new"} : cpc' = [cpc EXCEPT ![c] = s]
    BY <1>11 DEF C!Truncate, C!WriteCertificate, C!GoTo, C!Writes, C!Dir, C!Steps,
         C!Ended
  <2>4. s \in {"identify", "shoot"} \cup (Rendered \ {"told"}) => job[c].certify
    BY <1>11, <2>3 DEF C!Truncate, C!WriteCertificate, C!GoTo, C!Writes, C!Dir, JobInv,
         C!TypeOK, Shot, Rendered, Collected, Hashed, Filled, Summed
  <2>5. s \in {"identify", "shoot", "hash"} => blender[c] = "none"
    BY <1>11, <2>3 DEF C!Truncate, C!WriteCertificate, C!GoTo, C!Writes, C!Dir, JobInv,
         C!TypeOK
  <2>. QED
    BY <2>1, <2>2, <2>3, <2>4, <2>5 DEF JobInv, C!TypeOK
<1>12. ASSUME NEW c \in Certifiers, C!Fill(c) PROVE JobInv'
  <2>1. \A e \in Certifiers \ {c} : \A d \in Dirs : e \in users'[d] => e \in users[d]
    BY <1>12 DEF C!Fill, C!WriteCertificate, C!GoTo, C!Writes, C!Dir, C!TypeOK
  <2>2. UNCHANGED <<job, blender>> /\ cpc[c] # "new"
    BY <1>12 DEF C!Fill, C!WriteCertificate, C!WriteChecksum
  <2>3. PICK s \in C!Steps \ {"new"} : cpc' = [cpc EXCEPT ![c] = s]
    BY <1>12 DEF C!Fill, C!WriteCertificate, C!GoTo, C!Writes, C!Dir, C!Steps, C!Ended
  <2>4. s \in {"identify", "shoot"} \cup (Rendered \ {"told"}) => job[c].certify
    BY <1>12, <2>3 DEF C!Fill, C!WriteCertificate, C!GoTo, C!Writes, C!Dir, JobInv,
         C!TypeOK, Shot, Rendered, Collected, Hashed, Filled, Summed
  <2>5. s \in {"identify", "shoot", "hash"} => blender[c] = "none"
    BY <1>12, <2>3 DEF C!Fill, C!WriteCertificate, C!GoTo, C!Writes, C!Dir, JobInv,
         C!TypeOK
  <2>. QED
    BY <2>1, <2>2, <2>3, <2>4, <2>5 DEF JobInv, C!TypeOK
<1>13. ASSUME NEW c \in Certifiers, C!HashCertificate(c) PROVE JobInv'
  BY <1>13 DEF C!HashCertificate, C!GoTo, C!evidence, C!history, C!TypeOK, JobInv, Shot,
       Rendered, Collected, Hashed, Filled, Summed
<1>14. ASSUME NEW c \in Certifiers, C!TruncateSum(c) PROVE JobInv'
  <2>1. \A e \in Certifiers \ {c} : \A d \in Dirs : e \in users'[d] => e \in users[d]
    BY <1>14 DEF C!TruncateSum, C!WriteChecksum, C!GoTo, C!Writes, C!Dir, C!TypeOK
  <2>2. UNCHANGED <<job, blender>> /\ cpc[c] # "new"
    BY <1>14 DEF C!TruncateSum, C!WriteCertificate, C!WriteChecksum
  <2>3. PICK s \in C!Steps \ {"new"} : cpc' = [cpc EXCEPT ![c] = s]
    BY <1>14 DEF C!TruncateSum, C!WriteChecksum, C!GoTo, C!Writes, C!Dir, C!Steps,
         C!Ended
  <2>4. s \in {"identify", "shoot"} \cup (Rendered \ {"told"}) => job[c].certify
    BY <1>14, <2>3 DEF C!TruncateSum, C!WriteChecksum, C!GoTo, C!Writes, C!Dir, JobInv,
         C!TypeOK, Shot, Rendered, Collected, Hashed, Filled, Summed
  <2>5. s \in {"identify", "shoot", "hash"} => blender[c] = "none"
    BY <1>14, <2>3 DEF C!TruncateSum, C!WriteChecksum, C!GoTo, C!Writes, C!Dir, JobInv,
         C!TypeOK
  <2>. QED
    BY <2>1, <2>2, <2>3, <2>4, <2>5 DEF JobInv, C!TypeOK
<1>15. ASSUME NEW c \in Certifiers, C!FillSum(c) PROVE JobInv'
  <2>1. \A e \in Certifiers \ {c} : \A d \in Dirs : e \in users'[d] => e \in users[d]
    BY <1>15 DEF C!FillSum, C!WriteChecksum, C!GoTo, C!Writes, C!Dir, C!TypeOK
  <2>2. UNCHANGED <<job, blender>> /\ cpc[c] # "new"
    BY <1>15 DEF C!FillSum, C!WriteCertificate, C!WriteChecksum
  <2>3. PICK s \in C!Steps \ {"new"} : cpc' = [cpc EXCEPT ![c] = s]
    BY <1>15 DEF C!FillSum, C!WriteChecksum, C!GoTo, C!Writes, C!Dir, C!Steps, C!Ended
  <2>4. s \in {"identify", "shoot"} \cup (Rendered \ {"told"}) => job[c].certify
    BY <1>15, <2>3 DEF C!FillSum, C!WriteChecksum, C!GoTo, C!Writes, C!Dir, JobInv,
         C!TypeOK, Shot, Rendered, Collected, Hashed, Filled, Summed
  <2>5. s \in {"identify", "shoot", "hash"} => blender[c] = "none"
    BY <1>15, <2>3 DEF C!FillSum, C!WriteChecksum, C!GoTo, C!Writes, C!Dir, JobInv,
         C!TypeOK
  <2>. QED
    BY <2>1, <2>2, <2>3, <2>4, <2>5 DEF JobInv, C!TypeOK
<1>16. ASSUME NEW c \in Certifiers, C!FailToWrite(c) PROVE JobInv'
  BY <1>16 DEF C!FailToWrite, C!GoTo, C!evidence, C!history, C!TypeOK, JobInv, Shot,
       Rendered, Collected, Hashed, Filled, Summed
<1>17. ASSUME NEW S \in SUBSET {c \in Certifiers : C!Running(c)}, C!Kill(S) PROVE
     JobInv'
  BY <1>17 DEF C!Kill, C!evidence, C!history, C!Running, C!Ended, C!TypeOK, JobInv,
       Shot, Rendered, Collected, Hashed, Filled, Summed
<1>18. ASSUME UNCHANGED certifying PROVE JobInv'
  BY <1>18 DEF certifying, C!TypeOK, JobInv, Shot, Rendered, Collected, Hashed, Filled,
       Summed
<1>. QED
  BY <1>1, <1>2, <1>3, <1>4, <1>5, <1>6, <1>7, <1>8, <1>9, <1>10, <1>11, <1>12, <1>13,
       <1>14, <1>15, <1>16, <1>17, <1>18, CertifyCases

\* Renders are written by calls that are counted as writers.
LEMMA RenderStep ==
    ASSUME C!TypeOK, RenderInv, [Next]_vars
    PROVE  RenderInv'
<1>1. ASSUME NEW c \in Certifiers, NEW j \in C!Jobs, C!Ask(c, j) PROVE RenderInv'
  BY <1>1 DEF C!Ask, C!GoTo, C!evidence, C!history, C!TypeOK, RenderInv
<1>2. ASSUME NEW c \in Certifiers, C!Identify(c) PROVE RenderInv'
  BY <1>2 DEF C!Identify, C!GoTo, C!evidence, C!history, C!TypeOK, RenderInv
<1>3. ASSUME NEW c \in Certifiers, C!Shoot(c) PROVE RenderInv'
  BY <1>3 DEF C!Shoot, C!GoTo, C!history, C!Writes, C!Dir, C!TypeOK, RenderInv
<1>4. ASSUME NEW c \in Certifiers, C!ShootLate(c) PROVE RenderInv'
  BY <1>4 DEF C!ShootLate, C!GoTo, C!Writes, C!Dir, C!TypeOK, RenderInv
<1>5. ASSUME NEW c \in Certifiers, C!Start(c) PROVE RenderInv'
  BY <1>5 DEF C!Start, C!GoTo, C!evidence, C!history, C!TypeOK, RenderInv
<1>6. ASSUME NEW c \in Certifiers, C!Blender(c) PROVE RenderInv'
  <2>1. \A d \in Dirs : users[d] \subseteq users'[d]
    BY <1>6 DEF C!Blender, C!Writes, C!Dir, C!history, C!TypeOK
  <2>2. CASE UNCHANGED renders
    BY <2>1, <2>2 DEF RenderInv
  <2>3. CASE renders' = [renders EXCEPT ![job[c].dir][blender[c]] = c] /\ C!Writes(c)
    <3>1. \A d \in Dirs, p \in C!Phases :
             renders'[d][p] = renders[d][p] \/ (renders'[d][p] = c /\ d = job[c].dir)
      BY <2>3 DEF C!TypeOK
    <3>2. \A d \in Dirs : d = job[c].dir => c \in users'[d]
      BY <2>3 DEF C!Writes, C!Dir, C!TypeOK
    <3>. QED
      BY <2>1, <3>1, <3>2 DEF RenderInv
  <2>. QED
    BY <1>6, <2>2, <2>3 DEF C!Blender, C!Dir
<1>7. ASSUME NEW c \in Certifiers, C!Compare(c) PROVE RenderInv'
  BY <1>7 DEF C!Compare, C!GoTo, C!evidence, C!history, C!TypeOK, RenderInv
<1>8. ASSUME NEW c \in Certifiers, C!Timeout(c) PROVE RenderInv'
  BY <1>8 DEF C!Timeout, C!GoTo, C!evidence, C!history, C!TypeOK, RenderInv
<1>9. ASSUME NEW c \in Certifiers, C!Collect(c) PROVE RenderInv'
  BY <1>9 DEF C!Collect, C!GoTo, C!evidence, C!history, C!TypeOK, RenderInv
<1>10. ASSUME NEW c \in Certifiers, C!HashDesktop(c) PROVE RenderInv'
  BY <1>10 DEF C!HashDesktop, C!GoTo, C!evidence, C!history, C!TypeOK, RenderInv
<1>11. ASSUME NEW c \in Certifiers, C!Truncate(c) PROVE RenderInv'
  BY <1>11 DEF C!Truncate, C!WriteCertificate, C!GoTo, C!Writes, C!Dir, C!TypeOK,
       RenderInv
<1>12. ASSUME NEW c \in Certifiers, C!Fill(c) PROVE RenderInv'
  BY <1>12 DEF C!Fill, C!WriteCertificate, C!GoTo, C!Writes, C!Dir, C!TypeOK, RenderInv
<1>13. ASSUME NEW c \in Certifiers, C!HashCertificate(c) PROVE RenderInv'
  BY <1>13 DEF C!HashCertificate, C!GoTo, C!evidence, C!history, C!TypeOK, RenderInv
<1>14. ASSUME NEW c \in Certifiers, C!TruncateSum(c) PROVE RenderInv'
  BY <1>14 DEF C!TruncateSum, C!WriteChecksum, C!GoTo, C!Writes, C!Dir, C!TypeOK,
       RenderInv
<1>15. ASSUME NEW c \in Certifiers, C!FillSum(c) PROVE RenderInv'
  BY <1>15 DEF C!FillSum, C!WriteChecksum, C!GoTo, C!Writes, C!Dir, C!TypeOK, RenderInv
<1>16. ASSUME NEW c \in Certifiers, C!FailToWrite(c) PROVE RenderInv'
  BY <1>16 DEF C!FailToWrite, C!GoTo, C!evidence, C!history, C!TypeOK, RenderInv
<1>17. ASSUME NEW S \in SUBSET {c \in Certifiers : C!Running(c)}, C!Kill(S) PROVE
     RenderInv'
  BY <1>17 DEF C!Kill, C!evidence, C!history, C!TypeOK, RenderInv
<1>18. ASSUME UNCHANGED certifying PROVE RenderInv'
  BY <1>18 DEF certifying, C!TypeOK, RenderInv
<1>. QED
  BY <1>1, <1>2, <1>3, <1>4, <1>5, <1>6, <1>7, <1>8, <1>9, <1>10, <1>11, <1>12, <1>13,
       <1>14, <1>15, <1>16, <1>17, <1>18, CertifyCases

\* What another call does to a directory a certification uses: nothing, or the
\* certification is disturbed.
Untouched(c) ==
    LET d == job[c].dir
    IN  /\ UNCHANGED <<cpc[c], job[c], blender[c], hashes[c], sum[c]>>
        /\ disturbed \subseteq disturbed' /\ (c \in users[d] => c \in users'[d])
        /\ c \in disturbed' \/ c \notin users[d]
              \/ UNCHANGED <<desktop[d], renders[d], certificate[d], checksum[d]>>

\* A step is one of the call's own, its end, or leaves it untouched or disturbed.
LEMMA OwnOrUntouched ==
    ASSUME C!TypeOK, JobInv, [Next]_vars, NEW e \in Certifiers, cpc[e] # "new"
    PROVE  C!Step(e) \/ cpc'[e] \in {"dead", "shooting"} \/ Untouched(e)
<1>1. ASSUME NEW c \in Certifiers, NEW j \in C!Jobs, C!Ask(c, j) PROVE C!Step(e) \/
     cpc'[e] \in {"dead", "shooting"} \/ Untouched(e)
  <2>1. CASE c = e
    BY <1>1, <2>1 DEF C!Step
  <2>2. CASE c # e
    <3>1. Untouched(e)
      BY <1>1, <2>2 DEF C!Ask, C!GoTo, C!evidence, C!history, C!TypeOK, Untouched
    <3>. QED
      BY <3>1
  <2>. QED
    BY <2>1, <2>2
<1>2. ASSUME NEW c \in Certifiers, C!Identify(c) PROVE C!Step(e) \/ cpc'[e] \in {"dead",
     "shooting"} \/ Untouched(e)
  <2>1. CASE c = e
    BY <1>2, <2>1 DEF C!Step
  <2>2. CASE c # e
    <3>1. Untouched(e)
      BY <1>2, <2>2 DEF C!Identify, C!GoTo, C!evidence, C!history, C!TypeOK, Untouched
    <3>. QED
      BY <3>1
  <2>. QED
    BY <2>1, <2>2
<1>3. ASSUME NEW c \in Certifiers, C!Shoot(c) PROVE C!Step(e) \/ cpc'[e] \in {"dead",
     "shooting"} \/ Untouched(e)
  <2>1. CASE c = e
    BY <1>3, <2>1 DEF C!Step
  <2>2. CASE c # e
    <3>1. UNCHANGED <<cpc[e], job[e], blender[e], hashes[e], sum[e], certificate, checksum,
                    renders>>
      BY <1>3, <2>2 DEF C!Shoot, C!GoTo, C!TypeOK
    <3>2. CASE UNCHANGED <<desktop, users, disturbed>>
      BY <3>1, <3>2 DEF Untouched
    <3>3. CASE C!Writes(c) /\ \A d \in Dirs \ {job[c].dir} : desktop'[d] = desktop[d]
      <4>1. disturbed \subseteq disturbed' /\ \A d \in Dirs : users[d] \subseteq users'[d]
        BY <3>3 DEF C!Writes, C!Dir, C!TypeOK
      <4>2. e \in users[job[c].dir] => e \in disturbed'
        BY <2>2, <3>3 DEF C!Writes, C!Dir
      <4>3. job[e].dir \in Dirs
        BY DEF JobInv, C!Jobs
      <4>. QED
        BY <3>1, <3>3, <4>1, <4>2, <4>3 DEF Untouched
    <3>4. \/ UNCHANGED <<desktop, users, disturbed>>
          \/ C!Writes(c) /\ desktop' = [desktop EXCEPT ![job[c].dir] = c]
      BY <1>3 DEF C!Shoot, C!Dir, C!history
    <3>5. C!Writes(c) /\ desktop' = [desktop EXCEPT ![job[c].dir] = c]
             => \A d \in Dirs \ {job[c].dir} : desktop'[d] = desktop[d]
      BY DEF C!TypeOK
    <3>. QED
      BY <3>2, <3>3, <3>4, <3>5
  <2>. QED
    BY <2>1, <2>2
<1>4. ASSUME NEW c \in Certifiers, C!ShootLate(c) PROVE C!Step(e) \/ cpc'[e] \in
     {"dead", "shooting"} \/ Untouched(e)
  <2>1. CASE c = e
    BY <1>4, <2>1 DEF C!Step
  <2>2. CASE c # e
    <3>1. Untouched(e)
      BY <1>4, <2>2 DEF C!ShootLate, C!GoTo, C!Writes, C!Dir, C!TypeOK, Untouched
    <3>. QED
      BY <3>1
  <2>. QED
    BY <2>1, <2>2
<1>5. ASSUME NEW c \in Certifiers, C!Start(c) PROVE C!Step(e) \/ cpc'[e] \in {"dead",
     "shooting"} \/ Untouched(e)
  <2>1. CASE c = e
    BY <1>5, <2>1 DEF C!Step
  <2>2. CASE c # e
    <3>1. Untouched(e)
      BY <1>5, <2>2 DEF C!Start, C!GoTo, C!evidence, C!history, C!TypeOK, Untouched
    <3>. QED
      BY <3>1
  <2>. QED
    BY <2>1, <2>2
<1>6. ASSUME NEW c \in Certifiers, C!Blender(c) PROVE C!Step(e) \/ cpc'[e] \in {"dead",
     "shooting"} \/ Untouched(e)
  <2>1. CASE c = e
    BY <1>6, <2>1 DEF C!Step
  <2>2. CASE c # e
    <3>1. UNCHANGED <<cpc[e], job[e], blender[e], hashes[e], sum[e], certificate, checksum,
                    desktop>>
      BY <1>6, <2>2 DEF C!Blender, C!GoTo, C!TypeOK
    <3>2. CASE UNCHANGED <<renders, users, disturbed>>
      BY <3>1, <3>2 DEF Untouched
    <3>3. CASE C!Writes(c) /\ \A d \in Dirs \ {job[c].dir} : renders'[d] = renders[d]
      <4>1. disturbed \subseteq disturbed' /\ \A d \in Dirs : users[d] \subseteq users'[d]
        BY <3>3 DEF C!Writes, C!Dir, C!TypeOK
      <4>2. e \in users[job[c].dir] => e \in disturbed'
        BY <2>2, <3>3 DEF C!Writes, C!Dir
      <4>3. job[e].dir \in Dirs
        BY DEF JobInv, C!Jobs
      <4>. QED
        BY <3>1, <3>3, <4>1, <4>2, <4>3 DEF Untouched
    <3>4. \/ UNCHANGED <<renders, users, disturbed>>
          \/ C!Writes(c) /\ renders' = [renders EXCEPT ![job[c].dir][blender[c]] = c]
      BY <1>6 DEF C!Blender, C!Dir, C!history
    <3>5. C!Writes(c) /\ renders' = [renders EXCEPT ![job[c].dir][blender[c]] = c]
             => \A d \in Dirs \ {job[c].dir} : renders'[d] = renders[d]
      BY DEF C!TypeOK
    <3>. QED
      BY <3>2, <3>3, <3>4, <3>5
  <2>. QED
    BY <2>1, <2>2
<1>7. ASSUME NEW c \in Certifiers, C!Compare(c) PROVE C!Step(e) \/ cpc'[e] \in {"dead",
     "shooting"} \/ Untouched(e)
  <2>1. CASE c = e
    BY <1>7, <2>1 DEF C!Step
  <2>2. CASE c # e
    <3>1. Untouched(e)
      BY <1>7, <2>2 DEF C!Compare, C!GoTo, C!evidence, C!history, C!TypeOK, Untouched
    <3>. QED
      BY <3>1
  <2>. QED
    BY <2>1, <2>2
<1>8. ASSUME NEW c \in Certifiers, C!Timeout(c) PROVE C!Step(e) \/ cpc'[e] \in {"dead",
     "shooting"} \/ Untouched(e)
  <2>1. CASE c = e
    BY <1>8, <2>1 DEF C!Step
  <2>2. CASE c # e
    <3>1. Untouched(e)
      BY <1>8, <2>2 DEF C!Timeout, C!GoTo, C!evidence, C!history, C!TypeOK, Untouched
    <3>. QED
      BY <3>1
  <2>. QED
    BY <2>1, <2>2
<1>9. ASSUME NEW c \in Certifiers, C!Collect(c) PROVE C!Step(e) \/ cpc'[e] \in {"dead",
     "shooting"} \/ Untouched(e)
  <2>1. CASE c = e
    BY <1>9, <2>1 DEF C!Step
  <2>2. CASE c # e
    <3>1. Untouched(e)
      BY <1>9, <2>2 DEF C!Collect, C!GoTo, C!evidence, C!history, C!TypeOK, Untouched
    <3>. QED
      BY <3>1
  <2>. QED
    BY <2>1, <2>2
<1>10. ASSUME NEW c \in Certifiers, C!HashDesktop(c) PROVE C!Step(e) \/ cpc'[e] \in
     {"dead", "shooting"} \/ Untouched(e)
  <2>1. CASE c = e
    BY <1>10, <2>1 DEF C!Step
  <2>2. CASE c # e
    <3>1. Untouched(e)
      BY <1>10, <2>2 DEF C!HashDesktop, C!GoTo, C!evidence, C!history, C!TypeOK,
           Untouched
    <3>. QED
      BY <3>1
  <2>. QED
    BY <2>1, <2>2
<1>11. ASSUME NEW c \in Certifiers, C!Truncate(c) PROVE C!Step(e) \/ cpc'[e] \in
     {"dead", "shooting"} \/ Untouched(e)
  <2>1. CASE c = e
    BY <1>11, <2>1 DEF C!Step
  <2>2. CASE c # e
    <3>1. Untouched(e)
      BY <1>11, <2>2 DEF C!Truncate, C!WriteCertificate, C!GoTo, C!Writes, C!Dir,
           C!TypeOK, Untouched
    <3>. QED
      BY <3>1
  <2>. QED
    BY <2>1, <2>2
<1>12. ASSUME NEW c \in Certifiers, C!Fill(c) PROVE C!Step(e) \/ cpc'[e] \in {"dead",
     "shooting"} \/ Untouched(e)
  <2>1. CASE c = e
    BY <1>12, <2>1 DEF C!Step
  <2>2. CASE c # e
    <3>1. Untouched(e)
      BY <1>12, <2>2 DEF C!Fill, C!WriteCertificate, C!GoTo, C!Writes, C!Dir, C!TypeOK,
           Untouched
    <3>. QED
      BY <3>1
  <2>. QED
    BY <2>1, <2>2
<1>13. ASSUME NEW c \in Certifiers, C!HashCertificate(c) PROVE C!Step(e) \/ cpc'[e] \in
     {"dead", "shooting"} \/ Untouched(e)
  <2>1. CASE c = e
    BY <1>13, <2>1 DEF C!Step
  <2>2. CASE c # e
    <3>1. Untouched(e)
      BY <1>13, <2>2 DEF C!HashCertificate, C!GoTo, C!evidence, C!history, C!TypeOK,
           Untouched
    <3>. QED
      BY <3>1
  <2>. QED
    BY <2>1, <2>2
<1>14. ASSUME NEW c \in Certifiers, C!TruncateSum(c) PROVE C!Step(e) \/ cpc'[e] \in
     {"dead", "shooting"} \/ Untouched(e)
  <2>1. CASE c = e
    BY <1>14, <2>1 DEF C!Step
  <2>2. CASE c # e
    <3>1. Untouched(e)
      BY <1>14, <2>2 DEF C!TruncateSum, C!WriteChecksum, C!GoTo, C!Writes, C!Dir,
           C!TypeOK, Untouched
    <3>. QED
      BY <3>1
  <2>. QED
    BY <2>1, <2>2
<1>15. ASSUME NEW c \in Certifiers, C!FillSum(c) PROVE C!Step(e) \/ cpc'[e] \in {"dead",
     "shooting"} \/ Untouched(e)
  <2>1. CASE c = e
    BY <1>15, <2>1 DEF C!Step
  <2>2. CASE c # e
    <3>1. Untouched(e)
      BY <1>15, <2>2 DEF C!FillSum, C!WriteChecksum, C!GoTo, C!Writes, C!Dir, C!TypeOK,
           Untouched
    <3>. QED
      BY <3>1
  <2>. QED
    BY <2>1, <2>2
<1>16. ASSUME NEW c \in Certifiers, C!FailToWrite(c) PROVE C!Step(e) \/ cpc'[e] \in
     {"dead", "shooting"} \/ Untouched(e)
  <2>1. CASE c = e
    BY <1>16, <2>1 DEF C!Step
  <2>2. CASE c # e
    <3>1. Untouched(e)
      BY <1>16, <2>2 DEF C!FailToWrite, C!GoTo, C!evidence, C!history, C!TypeOK,
           Untouched
    <3>. QED
      BY <3>1
  <2>. QED
    BY <2>1, <2>2
<1>17. ASSUME NEW S \in SUBSET {c \in Certifiers : C!Running(c)}, C!Kill(S) PROVE
     C!Step(e) \/ cpc'[e] \in {"dead", "shooting"} \/ Untouched(e)
  <2>1. \A c \in Certifiers : cpc'[c] \in {cpc[c], "dead", "shooting"}
    BY <1>17 DEF C!Kill, C!TypeOK
  <2>2. UNCHANGED <<desktop, renders, certificate, checksum, job, blender, hashes, sum, users,
                    disturbed>>
    BY <1>17 DEF C!Kill, C!evidence, C!history
  <2>. QED
    BY <2>1, <2>2 DEF Untouched
<1>18. ASSUME UNCHANGED certifying PROVE C!Step(e) \/ cpc'[e] \in {"dead", "shooting"}
     \/ Untouched(e)
  BY <1>18 DEF certifying, Untouched
<1>. QED
  BY <1>1, <1>2, <1>3, <1>4, <1>5, <1>6, <1>7, <1>8, <1>9, <1>10, <1>11, <1>12, <1>13,
       <1>14, <1>15, <1>16, <1>17, <1>18, CertifyCases

\* A call that has not been made yet is made, or not.
LEMMA NewStays ==
    ASSUME C!TypeOK, [Next]_vars, NEW e \in Certifiers, cpc[e] = "new"
    PROVE  cpc'[e] = "new" \/ \E k \in C!Jobs : C!Ask(e, k)
<1>1. ASSUME NEW c \in Certifiers, NEW j \in C!Jobs, C!Ask(c, j) PROVE cpc'[e] = "new"
     \/ \E m \in C!Jobs : C!Ask(e, m)
  BY <1>1 DEF C!Ask, C!GoTo, C!evidence, C!history, C!TypeOK
<1>2. ASSUME NEW c \in Certifiers, C!Identify(c) PROVE cpc'[e] = "new" \/ \E m \in
     C!Jobs : C!Ask(e, m)
  BY <1>2 DEF C!Identify, C!GoTo, C!evidence, C!history, C!TypeOK
<1>3. ASSUME NEW c \in Certifiers, C!Shoot(c) PROVE cpc'[e] = "new" \/ \E m \in C!Jobs :
     C!Ask(e, m)
  BY <1>3 DEF C!Shoot, C!GoTo, C!history, C!Writes, C!Dir, C!TypeOK
<1>4. ASSUME NEW c \in Certifiers, C!ShootLate(c) PROVE cpc'[e] = "new" \/ \E m \in
     C!Jobs : C!Ask(e, m)
  BY <1>4 DEF C!ShootLate, C!GoTo, C!Writes, C!Dir, C!TypeOK
<1>5. ASSUME NEW c \in Certifiers, C!Start(c) PROVE cpc'[e] = "new" \/ \E m \in C!Jobs :
     C!Ask(e, m)
  BY <1>5 DEF C!Start, C!GoTo, C!evidence, C!history, C!TypeOK
<1>6. ASSUME NEW c \in Certifiers, C!Blender(c) PROVE cpc'[e] = "new" \/ \E m \in C!Jobs
     : C!Ask(e, m)
  BY <1>6 DEF C!Blender, C!history, C!Writes, C!Dir, C!TypeOK
<1>7. ASSUME NEW c \in Certifiers, C!Compare(c) PROVE cpc'[e] = "new" \/ \E m \in C!Jobs
     : C!Ask(e, m)
  BY <1>7 DEF C!Compare, C!GoTo, C!evidence, C!history, C!TypeOK
<1>8. ASSUME NEW c \in Certifiers, C!Timeout(c) PROVE cpc'[e] = "new" \/ \E m \in C!Jobs
     : C!Ask(e, m)
  BY <1>8 DEF C!Timeout, C!GoTo, C!evidence, C!history, C!TypeOK
<1>9. ASSUME NEW c \in Certifiers, C!Collect(c) PROVE cpc'[e] = "new" \/ \E m \in C!Jobs
     : C!Ask(e, m)
  BY <1>9 DEF C!Collect, C!GoTo, C!evidence, C!history, C!TypeOK
<1>10. ASSUME NEW c \in Certifiers, C!HashDesktop(c) PROVE cpc'[e] = "new" \/ \E m \in
     C!Jobs : C!Ask(e, m)
  BY <1>10 DEF C!HashDesktop, C!GoTo, C!evidence, C!history, C!TypeOK
<1>11. ASSUME NEW c \in Certifiers, C!Truncate(c) PROVE cpc'[e] = "new" \/ \E m \in
     C!Jobs : C!Ask(e, m)
  BY <1>11 DEF C!Truncate, C!WriteCertificate, C!GoTo, C!Writes, C!Dir, C!TypeOK
<1>12. ASSUME NEW c \in Certifiers, C!Fill(c) PROVE cpc'[e] = "new" \/ \E m \in C!Jobs :
     C!Ask(e, m)
  BY <1>12 DEF C!Fill, C!WriteCertificate, C!GoTo, C!Writes, C!Dir, C!TypeOK
<1>13. ASSUME NEW c \in Certifiers, C!HashCertificate(c) PROVE cpc'[e] = "new" \/ \E m
     \in C!Jobs : C!Ask(e, m)
  BY <1>13 DEF C!HashCertificate, C!GoTo, C!evidence, C!history, C!TypeOK
<1>14. ASSUME NEW c \in Certifiers, C!TruncateSum(c) PROVE cpc'[e] = "new" \/ \E m \in
     C!Jobs : C!Ask(e, m)
  BY <1>14 DEF C!TruncateSum, C!WriteChecksum, C!GoTo, C!Writes, C!Dir, C!TypeOK
<1>15. ASSUME NEW c \in Certifiers, C!FillSum(c) PROVE cpc'[e] = "new" \/ \E m \in
     C!Jobs : C!Ask(e, m)
  BY <1>15 DEF C!FillSum, C!WriteChecksum, C!GoTo, C!Writes, C!Dir, C!TypeOK
<1>16. ASSUME NEW c \in Certifiers, C!FailToWrite(c) PROVE cpc'[e] = "new" \/ \E m \in
     C!Jobs : C!Ask(e, m)
  BY <1>16 DEF C!FailToWrite, C!GoTo, C!evidence, C!history, C!TypeOK
<1>17. ASSUME NEW S \in SUBSET {c \in Certifiers : C!Running(c)}, C!Kill(S) PROVE
     cpc'[e] = "new" \/ \E m \in C!Jobs : C!Ask(e, m)
  BY <1>17 DEF C!Kill, C!evidence, C!history, C!TypeOK, C!Running
<1>18. ASSUME UNCHANGED certifying PROVE cpc'[e] = "new" \/ \E m \in C!Jobs : C!Ask(e,
     m)
  BY <1>18 DEF certifying, C!TypeOK
<1>. QED
  BY <1>1, <1>2, <1>3, <1>4, <1>5, <1>6, <1>7, <1>8, <1>9, <1>10, <1>11, <1>12, <1>13,
       <1>14, <1>15, <1>16, <1>17, <1>18, CertifyCases

\* Every step of a certification establishes what the next one relies on.
LEMMA OwnEvidence ==
    ASSUME C!TypeOK, JobInv, EvidenceInv, NEW c \in Certifiers, C!Step(c),
           job'[c].certify
    PROVE  Evidence(c)'
<1>0. cpc[c] # "new" => /\ job[c] \in C!Jobs /\ job[c].dir \in Dirs
                        /\ job[c].certify => Evidence(c)
  BY DEF JobInv, C!Jobs, EvidenceInv
<1>1. ASSUME NEW j \in C!Jobs, C!Ask(c, j) PROVE Evidence(c)'
  BY <1>1, <1>0 DEF C!Ask, C!GoTo, C!evidence, C!history, C!TypeOK, JobInv, Evidence,
       Established, Shot, Rendered, Collected, Hashed, Filled, Summed
<1>2. ASSUME C!Identify(c) PROVE Evidence(c)'
  BY <1>2, <1>0 DEF C!Identify, C!GoTo, C!evidence, C!history, C!TypeOK, JobInv,
       Evidence, Established, Shot, Rendered, Collected, Hashed, Filled, Summed
<1>3. ASSUME C!Shoot(c) PROVE Evidence(c)'
  BY <1>3, <1>0 DEF C!Shoot, C!GoTo, C!history, C!Writes, C!Dir, C!TypeOK, JobInv,
       Evidence, Established, Shot, Rendered, Collected, Hashed, Filled, Summed
<1>4. ASSUME C!ShootLate(c) PROVE Evidence(c)'
  BY <1>4, <1>0 DEF C!ShootLate, C!GoTo, C!Writes, C!Dir, C!TypeOK, JobInv, Evidence,
       Established, Shot, Rendered, Collected, Hashed, Filled, Summed
<1>5. ASSUME C!Start(c) PROVE Evidence(c)'
  BY <1>5, <1>0 DEF C!Start, C!GoTo, C!evidence, C!history, C!TypeOK, JobInv, Evidence,
       Established, Shot, Rendered, Collected, Hashed, Filled, Summed
<1>6. ASSUME C!Blender(c) PROVE Evidence(c)'
  <2>1. cpc[c] # "new" /\ cpc[c] \notin Rendered
    BY <1>6, <1>0 DEF C!Blender, C!Phases, JobInv, Evidence
  <2>2. /\ cpc' = cpc /\ job' = job /\ desktop' = desktop
        /\ c \in disturbed' => c \in disturbed
        /\ disturbed \subseteq disturbed'
        /\ users[job[c].dir] \subseteq users'[job[c].dir]
    BY <1>6, <1>0, <2>1 DEF C!Blender, C!Writes, C!history, C!Dir, C!TypeOK
  <2>3. Evidence(c)
    BY <1>0, <2>1, <2>2
  <2>. QED
    BY <2>1, <2>2, <2>3 DEF Evidence, Established, Rendered, Collected, Hashed, Filled,
         Summed
<1>7. ASSUME C!Compare(c) PROVE Evidence(c)'
  BY <1>7, <1>0 DEF C!Compare, C!GoTo, C!evidence, C!history, C!TypeOK, JobInv,
       Evidence, Established, Shot, Rendered, Collected, Hashed, Filled, Summed
<1>8. ASSUME C!Timeout(c) PROVE Evidence(c)'
  BY <1>8, <1>0 DEF C!Timeout, C!GoTo, C!evidence, C!history, C!TypeOK, JobInv,
       Evidence, Established, Shot, Rendered, Collected, Hashed, Filled, Summed
<1>9. ASSUME C!Collect(c) PROVE Evidence(c)'
  <2>1. cpc[c] = "collect" /\ Evidence(c)
    BY <1>9, <1>0 DEF C!Collect, C!evidence
  <2>2. UNCHANGED <<desktop, renders, job, blender, users, disturbed>>
    BY <1>9 DEF C!Collect, C!evidence, C!history
  <2>3. CASE cpc'[c] = "refused"
    BY <2>3 DEF Evidence, Established, Shot, Rendered, Collected, Hashed, Filled, Summed
  <2>4. CASE cpc'[c] # "refused"
    <3>1. /\ cpc'[c] = "hash_desktop"
          /\ \A p \in C!Phases : renders[job[c].dir][p] # None
          /\ hashes' = [hashes EXCEPT ![c].renders = renders[job[c].dir]]
      BY <1>9, <2>4 DEF C!Collect, C!GoTo, C!Dir, C!TypeOK
    <3>2. hashes'[c].renders = renders[job[c].dir]
      BY <3>1 DEF C!TypeOK, C!Hashes
    <3>. QED
      BY <2>1, <2>2, <3>1, <3>2
      DEF Evidence, Established, Shot, Rendered, Collected, Hashed, Filled, Summed
  <2>. QED
    BY <2>3, <2>4
<1>10. ASSUME C!HashDesktop(c) PROVE Evidence(c)'
  <2>1. cpc[c] = "hash_desktop" /\ Evidence(c)
    BY <1>10, <1>0 DEF C!HashDesktop, C!evidence
  <2>2. UNCHANGED <<desktop, renders, job, blender, users, disturbed>>
    BY <1>10 DEF C!HashDesktop, C!evidence, C!history
  <2>3. /\ cpc'[c] = "truncate"
        /\ hashes' = [hashes EXCEPT ![c].desktop = desktop[job[c].dir]]
    BY <1>10 DEF C!HashDesktop, C!GoTo, C!Dir, C!TypeOK
  <2>4. /\ hashes'[c].renders = hashes[c].renders
        /\ hashes'[c].desktop = desktop[job[c].dir]
    BY <2>3 DEF C!TypeOK, C!Hashes
  <2>. QED
    BY <2>1, <2>2, <2>3, <2>4
    DEF Evidence, Established, Shot, Rendered, Collected, Hashed, Filled, Summed
<1>11. ASSUME C!Truncate(c) PROVE Evidence(c)'
  BY <1>11, <1>0 DEF C!Truncate, C!WriteCertificate, C!GoTo, C!Writes, C!Dir, C!TypeOK,
       JobInv, Evidence, Established, Shot, Rendered, Collected, Hashed, Filled, Summed
<1>12. ASSUME C!Fill(c) PROVE Evidence(c)'
  BY <1>12, <1>0 DEF C!Fill, C!WriteCertificate, C!GoTo, C!Writes, C!Dir, C!TypeOK,
       JobInv, Evidence, Established, Shot, Rendered, Collected, Hashed, Filled, Summed,
       C!Text
<1>13. ASSUME C!HashCertificate(c) PROVE Evidence(c)'
  <2>1. cpc[c] = "sum" /\ Evidence(c)
    BY <1>13, <1>0 DEF C!HashCertificate, C!evidence
  <2>2. UNCHANGED <<C!evidence, job, blender, hashes, C!history>>
    BY <1>13 DEF C!HashCertificate
  <2>3. /\ cpc'[c] = "truncate_sum"
        /\ sum' = [sum EXCEPT ![c] = certificate[job[c].dir]]
    BY <1>13 DEF C!HashCertificate, C!GoTo, C!Dir, C!TypeOK
  <2>4. sum'[c] = certificate[job[c].dir]
    BY <2>3 DEF C!TypeOK
  <2>. QED
    BY <2>1, <2>2, <2>3, <2>4
    DEF C!evidence, C!history, C!Text, Evidence, Established, Shot, Rendered, Collected,
        Hashed, Filled, Summed
<1>14. ASSUME C!TruncateSum(c) PROVE Evidence(c)'
  BY <1>14, <1>0 DEF C!TruncateSum, C!WriteChecksum, C!GoTo, C!Writes, C!Dir, C!TypeOK,
       JobInv, Evidence, Established, Shot, Rendered, Collected, Hashed, Filled, Summed,
       C!Text
<1>15. ASSUME C!FillSum(c) PROVE Evidence(c)'
  BY <1>15, <1>0 DEF C!FillSum, C!WriteChecksum, C!GoTo, C!Writes, C!Dir, C!TypeOK,
       JobInv, Evidence, Established, Shot, Rendered, Collected, Hashed, Filled, Summed,
       C!Text
<1>16. ASSUME C!FailToWrite(c) PROVE Evidence(c)'
  BY <1>16, <1>0 DEF C!FailToWrite, C!GoTo, C!evidence, C!history, C!TypeOK, JobInv,
       Evidence, Established, Shot, Rendered, Collected, Hashed, Filled, Summed
<1>. QED
  BY <1>1, <1>2, <1>3, <1>4, <1>5, <1>6, <1>7, <1>8, <1>9, <1>10, <1>11, <1>12, <1>13,
       <1>14, <1>15, <1>16 DEF C!Step

\* What a certification has established stays, or it is disturbed.
LEMMA EvidenceStep ==
    ASSUME C!TypeOK, JobInv, EvidenceInv, [Next]_vars
    PROVE  EvidenceInv'
<1> SUFFICES ASSUME NEW c \in Certifiers, cpc'[c] # "new", job'[c].certify
             PROVE  Evidence(c)'
  BY DEF EvidenceInv
<1>1. CASE C!Step(c)
  BY <1>1, OwnEvidence
<1>2. CASE cpc'[c] \in {"dead", "shooting"}
  BY <1>2 DEF Evidence, Established, Shot, Rendered, Collected, Hashed, Filled, Summed
<1>3. CASE cpc[c] # "new" /\ Untouched(c)
  <2>1. Evidence(c) /\ job'[c] = job[c]
    BY <1>3 DEF EvidenceInv, Untouched
  <2>2. cpc[c] \in Collected \cup Hashed \cup Filled \cup Summed => cpc[c] \in Shot
    BY DEF Shot, Rendered, Collected, Hashed, Filled, Summed
  <2>3. "told" \in Summed
    BY DEF Summed
  <2>. QED
    BY <1>3, <2>1, <2>2, <2>3 DEF Untouched, Evidence, Established, C!Text
<1>4. CASE cpc[c] = "new"
  BY <1>1, <1>4, NewStays DEF C!Step
<1>. QED
  BY <1>1, <1>2, <1>3, <1>4, OwnOrUntouched

\* The inductive invariant of the certifications.
CertifyInv == C!TypeOK /\ JobInv /\ RenderInv /\ EvidenceInv

\* At the start there is no evidence, and nobody has been asked for any.
LEMMA InitCertifyInv == Init => CertifyInv
<1> SUFFICES ASSUME C!Init PROVE CertifyInv
  BY DEF Init
<1>1. C!NoHashes \in C!Hashes
  BY DEF C!NoHashes, C!Hashes, C!Pictures
<1>2. C!Absent \in C!Texts
  BY <1>1 DEF C!Absent, C!Texts, C!Pictures
<1>3. C!TypeOK
  BY <1>1, <1>2 DEF C!Init, C!TypeOK, C!Steps, C!Pictures, C!Hashes
<1>4. JobInv /\ EvidenceInv
  BY DEF C!Init, JobInv, EvidenceInv, Rendered, Collected, Hashed, Filled, Summed
<1>5. RenderInv
  BY DEF C!Init, C!NoHashes, RenderInv
<1>. QED
  BY <1>3, <1>4, <1>5 DEF CertifyInv

\* What certifications have established holds whatever calls, Blenders and deaths of
\* the bridge interleave.
THEOREM CertifyInvariance == Spec => []CertifyInv
<1>1. Init => CertifyInv
  BY InitCertifyInv
<1>2. CertifyInv /\ [Next]_vars => CertifyInv'
  BY CertifyTypeStep, JobStep, RenderStep, EvidenceStep DEF CertifyInv
<1>. QED
  BY <1>1, <1>2, PTL DEF Spec

\* The variables keep their types, those of the commands and those of the
\* certifications.
THEOREM TypeCorrect == Spec => []TypeOK
<1>1. IInv /\ CertifyInv => TypeOK
  BY DEF IInv, CertifyInv, TypeOK
<1>. QED
  BY <1>1, CommandInvariance, CertifyInvariance, PTL

\* A certificate that was told stands until another call, or a Blender that an
\* earlier one left behind, writes into its directory: every hash in it is of what
\* lies there; and when none ever wrote there before, all pictures are its own.
THEOREM StandingCertificates == Spec => []CertificateStands
<1>1. ASSUME CertifyInv PROVE CertificateStands
  <2> SUFFICES ASSUME NEW c \in Certifiers, cpc[c] = "told", job[c].certify,
                      c \notin disturbed
               PROVE  /\ C!Verifies(c)
                      /\ users[C!Dir(c)] = {c} =>
                            \A p \in C!Phases : renders[C!Dir(c)][p] = c
    BY DEF CertificateStands, C!CertificateStands
  <2>1. Established(c) /\ job[c].dir \in Dirs
    BY <1>1 DEF CertifyInv, EvidenceInv, Evidence, JobInv, C!Jobs
  <2>2. /\ desktop[job[c].dir] = c /\ hashes[c].desktop = c
        /\ hashes[c].renders = renders[job[c].dir]
        /\ certificate[job[c].dir] = C!Text(c)
        /\ checksum[job[c].dir] = certificate[job[c].dir]
        /\ \A p \in C!Phases : renders[job[c].dir][p] # None
    BY <2>1 DEF Established, Shot, Rendered, Collected, Hashed, Filled, Summed
  <2>3. hashes[c] \in C!Hashes
    BY <1>1 DEF CertifyInv, C!TypeOK
  <2>4. hashes[c] = [desktop |-> desktop[job[c].dir], renders |-> renders[job[c].dir]]
    BY <2>2, <2>3 DEF C!Hashes
  <2>5. C!Verifies(c)
    BY <2>2, <2>4 DEF C!Verifies, C!Dir
  <2>6. \A p \in C!Phases : renders[job[c].dir][p] \in users[job[c].dir]
    BY <1>1, <2>1, <2>2 DEF CertifyInv, RenderInv
  <2>. QED
    BY <2>5, <2>6 DEF C!Dir
<1>. QED
  BY <1>1, CertifyInvariance, PTL

-----------------------------------------------------------------------------
(* Service runs its two parts side by side, and does nothing that they do not.     *)

\* Every step of the service is one of Execution or leaves its state as it is: what
\* holds of the executor and the ledger alone holds of them here.
THEOREM ExecutionPart == Spec => E!Spec
<1>1. Init => E!Init
  BY DEF Init
<1>2. [Next]_vars => [E!Next]_E!vars
  <2> SUFFICES ASSUME [Next]_vars PROVE E!Next \/ UNCHANGED E!vars
    OBVIOUS
  <2>1. ASSUME NEW c \in Calls, Execute(c) PROVE E!Next
    BY <2>1 DEF Execute, E!Next
  <2>2. ASSUME UNCHANGED executing PROVE UNCHANGED E!vars
    BY <2>2 DEF executing, E!vars, E!file, E!table
  <2>3. CASE Elsewhere \/ BridgeDies
    BY <2>3 DEF Elsewhere, BridgeDies, E!Next
  <2>4. CASE LocalDies
    BY <2>2, <2>4 DEF LocalDies, E!Next
  <2>. QED
    BY <2>1, <2>2, <2>3, <2>4 DEF Next, vars, Certify
<1>. QED
  BY <1>1, <1>2, PTL DEF Spec, E!Spec

\* The same of the certifications: a death of the bridge is one of theirs.
THEOREM CertificatePart == Spec => C!Spec
<1>1. Init => C!Init
  BY DEF Init
<1>2. [Next]_vars => [C!Next]_C!vars
  <2> SUFFICES ASSUME [Next]_vars PROVE C!Next \/ UNCHANGED C!vars
    OBVIOUS
  <2>1. ASSUME NEW c \in Certifiers, Certify(c) PROVE C!Next
    BY <2>1 DEF Certify, C!Next
  <2>2. ASSUME UNCHANGED certifying PROVE UNCHANGED C!vars
    BY <2>2 DEF certifying, C!vars, C!evidence, C!history
  <2>3. CASE Elsewhere
    BY <2>2, <2>3 DEF Elsewhere
  <2>4. CASE BridgeDies \/ LocalDies
    BY <2>2, <2>4 DEF BridgeDies, LocalDies, C!Next, C!Crash
  <2>. QED
    BY <2>1, <2>2, <2>3, <2>4 DEF Next, vars, Execute
<1>. QED
  BY <1>1, <1>2, PTL DEF Spec, C!Spec

===============================================================================
