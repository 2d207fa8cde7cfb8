------------------------------ MODULE Certificate ------------------------------
(***************************************************************************)
(* The Blender capabilities (capabilities.py, blender.py,                  *)
(* blender_certificate.py): a transaction moves an object of a .blend file *)
(* and moves it back in a Blender of its own; a certification identifies   *)
(* the Blender window, captures the desktop, has the transaction render    *)
(* its three phases, and writes the hashes of it all to certificate.json   *)
(* and the hash of that to certificate.sha256.                             *)
(*                                                                         *)
(* The evidence lies in a directory named for the request id.  Ids may be  *)
(* alike once cleaned, and a client that gives up asks again with its id:  *)
(* calls write into one directory, after each other or at once, and        *)
(* nothing is locked or taken away.  A Blender or a screencapture outlives *)
(* the process that started it.                                            *)
(*                                                                         *)
(* A picture is told apart by the call it was made for, a hash is what it  *)
(* is the hash of.                                                         *)
(***************************************************************************)
EXTENDS FiniteSets

CONSTANTS
    Certifiers,     \* calls of either capability, each made once
    Dirs,           \* evidence directories
    None

Phases == {"before", "after", "restored"}

VARIABLES
    desktop,        \* desktop-identity.png of each directory
    renders,        \* the pictures in renders/ of each directory
    certificate,    \* certificate.json of each directory
    checksum,       \* certificate.sha256 of each directory
    pc, job,        \* of each call
    blender,        \* of each call: how far its Blender has come
    hashes,         \* of each call: what it hashed
    sum,            \* of each call: the certificate whose hash it took
    \* history, read by properties only
    users,          \* the calls that wrote into a directory
    disturbed       \* calls into whose directory another wrote after they did

evidence == <<desktop, renders, certificate, checksum>>
history == <<users, disturbed>>
vars == <<evidence, pc, job, blender, hashes, sum, history>>

Pictures == Certifiers \cup {None}
Hashes == [desktop : Pictures, renders : [Phases -> Pictures]]
NoHashes == [desktop |-> None, renders |-> [p \in Phases |-> None]]
\* "empty": truncated, and not yet written.
Texts == [is : {"absent", "empty", "whole"}, by : Pictures, hashes : Hashes]
Absent == [is |-> "absent", by |-> None, hashes |-> NoHashes]
Empty == [Absent EXCEPT !.is = "empty"]
Text(c) == [is |-> "whole", by |-> c, hashes |-> hashes[c]]

Jobs == [door : {"http", "local"}, certify : BOOLEAN, dir : Dirs]
NoJob == [door |-> "none"]

\* "shooting": dead, but for its screencapture.
Ended == {"told", "refused", "dropped", "dead", "shooting"}
Steps == {"new", "identify", "shoot", "hash", "wait", "collect", "hash_desktop",
          "truncate", "fill", "sum", "truncate_sum", "fill_sum"} \cup Ended

TypeOK ==
    /\ desktop \in [Dirs -> Pictures]
    /\ renders \in [Dirs -> [Phases -> Pictures]]
    /\ certificate \in [Dirs -> Texts]
    /\ checksum \in [Dirs -> Texts]
    /\ pc \in [Certifiers -> Steps]
    /\ job \in [Certifiers -> Jobs \cup {NoJob}]
    /\ blender \in [Certifiers -> Phases \cup {"none", "verified", "failed"}]
    /\ hashes \in [Certifiers -> Hashes]
    /\ sum \in [Certifiers -> Texts]
    /\ users \in [Dirs -> SUBSET Certifiers]
    /\ disturbed \subseteq Certifiers

Init ==
    /\ desktop = [d \in Dirs |-> None]
    /\ renders = [d \in Dirs |-> NoHashes.renders]
    /\ certificate = [d \in Dirs |-> Absent]
    /\ checksum = [d \in Dirs |-> Absent]
    /\ pc = [c \in Certifiers |-> "new"]
    /\ job = [c \in Certifiers |-> NoJob]
    /\ blender = [c \in Certifiers |-> "none"]
    /\ hashes = [c \in Certifiers |-> NoHashes]
    /\ sum = [c \in Certifiers |-> Absent]
    /\ users = [d \in Dirs |-> {}]
    /\ disturbed = {}

-----------------------------------------------------------------------------
Running(c) == pc[c] \notin Ended \cup {"new"}
Dir(c) == job[c].dir

GoTo(c, step) == pc' = [pc EXCEPT ![c] = step]

Writes(c) ==
    /\ users' = [users EXCEPT ![Dir(c)] = @ \cup {c}]
    /\ disturbed' = disturbed \cup (users[Dir(c)] \ {c})

\* Without the approval, or a target that is a .blend file, nothing is begun.
Ask(c, j) ==
    /\ pc[c] = "new"
    /\ job' = [job EXCEPT ![c] = j]
    /\ \/ GoTo(c, "refused")
       \/ GoTo(c, IF j.certify THEN "identify" ELSE "hash")
    /\ UNCHANGED <<evidence, blender, hashes, sum, history>>

\* focused_window: Blender, with the file's name in its title, or it is refused.
Identify(c) ==
    /\ pc[c] = "identify"
    /\ GoTo(c, "shoot") \/ GoTo(c, "refused")
    /\ UNCHANGED <<evidence, job, blender, hashes, sum, history>>

\* capture_screen: refused if that window is no longer focused, or screencapture fails.
Shoot(c) ==
    /\ pc[c] = "shoot"
    /\ \/ /\ GoTo(c, "hash")
          /\ desktop' = [desktop EXCEPT ![Dir(c)] = c]
          /\ Writes(c)
       \/ GoTo(c, "refused") /\ UNCHANGED <<desktop, history>>
    /\ UNCHANGED <<renders, certificate, checksum, job, blender, hashes, sum>>

ShootLate(c) ==
    /\ pc[c] = "shooting"
    /\ GoTo(c, "dead")
    /\ desktop' = [desktop EXCEPT ![Dir(c)] = c]
    /\ Writes(c)
    /\ UNCHANGED <<renders, certificate, checksum, job, blender, hashes, sum>>

\* translate_restore: object, delta or timeout are refused, or Blender is started.
Start(c) ==
    /\ pc[c] = "hash"
    /\ \/ GoTo(c, "refused") /\ UNCHANGED blender
       \/ GoTo(c, "wait") /\ blender' = [blender EXCEPT ![c] = "before"]
    /\ UNCHANGED <<evidence, job, hashes, sum, history>>

Follows == [before |-> "after", after |-> "restored", restored |-> "verified"]

\* Blender renders a phase, if it is to, or leaves the file there is; or it fails.
Blender(c) ==
    /\ blender[c] \in Phases
    /\ \/ /\ blender' = [blender EXCEPT ![c] = Follows[blender[c]]]
          /\ \/ /\ job[c].certify
                /\ renders' = [renders EXCEPT ![Dir(c)][blender[c]] = c]
                /\ Writes(c)
             \/ UNCHANGED <<renders, history>>
       \/ blender' = [blender EXCEPT ![c] = "failed"] /\ UNCHANGED <<renders, history>>
    /\ UNCHANGED <<desktop, certificate, checksum, pc, job, hashes, sum>>

\* Blender has ended: refused unless it printed that it restored the object, and the
\* source file is what it was.
Compare(c) ==
    /\ pc[c] = "wait"
    /\ \/ blender[c] \in {"verified", "failed"} /\ GoTo(c, "refused")
       \/ /\ blender[c] = "verified"
          /\ GoTo(c, IF job[c].certify THEN "collect" ELSE "told")
    /\ UNCHANGED <<evidence, job, blender, hashes, sum, history>>

\* subprocess.TimeoutExpired, which do_POST does not answer; Blender is killed.
Timeout(c) ==
    /\ pc[c] = "wait"
    /\ blender[c] \in Phases
    /\ blender' = [blender EXCEPT ![c] = "failed"]
    /\ GoTo(c, IF job[c].door = "http" THEN "dropped" ELSE "refused")
    /\ UNCHANGED <<evidence, job, hashes, sum, history>>

\* The proof renders are all there and hashed, or it is refused.
Collect(c) ==
    /\ pc[c] = "collect"
    /\ IF \E p \in Phases : renders[Dir(c)][p] = None
       THEN GoTo(c, "refused") /\ UNCHANGED hashes
       ELSE /\ hashes' = [hashes EXCEPT ![c].renders = renders[Dir(c)]]
            /\ GoTo(c, "hash_desktop")
    /\ UNCHANGED <<evidence, job, blender, sum, history>>

HashDesktop(c) ==
    /\ pc[c] = "hash_desktop"
    /\ hashes' = [hashes EXCEPT ![c].desktop = desktop[Dir(c)]]
    /\ GoTo(c, "truncate")
    /\ UNCHANGED <<evidence, job, blender, sum, history>>

WriteCertificate(c, text, step) ==
    /\ certificate' = [certificate EXCEPT ![Dir(c)] = text]
    /\ Writes(c)
    /\ GoTo(c, step)
    /\ UNCHANGED <<desktop, renders, checksum, job, blender, hashes, sum>>

\* certificate_path.write_text
Truncate(c) == pc[c] = "truncate" /\ WriteCertificate(c, Empty, "fill")

\* Mutant of Fill: the checksum that lies there is left as it is.
FillAlone(c) == pc[c] = "fill" /\ WriteCertificate(c, Text(c), "told")

Fill(c) == pc[c] = "fill" /\ WriteCertificate(c, Text(c), "sum")

\* certificate_sha256, of the file as it is now.
HashCertificate(c) ==
    /\ pc[c] = "sum"
    /\ sum' = [sum EXCEPT ![c] = certificate[Dir(c)]]
    /\ GoTo(c, "truncate_sum")
    /\ UNCHANGED <<evidence, job, blender, hashes, history>>

WriteChecksum(c, text, step) ==
    /\ checksum' = [checksum EXCEPT ![Dir(c)] = text]
    /\ Writes(c)
    /\ GoTo(c, step)
    /\ UNCHANGED <<desktop, renders, certificate, job, blender, hashes, sum>>

TruncateSum(c) == pc[c] = "truncate_sum" /\ WriteChecksum(c, Empty, "fill_sum")

FillSum(c) == pc[c] = "fill_sum" /\ WriteChecksum(c, sum[c], "told")

\* OSError of a write: nothing is written, and the file stays as it is or truncated.
FailToWrite(c) ==
    /\ pc[c] \in {"truncate", "fill", "truncate_sum", "fill_sum"}
    /\ GoTo(c, "refused")
    /\ UNCHANGED <<evidence, job, blender, hashes, sum, history>>

Victims(door) == {c \in Certifiers : Running(c) /\ (job[c].door = "local") = (door = "local")}

\* A process ends with all its threads, but not with the programs they started.
Kill(calls) ==
    /\ pc' = [c \in Certifiers |->
                IF c \notin calls THEN pc[c]
                ELSE IF pc[c] = "shoot" THEN "shooting" ELSE "dead"]
    /\ UNCHANGED <<evidence, job, blender, hashes, sum, history>>

Step(c) ==
    \/ \E j \in Jobs : Ask(c, j)
    \/ Identify(c) \/ Shoot(c) \/ ShootLate(c)
    \/ Start(c) \/ Blender(c) \/ Compare(c) \/ Timeout(c)
    \/ Collect(c) \/ HashDesktop(c)
    \/ Truncate(c) \/ Fill(c) \/ HashCertificate(c) \/ TruncateSum(c) \/ FillSum(c)
    \/ FailToWrite(c)

Crash ==
    \/ Kill(Victims("bridge"))
    \/ \E c \in Victims("local") : Kill({c})

Next == (\E c \in Certifiers : Step(c)) \/ Crash

Spec == Init /\ [][Next]_vars

-----------------------------------------------------------------------------
(* Properties. *)

\* The directory of c verifies, and c is what it certifies.
Verifies(c) ==
    LET d == Dir(c)
    IN  /\ certificate[d] = Text(c)
        /\ checksum[d] = certificate[d]
        /\ hashes[c] = [desktop |-> desktop[d], renders |-> renders[d]]
        /\ desktop[d] = c

\* A certificate that was told stands: until another call, or a program that an
\* earlier one left behind, writes into its directory, every hash in it is of what
\* lies there; and when none ever wrote there before, all pictures are its own.
CertificateStands ==
    \A c \in Certifiers :
        pc[c] = "told" /\ job[c].certify /\ c \notin disturbed =>
            /\ Verifies(c)
            /\ users[Dir(c)] = {c} => \A p \in Phases : renders[Dir(c)][p] = c
===============================================================================
