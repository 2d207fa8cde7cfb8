----------------------------- MODULE DesktopProofs -----------------------------
(***************************************************************************)
(* What holds of Desktop, for any windows, pictures, points and calls:     *)
(* what each step of a call has established, as long as nobody has changed *)
(* the screen or the focus since.                                          *)
(***************************************************************************)
EXTENDS Desktop, TLAPS

\* The steps of each kind of call; a call under way has been told nothing yet.
StepInv ==
    /\ pc # "idle" => told = "nothing"
    /\ pc = "shot" => call.how = "box"
    /\ pc \in {"repin", "inspect", "repin_shot", "shot_before"} => call.how = "label"
    /\ pc \in {"pin", "read_focus", "shot_after"} => Verifies
    /\ pc \in {"raise", "confirm"} => call.how = "activate"

\* Once its evidence is in: a box is clicked where it was in the picture planned on,
\* which is the one on the screen; a label, at the point at which the tree of a window
\* of the pinned process lists it.
AimInv == pc \in {"repin_shot", "shot_before", "assert", "act"} =>
    /\ call.how = "box" /\ steady => picture = call.seen /\ point = call.at
    /\ call.how = "label" /\ steady => <<call.control, point>> \in Tree[picture][source]
    /\ call.how = "label" => PidOf[source] = target.pid

\* The picture to compare with is the one on the screen until that is repainted.
SameInv == same => before = picture

\* The target is what was expected of the window or, of a click, what was found of one
\* that was as expected.
TargetInv == pc # "idle" =>
    /\ pc = "pin" => target = call.pin
    /\ Verifies /\ pc # "pin" => target.pid \in Pids /\ target.title \in Titles
    /\ call.pin.pid \in {"any", target.pid}
    /\ call.pin.title \in {"any", target.title}

\* Nothing but the last assertion lets a call act.
HeldInv == pc = "act" /\ held => Focused

-----------------------------------------------------------------------------
\* Splits a step into the actions, so that every proof can cite it.
LEMMA StepCases ==
    ASSUME [Next]_vars, NEW P,
           ASSUME NEW w \in Windows, Refocus(w) PROVE P,
           ASSUME NEW p \in Pictures, Repaint(p) PROVE P,
           ASSUME NEW c \in Calls, Ask(c) PROVE P,
           ASSUME Pin PROVE P,
           ASSUME Shot PROVE P,
           ASSUME Repin PROVE P,
           ASSUME Inspect PROVE P,
           ASSUME ShotBefore PROVE P,
           ASSUME Assert PROVE P,
           ASSUME Act PROVE P,
           ASSUME ReadFocus PROVE P,
           ASSUME ShotAfter PROVE P,
           ASSUME NEW w \in Windows, Raise(w) PROVE P,
           ASSUME Confirm PROVE P,
           ASSUME Fail PROVE P,
           ASSUME UNCHANGED vars PROVE P
    PROVE  P
  BY DEF Next, Step

\* What a call asks for, and its first step.
LEMMA CallTypes ==
    ASSUME NEW c \in Calls
    PROVE  /\ c.how \in {"box", "label", "direct", "activate"} /\ c.pin \in Pins
           /\ c.how = "box" => c.seen \in Pictures /\ c.at \in Points
           /\ c.how \in {"box", "label"} => c.verify \in BOOLEAN /\ First(c.how) = "pin"
           /\ c.how = "direct" => First(c.how) = "assert"
           /\ c.how = "activate" => First(c.how) = "raise"
<1>1. CASE c \in [how : {"box"}, pin : Pins, verify : BOOLEAN, seen : Pictures,
                    at : Points]
  BY <1>1 DEF First
<1>2. CASE c \in [how : {"label"}, pin : Pins, verify : BOOLEAN, control : Controls]
  BY <1>2 DEF First
<1>3. CASE c \in [how : {"direct"}, pin : Pins]
  BY <1>3 DEF First
<1>4. CASE c \in [how : {"activate"}, pin : [pid : Pids, title : Titles]]
  <2>1. c.pin \in Pins
    BY <1>4 DEF Pins
  <2>. QED
    BY <1>4, <2>1 DEF First
<1>. QED
  BY <1>1, <1>2, <1>3, <1>4 DEF Calls

\* Every step keeps the types.
LEMMA TypeStep ==
    ASSUME TypeOK, StepInv, [Next]_vars
    PROVE  TypeOK'
<1>1. ASSUME NEW w \in Windows, Refocus(w) PROVE TypeOK'
  BY <1>1, CallTypes DEF Refocus, locals, TypeOK, Steps, Pins, StepInv
<1>2. ASSUME NEW p \in Pictures, Repaint(p) PROVE TypeOK'
  BY <1>2, CallTypes DEF Repaint, locals, TypeOK, Steps, Pins, StepInv
<1>3. ASSUME NEW c \in Calls, Ask(c) PROVE TypeOK'
  BY <1>3, CallTypes DEF Ask, screen, TypeOK, Steps, Pins, StepInv
<1>4. ASSUME Pin PROVE TypeOK'
  <2>1. PidOf[focus] \in Pids /\ TitleOf[focus] \in Titles
    BY DEF TypeOK, Pids, Titles
  <2>2. target' \in Pins
    BY <1>4, <2>1 DEF Pin, Pins
  <2>. QED
    BY <1>4, <2>2 DEF Pin, Asserted, screen, TypeOK, Steps
<1>5. ASSUME Shot PROVE TypeOK'
  BY <1>5, CallTypes DEF Shot, screen, TypeOK, Steps, Pins, StepInv
<1>6. ASSUME Repin PROVE TypeOK'
  BY <1>6, CallTypes DEF Repin, Asserted, screen, TypeOK, Steps, Pins, StepInv
<1>7. ASSUME Inspect PROVE TypeOK'
  BY <1>7, CallTypes DEF Inspect, screen, TypeOK, Steps, Pins, StepInv
<1>8. ASSUME ShotBefore PROVE TypeOK'
  BY <1>8, CallTypes DEF ShotBefore, screen, TypeOK, Steps, Pins, StepInv
<1>9. ASSUME Assert PROVE TypeOK'
  BY <1>9, CallTypes DEF Assert, Asserted, screen, TypeOK, Steps, Pins, StepInv
<1>10. ASSUME Act PROVE TypeOK'
  BY <1>10, CallTypes DEF Act, End, screen, locals, TypeOK, Steps, Pins, StepInv
<1>11. ASSUME ReadFocus PROVE TypeOK'
  BY <1>11, CallTypes DEF ReadFocus, End, screen, locals, TypeOK, Steps, Pins, StepInv
<1>12. ASSUME ShotAfter PROVE TypeOK'
  BY <1>12, CallTypes DEF ShotAfter, End, screen, locals, TypeOK, Steps, Pins, StepInv
<1>13. ASSUME NEW w \in Windows, Raise(w) PROVE TypeOK'
  BY <1>13, CallTypes DEF Raise, locals, TypeOK, Steps, Pins, StepInv
<1>14. ASSUME Confirm PROVE TypeOK'
  BY <1>14, CallTypes DEF Confirm, End, screen, locals, TypeOK, Steps, Pins, StepInv
<1>15. ASSUME Fail PROVE TypeOK'
  BY <1>15, CallTypes DEF Fail, End, screen, locals, TypeOK, Steps, Pins, StepInv
<1>16. ASSUME UNCHANGED vars PROVE TypeOK'
  BY <1>16, CallTypes DEF vars, screen, locals, TypeOK, Steps, Pins, StepInv
<1>. QED
  BY <1>1, <1>2, <1>3, <1>4, <1>5, <1>6, <1>7, <1>8, <1>9, <1>10, <1>11, <1>12, <1>13,
       <1>14, <1>15, <1>16, StepCases

\* Every kind of call goes through its own steps.
LEMMA StepStep ==
    ASSUME TypeOK, StepInv, [Next]_vars
    PROVE  StepInv'
<1>1. ASSUME NEW w \in Windows, Refocus(w) PROVE StepInv'
  BY <1>1 DEF Refocus, locals, StepInv, Verifies, TypeOK
<1>2. ASSUME NEW p \in Pictures, Repaint(p) PROVE StepInv'
  BY <1>2 DEF Repaint, locals, StepInv, Verifies, TypeOK
<1>3. ASSUME NEW c \in Calls, Ask(c) PROVE StepInv'
  BY <1>3, CallTypes DEF Ask, screen, StepInv, Verifies, TypeOK
<1>4. ASSUME Pin PROVE StepInv'
  BY <1>4 DEF Pin, Asserted, screen, StepInv, Verifies, TypeOK
<1>5. ASSUME Shot PROVE StepInv'
  BY <1>5 DEF Shot, screen, StepInv, Verifies, TypeOK
<1>6. ASSUME Repin PROVE StepInv'
  BY <1>6 DEF Repin, Asserted, screen, StepInv, Verifies, TypeOK
<1>7. ASSUME Inspect PROVE StepInv'
  BY <1>7 DEF Inspect, screen, StepInv, Verifies, TypeOK
<1>8. ASSUME ShotBefore PROVE StepInv'
  BY <1>8 DEF ShotBefore, screen, StepInv, Verifies, TypeOK
<1>9. ASSUME Assert PROVE StepInv'
  BY <1>9 DEF Assert, Asserted, screen, StepInv, Verifies, TypeOK
<1>10. ASSUME Act PROVE StepInv'
  BY <1>10 DEF Act, End, screen, locals, StepInv, Verifies, TypeOK
<1>11. ASSUME ReadFocus PROVE StepInv'
  BY <1>11 DEF ReadFocus, End, screen, locals, StepInv, Verifies, TypeOK
<1>12. ASSUME ShotAfter PROVE StepInv'
  BY <1>12 DEF ShotAfter, End, screen, locals, StepInv, Verifies, TypeOK
<1>13. ASSUME NEW w \in Windows, Raise(w) PROVE StepInv'
  BY <1>13 DEF Raise, locals, StepInv, Verifies, TypeOK
<1>14. ASSUME Confirm PROVE StepInv'
  BY <1>14 DEF Confirm, End, screen, locals, StepInv, Verifies, TypeOK
<1>15. ASSUME Fail PROVE StepInv'
  BY <1>15 DEF Fail, End, screen, locals, StepInv, Verifies, TypeOK
<1>16. ASSUME UNCHANGED vars PROVE StepInv'
  BY <1>16 DEF vars, screen, locals, StepInv, Verifies, TypeOK
<1>. QED
  BY <1>1, <1>2, <1>3, <1>4, <1>5, <1>6, <1>7, <1>8, <1>9, <1>10, <1>11, <1>12, <1>13,
       <1>14, <1>15, <1>16, StepCases

\* The evidence is about the control that was asked for.
LEMMA AimStep ==
    ASSUME TypeOK, StepInv, AimInv, [Next]_vars
    PROVE  AimInv'
<1>1. ASSUME NEW w \in Windows, Refocus(w) PROVE AimInv'
  BY <1>1 DEF Refocus, locals, TypeOK, StepInv, AimInv, Verifies
<1>2. ASSUME NEW p \in Pictures, Repaint(p) PROVE AimInv'
  BY <1>2 DEF Repaint, locals, TypeOK, StepInv, AimInv, Verifies
<1>3. ASSUME NEW c \in Calls, Ask(c) PROVE AimInv'
  BY <1>3, CallTypes DEF Ask, screen, TypeOK, StepInv, AimInv, Verifies
<1>4. ASSUME Pin PROVE AimInv'
  BY <1>4 DEF Pin, Asserted, screen, TypeOK, StepInv, AimInv, Verifies
<1>5. ASSUME Shot PROVE AimInv'
  BY <1>5 DEF Shot, screen, TypeOK, StepInv, AimInv, Verifies
<1>6. ASSUME Repin PROVE AimInv'
  BY <1>6 DEF Repin, Asserted, screen, TypeOK, StepInv, AimInv, Verifies
<1>7. ASSUME Inspect PROVE AimInv'
  BY <1>7 DEF Inspect, screen, TypeOK, StepInv, AimInv, Verifies
<1>8. ASSUME ShotBefore PROVE AimInv'
  BY <1>8 DEF ShotBefore, screen, TypeOK, StepInv, AimInv, Verifies
<1>9. ASSUME Assert PROVE AimInv'
  BY <1>9 DEF Assert, Asserted, screen, TypeOK, StepInv, AimInv, Verifies
<1>10. ASSUME Act PROVE AimInv'
  BY <1>10 DEF Act, End, screen, locals, TypeOK, StepInv, AimInv, Verifies
<1>11. ASSUME ReadFocus PROVE AimInv'
  BY <1>11 DEF ReadFocus, End, screen, locals, TypeOK, StepInv, AimInv, Verifies
<1>12. ASSUME ShotAfter PROVE AimInv'
  BY <1>12 DEF ShotAfter, End, screen, locals, TypeOK, StepInv, AimInv, Verifies
<1>13. ASSUME NEW w \in Windows, Raise(w) PROVE AimInv'
  BY <1>13 DEF Raise, locals, TypeOK, StepInv, AimInv, Verifies
<1>14. ASSUME Confirm PROVE AimInv'
  BY <1>14 DEF Confirm, End, screen, locals, TypeOK, StepInv, AimInv, Verifies
<1>15. ASSUME Fail PROVE AimInv'
  BY <1>15 DEF Fail, End, screen, locals, TypeOK, StepInv, AimInv, Verifies
<1>16. ASSUME UNCHANGED vars PROVE AimInv'
  BY <1>16 DEF vars, screen, locals, TypeOK, StepInv, AimInv, Verifies
<1>. QED
  BY <1>1, <1>2, <1>3, <1>4, <1>5, <1>6, <1>7, <1>8, <1>9, <1>10, <1>11, <1>12, <1>13,
       <1>14, <1>15, <1>16, StepCases

\* The picture to compare with is taken from the screen.
LEMMA SameStep ==
    ASSUME SameInv, [Next]_vars
    PROVE  SameInv'
<1>1. ASSUME NEW w \in Windows, Refocus(w) PROVE SameInv'
  BY <1>1 DEF Refocus, locals, SameInv
<1>2. ASSUME NEW p \in Pictures, Repaint(p) PROVE SameInv'
  BY <1>2 DEF Repaint, locals, SameInv
<1>3. ASSUME NEW c \in Calls, Ask(c) PROVE SameInv'
  BY <1>3 DEF Ask, screen, SameInv
<1>4. ASSUME Pin PROVE SameInv'
  BY <1>4 DEF Pin, Asserted, screen, SameInv
<1>5. ASSUME Shot PROVE SameInv'
  BY <1>5 DEF Shot, screen, SameInv
<1>6. ASSUME Repin PROVE SameInv'
  BY <1>6 DEF Repin, Asserted, screen, SameInv
<1>7. ASSUME Inspect PROVE SameInv'
  BY <1>7 DEF Inspect, screen, SameInv
<1>8. ASSUME ShotBefore PROVE SameInv'
  BY <1>8 DEF ShotBefore, screen, SameInv
<1>9. ASSUME Assert PROVE SameInv'
  BY <1>9 DEF Assert, Asserted, screen, SameInv
<1>10. ASSUME Act PROVE SameInv'
  BY <1>10 DEF Act, End, screen, locals, SameInv
<1>11. ASSUME ReadFocus PROVE SameInv'
  BY <1>11 DEF ReadFocus, End, screen, locals, SameInv
<1>12. ASSUME ShotAfter PROVE SameInv'
  BY <1>12 DEF ShotAfter, End, screen, locals, SameInv
<1>13. ASSUME NEW w \in Windows, Raise(w) PROVE SameInv'
  BY <1>13 DEF Raise, locals, SameInv
<1>14. ASSUME Confirm PROVE SameInv'
  BY <1>14 DEF Confirm, End, screen, locals, SameInv
<1>15. ASSUME Fail PROVE SameInv'
  BY <1>15 DEF Fail, End, screen, locals, SameInv
<1>16. ASSUME UNCHANGED vars PROVE SameInv'
  BY <1>16 DEF vars, screen, locals, SameInv
<1>. QED
  BY <1>1, <1>2, <1>3, <1>4, <1>5, <1>6, <1>7, <1>8, <1>9, <1>10, <1>11, <1>12, <1>13,
       <1>14, <1>15, <1>16, StepCases

\* A window that was named stays the target, and pinning chooses one.
LEMMA TargetStep ==
    ASSUME TypeOK, StepInv, TargetInv, [Next]_vars
    PROVE  TargetInv'
<1>1. ASSUME NEW w \in Windows, Refocus(w) PROVE TargetInv'
  BY <1>1, NamesAssumption DEF Refocus, locals, TypeOK, StepInv, TargetInv, Verifies,
       Focused, Matches, Pins, Pids, Titles
<1>2. ASSUME NEW p \in Pictures, Repaint(p) PROVE TargetInv'
  BY <1>2, NamesAssumption DEF Repaint, locals, TypeOK, StepInv, TargetInv, Verifies,
       Focused, Matches, Pins, Pids, Titles
<1>3. ASSUME NEW c \in Calls, Ask(c) PROVE TargetInv'
  BY <1>3, NamesAssumption, CallTypes DEF Ask, screen, TypeOK, StepInv, TargetInv,
       Verifies, Focused, Matches, Pins, Pids, Titles
<1>4. ASSUME Pin PROVE TargetInv'
  BY <1>4, NamesAssumption DEF Pin, Asserted, screen, TypeOK, StepInv, TargetInv,
       Verifies, Focused, Matches, Pins, Pids, Titles
<1>5. ASSUME Shot PROVE TargetInv'
  BY <1>5, NamesAssumption DEF Shot, screen, TypeOK, StepInv, TargetInv, Verifies,
       Focused, Matches, Pins, Pids, Titles
<1>6. ASSUME Repin PROVE TargetInv'
  BY <1>6, NamesAssumption DEF Repin, Asserted, screen, TypeOK, StepInv, TargetInv,
       Verifies, Focused, Matches, Pins, Pids, Titles
<1>7. ASSUME Inspect PROVE TargetInv'
  BY <1>7, NamesAssumption DEF Inspect, screen, TypeOK, StepInv, TargetInv, Verifies,
       Focused, Matches, Pins, Pids, Titles
<1>8. ASSUME ShotBefore PROVE TargetInv'
  BY <1>8, NamesAssumption DEF ShotBefore, screen, TypeOK, StepInv, TargetInv, Verifies,
       Focused, Matches, Pins, Pids, Titles
<1>9. ASSUME Assert PROVE TargetInv'
  BY <1>9, NamesAssumption DEF Assert, Asserted, screen, TypeOK, StepInv, TargetInv,
       Verifies, Focused, Matches, Pins, Pids, Titles
<1>10. ASSUME Act PROVE TargetInv'
  BY <1>10, NamesAssumption DEF Act, End, screen, locals, TypeOK, StepInv, TargetInv,
       Verifies, Focused, Matches, Pins, Pids, Titles
<1>11. ASSUME ReadFocus PROVE TargetInv'
  BY <1>11, NamesAssumption DEF ReadFocus, End, screen, locals, TypeOK, StepInv,
       TargetInv, Verifies, Focused, Matches, Pins, Pids, Titles
<1>12. ASSUME ShotAfter PROVE TargetInv'
  BY <1>12, NamesAssumption DEF ShotAfter, End, screen, locals, TypeOK, StepInv,
       TargetInv, Verifies, Focused, Matches, Pins, Pids, Titles
<1>13. ASSUME NEW w \in Windows, Raise(w) PROVE TargetInv'
  BY <1>13, NamesAssumption DEF Raise, locals, TypeOK, StepInv, TargetInv, Verifies,
       Focused, Matches, Pins, Pids, Titles
<1>14. ASSUME Confirm PROVE TargetInv'
  BY <1>14, NamesAssumption DEF Confirm, End, screen, locals, TypeOK, StepInv,
       TargetInv, Verifies, Focused, Matches, Pins, Pids, Titles
<1>15. ASSUME Fail PROVE TargetInv'
  BY <1>15, NamesAssumption DEF Fail, End, screen, locals, TypeOK, StepInv, TargetInv,
       Verifies, Focused, Matches, Pins, Pids, Titles
<1>16. ASSUME UNCHANGED vars PROVE TargetInv'
  BY <1>16, NamesAssumption DEF vars, screen, locals, TypeOK, StepInv, TargetInv,
       Verifies, Focused, Matches, Pins, Pids, Titles
<1>. QED
  BY <1>1, <1>2, <1>3, <1>4, <1>5, <1>6, <1>7, <1>8, <1>9, <1>10, <1>11, <1>12, <1>13,
       <1>14, <1>15, <1>16, StepCases

\* The last step before the act is the assertion.
LEMMA HeldStep ==
    ASSUME TypeOK, HeldInv, [Next]_vars
    PROVE  HeldInv'
<1>1. ASSUME NEW w \in Windows, Refocus(w) PROVE HeldInv'
  BY <1>1 DEF Refocus, locals, HeldInv, Focused, Matches
<1>2. ASSUME NEW p \in Pictures, Repaint(p) PROVE HeldInv'
  BY <1>2 DEF Repaint, locals, HeldInv, Focused, Matches
<1>3. ASSUME NEW c \in Calls, Ask(c) PROVE HeldInv'
  BY <1>3, CallTypes DEF Ask, screen, HeldInv, Focused, Matches
<1>4. ASSUME Pin PROVE HeldInv'
  BY <1>4 DEF Pin, Asserted, screen, HeldInv, Focused, Matches
<1>5. ASSUME Shot PROVE HeldInv'
  BY <1>5 DEF Shot, screen, HeldInv, Focused, Matches
<1>6. ASSUME Repin PROVE HeldInv'
  BY <1>6 DEF Repin, Asserted, screen, HeldInv, Focused, Matches
<1>7. ASSUME Inspect PROVE HeldInv'
  BY <1>7 DEF Inspect, screen, HeldInv, Focused, Matches
<1>8. ASSUME ShotBefore PROVE HeldInv'
  BY <1>8 DEF ShotBefore, screen, HeldInv, Focused, Matches
<1>9. ASSUME Assert PROVE HeldInv'
  BY <1>9 DEF Assert, Asserted, screen, HeldInv, Focused, Matches
<1>10. ASSUME Act PROVE HeldInv'
  BY <1>10 DEF Act, End, screen, locals, HeldInv, Focused, Matches
<1>11. ASSUME ReadFocus PROVE HeldInv'
  BY <1>11 DEF ReadFocus, End, screen, locals, HeldInv, Focused, Matches
<1>12. ASSUME ShotAfter PROVE HeldInv'
  BY <1>12 DEF ShotAfter, End, screen, locals, HeldInv, Focused, Matches
<1>13. ASSUME NEW w \in Windows, Raise(w) PROVE HeldInv'
  BY <1>13 DEF Raise, locals, HeldInv, Focused, Matches
<1>14. ASSUME Confirm PROVE HeldInv'
  BY <1>14 DEF Confirm, End, screen, locals, HeldInv, Focused, Matches
<1>15. ASSUME Fail PROVE HeldInv'
  BY <1>15 DEF Fail, End, screen, locals, HeldInv, Focused, Matches
<1>16. ASSUME UNCHANGED vars PROVE HeldInv'
  BY <1>16 DEF vars, screen, locals, HeldInv, Focused, Matches
<1>. QED
  BY <1>1, <1>2, <1>3, <1>4, <1>5, <1>6, <1>7, <1>8, <1>9, <1>10, <1>11, <1>12, <1>13,
       <1>14, <1>15, <1>16, StepCases

\* A click is told as verified at the end of a comparison only.
LEMMA VerifiedStep ==
    ASSUME TypeOK, StepInv, SameInv, VerifiedClickChanged, [Next]_vars
    PROVE  VerifiedClickChanged'
<1>1. ASSUME NEW w \in Windows, Refocus(w) PROVE VerifiedClickChanged'
  BY <1>1 DEF Refocus, locals, StepInv, SameInv, VerifiedClickChanged, Verifies
<1>2. ASSUME NEW p \in Pictures, Repaint(p) PROVE VerifiedClickChanged'
  BY <1>2 DEF Repaint, locals, StepInv, SameInv, VerifiedClickChanged, Verifies
<1>3. ASSUME NEW c \in Calls, Ask(c) PROVE VerifiedClickChanged'
  BY <1>3 DEF Ask, screen, StepInv, SameInv, VerifiedClickChanged, Verifies
<1>4. ASSUME Pin PROVE VerifiedClickChanged'
  BY <1>4 DEF Pin, Asserted, screen, StepInv, SameInv, VerifiedClickChanged, Verifies
<1>5. ASSUME Shot PROVE VerifiedClickChanged'
  BY <1>5 DEF Shot, screen, StepInv, SameInv, VerifiedClickChanged, Verifies
<1>6. ASSUME Repin PROVE VerifiedClickChanged'
  BY <1>6 DEF Repin, Asserted, screen, StepInv, SameInv, VerifiedClickChanged, Verifies
<1>7. ASSUME Inspect PROVE VerifiedClickChanged'
  BY <1>7 DEF Inspect, screen, StepInv, SameInv, VerifiedClickChanged, Verifies
<1>8. ASSUME ShotBefore PROVE VerifiedClickChanged'
  BY <1>8 DEF ShotBefore, screen, StepInv, SameInv, VerifiedClickChanged, Verifies
<1>9. ASSUME Assert PROVE VerifiedClickChanged'
  BY <1>9 DEF Assert, Asserted, screen, StepInv, SameInv, VerifiedClickChanged, Verifies
<1>10. ASSUME Act PROVE VerifiedClickChanged'
  BY <1>10 DEF Act, End, screen, locals, StepInv, SameInv, VerifiedClickChanged,
       Verifies
<1>11. ASSUME ReadFocus PROVE VerifiedClickChanged'
  BY <1>11 DEF ReadFocus, End, screen, locals, StepInv, SameInv, VerifiedClickChanged,
       Verifies
<1>12. ASSUME ShotAfter PROVE VerifiedClickChanged'
  BY <1>12 DEF ShotAfter, End, screen, locals, StepInv, SameInv, VerifiedClickChanged,
       Verifies
<1>13. ASSUME NEW w \in Windows, Raise(w) PROVE VerifiedClickChanged'
  BY <1>13 DEF Raise, locals, StepInv, SameInv, VerifiedClickChanged, Verifies
<1>14. ASSUME Confirm PROVE VerifiedClickChanged'
  BY <1>14 DEF Confirm, End, screen, locals, StepInv, SameInv, VerifiedClickChanged,
       Verifies
<1>15. ASSUME Fail PROVE VerifiedClickChanged'
  BY <1>15 DEF Fail, End, screen, locals, StepInv, SameInv, VerifiedClickChanged,
       Verifies
<1>16. ASSUME UNCHANGED vars PROVE VerifiedClickChanged'
  BY <1>16 DEF vars, screen, locals, StepInv, SameInv, VerifiedClickChanged, Verifies
<1>. QED
  BY <1>1, <1>2, <1>3, <1>4, <1>5, <1>6, <1>7, <1>8, <1>9, <1>10, <1>11, <1>12, <1>13,
       <1>14, <1>15, <1>16, StepCases

IInv ==
    /\ TypeOK /\ StepInv /\ AimInv /\ SameInv /\ TargetInv /\ HeldInv
    /\ VerifiedClickChanged

\* At the start no call is under way.
LEMMA InitIInv == Init => IInv
<1> SUFFICES ASSUME Init PROVE IInv
  OBVIOUS
<1>1. point \in Points /\ before \in Pictures
  BY PointsAssumption DEF Init
<1>2. call \in Calls
  BY DEF Init, Calls, Pins, Unpinned
<1>3. TypeOK
  BY <1>1, <1>2 DEF Init, TypeOK, Steps, Pins, Unpinned
<1>. QED
  BY <1>3 DEF Init, IInv, StepInv, AimInv, SameInv, TargetInv, HeldInv,
            VerifiedClickChanged

\* What the steps of a call have established holds at every step.
THEOREM Invariance == Spec => []IInv
<1>1. Init => IInv
  BY InitIInv
<1>2. IInv /\ [Next]_vars => IInv'
  BY TypeStep, StepStep, AimStep, SameStep, TargetStep, HeldStep, VerifiedStep DEF IInv
<1>. QED
  BY <1>1, <1>2, PTL DEF Spec

\* The variables keep their types: what is clicked is a point of the screen, and what is
\* expected of the window is a process, a title, both or neither.
THEOREM TypeCorrect == Spec => []TypeOK
<1>1. IInv => TypeOK
  BY DEF IInv
<1>. QED
  BY <1>1, Invariance, PTL

\* As far as their evidence goes, click_visual_box and click_label click nothing but the
\* control they were asked for, unless the screen is repainted after they have looked:
\* of a box the picture must be of a display that shows each point at the pixel of the
\* same numbers, of a label the tree must list nothing that is covered.
THEOREM TrueAim == Spec => []AimsAtWhatWasAsked
<1>1. ASSUME IInv, Acting, Verifies, steady, Truthful
      PROVE  At[picture][point] = Wanted
  <2>1. CASE call.how = "box"
    BY <1>1, <2>1 DEF IInv, AimInv, Acting, Truthful, Wanted
  <2>2. CASE call.how = "label"
    <3>1. <<call.control, point>> \in Tree[picture][source]
      BY <1>1, <2>2 DEF IInv, AimInv, Acting
    <3>2. At[picture][<<call.control, point>>[2]] = <<call.control, point>>[1]
      BY <1>1, <2>2, <3>1 DEF Truthful
    <3>. QED
      BY <2>2, <3>2 DEF Wanted
  <2>. QED
    BY <1>1, <2>1, <2>2 DEF Verifies
<1>2. IInv => AimsAtWhatWasAsked
  BY <1>1 DEF AimsAtWhatWasAsked
<1>. QED
  BY <1>2, Invariance, PTL

\* What _assert_focused_window has asserted last is what a call acts on: a window of the
\* process and the title that were named.  A click that named neither acts on one of
\* the process and the title it found first, and a label is clicked on a tree of that
\* process, though not surely of that window.
THEOREM OwnWindow == Spec => []ActsInItsWindow
<1>1. ASSUME IInv, Acting, held
      PROVE  /\ Matches(focus, call.pin)
             /\ Verifies => target = [pid |-> PidOf[focus], title |-> TitleOf[focus]]
             /\ call.how = "label" => PidOf[source] = PidOf[focus]
  <2>1. Focused /\ target \in Pins
    BY <1>1 DEF IInv, HeldInv, TypeOK, Acting
  <2>2. Matches(focus, call.pin)
    BY <1>1, <2>1 DEF IInv, TargetInv, Acting, Focused, Matches
  <2>3. ASSUME Verifies
        PROVE  target.pid = PidOf[focus] /\ target.title = TitleOf[focus]
    BY <1>1, <2>1, <2>3, NamesAssumption DEF IInv, TargetInv, Acting, Focused, Matches
  <2>4. Verifies => target = [pid |-> PidOf[focus], title |-> TitleOf[focus]]
    BY <2>1, <2>3 DEF Pins
  <2>5. call.how = "label" => PidOf[source] = PidOf[focus]
    BY <1>1, <2>3 DEF IInv, AimInv, Acting, Verifies
  <2>. QED
    BY <2>2, <2>4, <2>5
<1>2. IInv => ActsInItsWindow
  BY <1>1 DEF ActsInItsWindow
<1>. QED
  BY <1>2, Invariance, PTL

\* A click whose verification was asked for is told as done only when the screen
\* differs from a picture of this call, taken before the click.
THEOREM ChangeVerified == Spec => []VerifiedClickChanged
<1>1. IInv => VerifiedClickChanged
  BY DEF IInv
<1>. QED
  BY <1>1, Invariance, PTL

===============================================================================
