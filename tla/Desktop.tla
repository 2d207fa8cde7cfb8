-------------------------------- MODULE Desktop --------------------------------
(***************************************************************************)
(* The desktop agent (desktop.py, desktop_agent.py, desktop_visual.py,     *)
(* desktop_target.py): what it types, clicks and activates on a screen     *)
(* that the user and the applications change between any two of its steps. *)
(*                                                                         *)
(* A call pins a window, gathers evidence of where its target is, asserts  *)
(* that the pinned window has the focus, acts, and may read the screen     *)
(* back.  Each osascript or screencapture is a step; any of them may fail, *)
(* which ends the call.  A click goes to a point of whatever is on the     *)
(* screen, and keys to whatever has the focus, when they arrive.           *)
(*                                                                         *)
(* A picture stands for all a screenshot shows, and fixes which control a  *)
(* click at each point of the screen hits.  The accessibility tree of a    *)
(* window says of controls where they are, and may list one that something *)
(* else covers.  Windows are known by process id and title, which two of   *)
(* them may share.  A position is a pixel of a picture or a point of the   *)
(* screen: clicks take points, and a display shows at each pixel what is   *)
(* at some point, on most of them not the point of the same numbers.       *)
(***************************************************************************)
EXTENDS FiniteSets

CONSTANTS
    Windows,
    PidOf,      \* the process of each window
    TitleOf,
    Pictures,
    Points,     \* positions
    Controls,
    At,         \* the control at each point of each picture
    Tree,       \* in each picture, the <<control, point>> each window's tree lists
    Displays    \* the point that each pixel shows, on each display there may be

Pids == {PidOf[w] : w \in Windows}
Titles == {TitleOf[w] : w \in Windows}

ASSUME PointsAssumption == Points # {}
ASSUME AtAssumption == At \in [Pictures -> [Points -> Controls]]
ASSUME TreeAssumption == Tree \in [Pictures -> [Windows -> SUBSET (Controls \X Points)]]
ASSUME DisplaysAssumption == Displays \subseteq [Points -> Points]
ASSUME NamesAssumption == "any" \notin Pids \cup Titles

VARIABLES
    display,    \* the display of this machine
    focus,      \* the focused window
    picture,    \* what is on the screen
    pc,
    call,       \* what was asked for
    target,     \* the process id and the title the call has pinned
    point,      \* where it will click
    before,     \* the picture it compares with afterwards
    told,
    \* history, read by properties only
    steady,     \* picture unchanged since the call learnt where its target is
    same,       \* picture unchanged since the one to compare with was taken
    held,       \* focus unchanged since it was last asserted
    source      \* the window whose tree was read last

screen == <<display, focus, picture>>
locals == <<call, target, point, before, source>>
vars == <<screen, pc, locals, told, steady, same, held>>

\* expected_pid and expected_title: either may be left out, or both.
Pins == [pid : Pids \cup {"any"}, title : Titles \cup {"any"}]

\* click_visual_box, from a picture seen earlier; click_label; keystroke, or
\* click_at on coordinates of the caller's; activate_application.
Calls ==
    [how : {"box"}, pin : Pins, verify : BOOLEAN, seen : Pictures, at : Points]
        \cup [how : {"label"}, pin : Pins, verify : BOOLEAN, control : Controls]
        \cup [how : {"direct"}, pin : Pins]
        \cup [how : {"activate"}, pin : [pid : Pids, title : Titles]]

Steps == {"idle", "pin", "shot", "repin", "inspect", "repin_shot", "shot_before",
          "assert", "act", "read_focus", "shot_after", "raise", "confirm"}

TypeOK ==
    /\ display \in Displays
    /\ focus \in Windows
    /\ picture \in Pictures
    /\ pc \in Steps
    /\ call \in Calls
    /\ target \in Pins
    /\ point \in Points
    /\ before \in Pictures
    /\ told \in {"nothing", "ok", "error"}
    /\ steady \in BOOLEAN
    /\ same \in BOOLEAN
    /\ held \in BOOLEAN
    /\ source \in Windows

Unpinned == [pid |-> "any", title |-> "any"]

Init ==
    /\ display \in Displays
    /\ focus \in Windows
    /\ picture \in Pictures
    /\ pc = "idle"
    /\ call = [how |-> "direct", pin |-> Unpinned]
    /\ target = Unpinned
    /\ point = CHOOSE x \in Points : TRUE
    /\ before = CHOOSE p \in Pictures : TRUE
    /\ told = "nothing"
    /\ steady = FALSE
    /\ same = FALSE
    /\ held = FALSE
    /\ source = focus

-----------------------------------------------------------------------------
(* The user and the applications. *)

Refocus(w) ==
    /\ w # focus
    /\ focus' = w
    /\ held' = FALSE
    /\ UNCHANGED <<display, picture, pc, locals, told, steady, same>>

Repaint(p) ==
    /\ p # picture
    /\ picture' = p
    /\ steady' = FALSE
    /\ same' = FALSE
    /\ UNCHANGED <<display, focus, pc, locals, told, held>>

-----------------------------------------------------------------------------
(* The steps of a call. *)

End(answer) == pc' = "idle" /\ told' = answer

First(how) == CASE how = "direct" -> "assert"
                [] how = "activate" -> "raise"
                [] OTHER -> "pin"

\* Approval, confidence, settle time and the box's bounds are validated first.
Ask(c) ==
    /\ pc = "idle"
    /\ call' = c
    /\ target' = c.pin
    /\ pc' = First(c.how)
    /\ told' = "nothing"
    /\ UNCHANGED <<screen, point, before, source, steady, same, held>>

Matches(w, pin) == pin.pid \in {"any", PidOf[w]} /\ pin.title \in {"any", TitleOf[w]}

\* _assert_focused_window: compares what is expected of the process and the title.
Focused == Matches(focus, target)

Asserted(from, to) ==
    /\ pc = from
    /\ Focused
    /\ pc' = to
    /\ held' = TRUE
    /\ UNCHANGED <<screen, call, point, before, source, told, steady, same>>

\* Mutant of Pin: only the process is passed on, not the title of the window.
PinProcess ==
    /\ Asserted("pin", IF call.how = "box" THEN "shot" ELSE "repin")
    /\ target' = [pid |-> PidOf[focus], title |-> "any"]

\* What is known of the window that has the focus now is expected from here on.
Pin == /\ Asserted("pin", IF call.how = "box" THEN "shot" ELSE "repin")
       /\ target' = [pid |-> PidOf[focus], title |-> TitleOf[focus]]

Repin == /\ Asserted("repin", "inspect") \/ Asserted("repin_shot", "shot_before")
         /\ UNCHANGED target

Assert == Asserted("assert", "act") /\ UNCHANGED target

\* Mutant of Shot: the hash is not compared with the one planned on.
ShotUncompared ==
    /\ pc = "shot"
    /\ before' = picture
    /\ point' = call.at
    /\ steady' = TRUE
    /\ same' = TRUE
    /\ pc' = "assert"
    /\ UNCHANGED <<screen, call, target, source, told, held>>

\* The screenshot of click_visual_box, compared with the one that was planned on.  The
\* box is a position in the picture, and is clicked as if it were one on the screen.
Shot ==
    /\ pc = "shot"
    /\ picture = call.seen
    /\ before' = picture
    /\ point' = call.at
    /\ steady' = TRUE
    /\ same' = TRUE
    /\ pc' = "assert"
    /\ UNCHANGED <<screen, call, target, source, told, held>>

\* The accessibility tree of the front window of the pinned process, if that is still
\* frontmost, whatever the title of the window is by now: the control must be in it,
\* once.
Inspect ==
    /\ pc = "inspect"
    /\ PidOf[focus] = target.pid
    /\ \E x \in Points :
          /\ {y \in Points : <<call.control, y>> \in Tree[picture][focus]} = {x}
          /\ point' = x
    /\ source' = focus
    /\ steady' = TRUE
    /\ pc' = IF call.verify THEN "repin_shot" ELSE "assert"
    /\ UNCHANGED <<screen, call, target, before, told, same, held>>

\* The screenshot of click_label, kept to compare with.
ShotBefore ==
    /\ pc = "shot_before"
    /\ before' = picture
    /\ same' = TRUE
    /\ pc' = "assert"
    /\ UNCHANGED <<screen, call, target, point, source, told, steady, held>>

Verifies == call.how \in {"box", "label"}

\* The click or the keys, wherever they arrive; what they do there is for the
\* applications to show (Refocus, Repaint).
Act ==
    /\ pc = "act"
    /\ IF Verifies THEN pc' = "read_focus" /\ UNCHANGED told ELSE End("ok")
    /\ UNCHANGED <<screen, locals, steady, same, held>>

ReadFocus ==
    /\ pc = "read_focus"
    /\ IF call.verify THEN pc' = "shot_after" /\ UNCHANGED told ELSE End("ok")
    /\ UNCHANGED <<screen, locals, steady, same, held>>

\* Mutant of ShotAfter: visual_changed is reported but not acted on.
ShotAfterUnread ==
    /\ pc = "shot_after"
    /\ End("ok")
    /\ UNCHANGED <<screen, locals, steady, same, held>>

\* Mutant of ShotAfter: what was seen is answered, not what follows from it.
ShotAfterTold ==
    /\ pc = "shot_after"
    /\ End(IF picture = before THEN "unchanged" ELSE "changed")
    /\ UNCHANGED <<screen, locals, steady, same, held>>

\* visual_changed
ShotAfter ==
    /\ pc = "shot_after"
    /\ End(IF picture = before THEN "error" ELSE "ok")
    /\ UNCHANGED <<screen, locals, steady, same, held>>

\* activate_application: one window must be what was asked for (resolve_window), and
\* its process comes to the front, with some window of it.
Raise(w) ==
    /\ pc = "raise"
    /\ \E v \in Windows : {u \in Windows : Matches(u, target)} = {v}
    /\ PidOf[w] = target.pid
    /\ focus' = w
    /\ pc' = "confirm"
    /\ UNCHANGED <<display, picture, locals, told, steady, same, held>>

Confirm ==
    /\ pc = "confirm"
    /\ End(IF Focused THEN "ok" ELSE "error")
    /\ held' = TRUE
    /\ UNCHANGED <<screen, locals, steady, same>>

\* A check does not hold, a program fails or times out: DesktopError.
Fail ==
    /\ pc # "idle"
    /\ End("error")
    /\ UNCHANGED <<screen, locals, steady, same, held>>

-----------------------------------------------------------------------------
Step ==
    \/ Pin
    \/ Shot
    \/ Repin
    \/ Inspect
    \/ ShotBefore
    \/ Assert
    \/ Act
    \/ ReadFocus
    \/ ShotAfter
    \/ \E w \in Windows : Raise(w)
    \/ Confirm

Next ==
    \/ \E w \in Windows : Refocus(w)
    \/ \E p \in Pictures : Repaint(p)
    \/ \E c \in Calls : Ask(c)
    \/ Step
    \/ Fail

Spec == Init /\ [][Next]_vars

-----------------------------------------------------------------------------
(* Properties. *)

Acting == pc = "act"

\* The control a call was asked to click: of a box, what its picture shows there.
Wanted == IF call.how = "box" THEN At[call.seen][display[call.at]] ELSE call.control

\* What the evidence itself does not show: that a pixel of the picture is the point of
\* the same numbers, and that nothing covers the controls a tree lists.
Truthful ==
    IF call.how = "box"
    THEN display[call.at] = call.at
    ELSE \A entry \in Tree[picture][source] : At[picture][entry[2]] = entry[1]

\* About to click, click_visual_box and click_label aim at the control they were asked
\* for, as far as their evidence goes (on a display where a pixel is a point, in a tree
\* that lists nothing covered), unless the screen was repainted after they looked: a
\* plan made on an older picture is never acted on.
AimsAtWhatWasAsked == Acting /\ Verifies /\ steady /\ Truthful =>
    At[picture][point] = Wanted

\* About to act, the window with the focus is of the process and the title asked for,
\* unless the focus moved after the last assertion.  A click that named neither is
\* held to the process and the title it found first, and a tree it relies on was that
\* of the same process, though maybe of another window of it.
ActsInItsWindow == Acting /\ held =>
    /\ Matches(focus, call.pin)
    /\ Verifies => target = [pid |-> PidOf[focus], title |-> TitleOf[focus]]
    /\ call.how = "label" => PidOf[source] = PidOf[focus]

\* A click is told as verified only if the screen was repainted after the picture it
\* is compared with was taken: never against a picture of an earlier call.  (The
\* repaint need not be the work of the click.)
VerifiedClickChanged == told = "ok" /\ Verifies /\ call.verify => ~same
===============================================================================
