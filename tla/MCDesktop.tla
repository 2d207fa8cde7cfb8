------------------------------- MODULE MCDesktop -------------------------------
(* An instance of Desktop for TLC. *)
EXTENDS Desktop

\* One window of one process and three of another; two of those are titled alike, and
\* so is the window of the first.
TwoProcesses == [w \in Windows |-> IF w = "mail" THEN "p" ELSE "q"]
TwoTitles == [w \in Windows |-> IF w = "editor" THEN "notes" ELSE "untitled"]

\* The controls change places; in the third picture a dialog covers one.
Swapped ==
    [calm   |-> [left |-> "save", right |-> "delete"],
     moved  |-> [left |-> "delete", right |-> "save"],
     dialog |-> [left |-> "save", right |-> "save"]]

\* The trees list the controls of the windows, also the one that the dialog covers; the
\* editor only has one of them.
Listed ==
    [p \in Pictures |-> [w \in Windows |->
        LET entries == IF p = "moved" THEN {<<"delete", "left">>, <<"save", "right">>}
                                      ELSE {<<"save", "left">>, <<"delete", "right">>}
        IN  IF w = "editor" THEN {e \in entries : e[1] = "delete"} ELSE entries]]

\* A pixel is a point, or there are two pixels to the point.
OneOrTwo == {[left |-> "left", right |-> "right"], [left |-> "left", right |-> "left"]}
===============================================================================
