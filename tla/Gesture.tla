------------------------------ MODULE Gesture ------------------------------
(***************************************************************************)
(* What the pager promises about a mouse gesture, apart from how it keeps  *)
(* it: struct mouse of pager.c has an index into an array that is rebuilt  *)
(* time and again, a gesture as the user knows it has a window.            *)
(*                                                                         *)
(* A gesture begins with a press of button 1 or 2, over a window or the    *)
(* background, may drag its window, and ends with the release of that      *)
(* button.  It may lose its window, and is then like one begun over the    *)
(* background; it never gets another.  The window manager is asked for     *)
(* what the gesture is for and for nothing else; when it deals with that   *)
(* is its own affair.                                                      *)
(***************************************************************************)
EXTENDS Integers

CONSTANTS Windows, NoWindow

VARIABLES
    button,     \* the button of the gesture under way, or 0
    target,     \* its window, or NoWindow
    dragging,   \* has the window been dragged?
    asked       \* requests to the window manager, each with its kind

gesture == <<button, target, dragging>>
vars == <<button, target, dragging, asked>>

Init ==
    /\ button = 0 /\ target = NoWindow /\ dragging = FALSE
    /\ asked = {}

\* Only requests of these kinds are made, about the window of the gesture where
\* they are about a window.
AsksOnly(kinds) ==
    \A r \in asked' \ asked : /\ r.kind \in kinds
                              /\ r.kind # "current_desktop" => r.window = target

Asks(kind) ==
    \E r \in asked' : r.kind = kind /\ (kind # "current_desktop" => r.window = target)

Press ==
    /\ button = 0
    /\ button' \in {1, 2}
    /\ target' \in Windows \cup {NoWindow}
    /\ dragging' = FALSE
    /\ AsksOnly({})

LoseWindow ==
    /\ target # NoWindow
    /\ target' = NoWindow
    /\ UNCHANGED <<button, dragging>>
    /\ AsksOnly({})

\* Any button moves the window to another desktop, button 2 within it, too.
DragWindow ==
    /\ button # 0 /\ target # NoWindow
    /\ dragging' = TRUE
    /\ UNCHANGED <<button, target>>
    /\ AsksOnly({"desktop"} \cup IF button = 2 THEN {"unshade", "geometry"} ELSE {})
    /\ button = 2 => Asks("geometry")

\* Button 1 goes to the desktop it is released over, and activates the window
\* it was pressed on, unless it has dragged that window.
Release ==
    LET switches  == button = 1 /\ (target = NoWindow \/ ~ dragging)
        activates == switches /\ target # NoWindow
    IN  /\ button # 0
        /\ button' = 0 /\ target' = NoWindow /\ dragging' = FALSE
        /\ AsksOnly({k \in {"current_desktop"} : switches}
                    \cup {k \in {"active_window"} : activates})
        /\ switches => Asks("current_desktop")
        /\ activates => Asks("active_window")

\* Requests are dealt with, or lost with the window manager.
Answer ==
    /\ asked' \subseteq asked
    /\ UNCHANGED gesture

Next == Press \/ LoseWindow \/ DragWindow \/ Release \/ Answer

Spec == Init /\ [][Next]_vars

=============================================================================
