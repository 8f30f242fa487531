---------------------------- MODULE PagerGesture ----------------------------
(***************************************************************************)
(* Pager implements Gesture: the index of struct mouse, remembered as a    *)
(* window id while windows[] is rebuilt, stands for one window.            *)
(***************************************************************************)
EXTENDS Pager

G == INSTANCE Gesture WITH
        button   <- mouse.button,
        target   <- Target,
        dragging <- mouse.dragging,
        asked    <- ToSet(sent)

\* Whatever the refreshes, the window manager and other buttons do between the
\* press and the release, each gesture is one of Gesture: it drags, activates
\* and switches exactly what the user pressed on (pager.c:1101-1219, 343-410).
GestureImplemented == G!Spec

=============================================================================
