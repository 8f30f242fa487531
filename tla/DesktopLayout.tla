--------------------------- MODULE DesktopLayout ---------------------------
(***************************************************************************)
(* The two root properties that describe the desktop grid:                 *)
(* _NET_NUMBER_OF_DESKTOPS, which belongs to the window manager, and       *)
(* _NET_DESKTOP_LAYOUT, which belongs to the pager.  x_get_desktop_layout  *)
(* reads both, derives the grid and, when they disagree, overwrites the    *)
(* layout and asks the window manager for another number of desktops.      *)
(*                                                                         *)
(* A layout is [c, r]; an absent property is NoLayout, which the code      *)
(* treats exactly as the layout 0 x 0.                                     *)
(***************************************************************************)
EXTENDS Integers

NoLayout == [c |-> 0, r |-> 0]

\* Mutant: the remainder gets no row or column.
CeilDiv_RoundsDown(a, b) == a \div b

\* a divided by b, rounded up (b > 0)
CeilDiv(a, b) == (a \div b) + (IF a % b # 0 THEN 1 ELSE 0)

\* The grid read from nr > 0 desktops and a layout property.
Grid(nr, layout) ==
    CASE layout.c = 0 /\ layout.r = 0 -> [c |-> nr, r |-> 1]
      [] layout.c = 0 /\ layout.r # 0 -> [c |-> CeilDiv(nr, layout.r), r |-> layout.r]
      [] layout.c # 0 /\ layout.r = 0 -> [c |-> layout.c, r |-> CeilDiv(nr, layout.c)]
      [] OTHER -> layout

\* The properties disagree: the pager will write its own view of them.
properties_set_by_idiot(nr, layout) ==
    \/ layout.c = 0 \/ layout.r = 0
    \/ layout.c * layout.r # nr

=============================================================================
