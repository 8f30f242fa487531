------------------------------ MODULE Geometry ------------------------------
(***************************************************************************)
(* The pager's arithmetic: where its window goes, how large one desktop    *)
(* cell is, which desktop and root position a pixel of the pager stands    *)
(* for, and which client window lies under that position.                  *)
(*                                                                         *)
(* A geometry record g holds the fields of struct pager these functions    *)
(* read: cols, rows, w, h, x, y, desk_w, desk_h.  The C code computes the  *)
(* window scale in doubles; here it is the exact quotient, so instances    *)
(* choose root sizes that are multiples of the cell size.                  *)
(***************************************************************************)
EXTENDS Integers, Sequences, SequencesExt

CONSTANTS
    root_w, root_h,              \* size of the root window
    gw, gh, gx, gy,              \* the -geometry option; gh = 0: derive it
    gx_negative, gy_negative,    \* the option counts from the right / bottom
    show_sticky,                 \* option: draw windows that are on all desks
    allow_cover                  \* option: reserve no screen edge

\* XParseGeometry and pager_new make every part non-negative; a zero width
\* would be rejected by the X server when the window is created.
ASSUME GeometryAssumption ==
    /\ root_w \in Nat \ {0} /\ root_h \in Nat \ {0}
    /\ gw \in Nat \ {0} /\ gh \in Nat /\ gx \in Nat /\ gy \in Nat
    /\ {gx_negative, gy_negative, show_sticky, allow_cover} \subseteq BOOLEAN

WINDOW_MIN_W == 3
WINDOW_MIN_H == 3
WINDOW_SHADED_H == 12
DRAG_THRESHOLD == 2

\* _NET_WM_DESKTOP of a window that is on every desktop
Sticky == -1

\* C's integer division truncates towards zero (b > 0 throughout).
CDiv(a, b) == IF a >= 0 THEN a \div b ELSE -((-a) \div b)

-----------------------------------------------------------------------------
(* The pager's own window *)

calc_w_h(cols, rows) ==
    [w |-> gw,
     h |-> IF gh = 0 THEN (gw * (root_h * rows)) \div (root_w * cols) ELSE gh]

calc_x_y(w, h) ==
    [x |-> IF gx_negative THEN root_w - w - gx ELSE gx,
     y |-> IF gy_negative THEN root_h - h - gy ELSE gy]

\* Mutant: one line too many between the cells.
desk_size_OffByOne(cols, rows, w, h) ==
    [w |-> CDiv(w - cols, cols), h |-> CDiv(h - rows, rows)]

\* Size of one cell once the lines between the cells are taken off.
desk_size(cols, rows, w, h) ==
    [w |-> CDiv(w - (cols - 1), cols), h |-> CDiv(h - (rows - 1), rows)]

NoStrut == [side |-> "none", size |-> 0, start |-> 0, end |-> 0]

\* Mutant: a strut that is set already is left alone.
update_strut_Once(g, old) ==
    LET horizontal(side) == [side |-> side, size |-> g.h, start |-> g.x, end |-> g.x + g.w]
        vertical(side)   == [side |-> side, size |-> g.w, start |-> g.y, end |-> g.y + g.h]
    IN  CASE allow_cover \/ g.x >= root_w \/ g.y >= root_h \/ old # NoStrut -> old
          [] g.w > g.h /\ g.y = 0                -> horizontal("top")
          [] g.w > g.h /\ g.y + g.h = root_h /\ g.y # 0 -> horizontal("bottom")
          [] g.w <= g.h /\ g.x = 0               -> vertical("left")
          [] g.w <= g.h /\ g.x + g.w = root_w /\ g.x # 0 -> vertical("right")
          [] OTHER -> old

\* The strut the pager sets for geometry g, or the one it had before when the
\* pager is not at an edge it can reserve.
update_strut(g, old) ==
    LET horizontal(side) == [side |-> side, size |-> g.h, start |-> g.x, end |-> g.x + g.w]
        vertical(side)   == [side |-> side, size |-> g.w, start |-> g.y, end |-> g.y + g.h]
    IN  CASE allow_cover \/ g.x >= root_w \/ g.y >= root_h -> old
          [] g.w > g.h /\ g.y = 0                -> horizontal("top")
          [] g.w > g.h /\ g.y + g.h = root_h /\ g.y # 0 -> horizontal("bottom")
          [] g.w <= g.h /\ g.x = 0               -> vertical("left")
          [] g.w <= g.h /\ g.x + g.w = root_w /\ g.x # 0 -> vertical("right")
          [] OTHER -> old

-----------------------------------------------------------------------------
(* Pixels, desktops and windows *)

\* No cell has a pixel: converting coordinates divides by zero (SIGFPE).
NoCells(g) == g.desk_w = 0 \/ g.desk_h = 0

\* The desktop whose cell holds pixel p = <<x, y>>, and the position on that
\* desktop p stands for.  p may lie outside the pager while a button is held.
coords_to_root(g, p) ==
    LET col == CDiv(p[1], g.desk_w + 1)
        row == CDiv(p[2], g.desk_h + 1)
    IN  [rx   |-> CDiv((p[1] - col * (g.desk_w + 1)) * root_w, g.desk_w),
         ry   |-> CDiv((p[2] - row * (g.desk_h + 1)) * root_h, g.desk_h),
         desk |-> row * g.cols + col]

\* The window's box on its desktop as the pointer sees it: never smaller than
\* the minimum size a window is drawn with.
HitBox(g, c) ==
    LET h == IF "shaded" \in c.states THEN WINDOW_SHADED_H ELSE c.h
    IN  [w |-> IF (c.w * g.desk_w) \div root_w < WINDOW_MIN_W
               THEN (WINDOW_MIN_W * root_w) \div g.desk_w ELSE c.w,
         h |-> IF (h * g.desk_w) \div root_w < WINDOW_MIN_H
               THEN (WINDOW_MIN_H * root_w) \div g.desk_w ELSE h]

\* Does the window with properties c take the pointer at root position `at'?
Hit(g, c, at) ==
    /\ c.desk = at.desk \/ (c.desk = Sticky /\ show_sticky)
    /\ c.type # "desktop"
    /\ "hidden" \notin c.states
    /\ c.x <= at.rx /\ at.rx < c.x + HitBox(g, c).w
    /\ c.y <= at.ry /\ at.ry < c.y + HitBox(g, c).h

\* Mutant: the window below all others.
get_window_idx_Lowest(windows, g, at) ==
    SelectInSeq(windows, LAMBDA win : Hit(g, win.client, at))

\* Topmost window under position `at': an index of windows, 0 for the code's -1.
get_window_idx(windows, g, at) ==
    SelectLastInSeq(windows, LAMBDA win : Hit(g, win.client, at))

\* The elements of s that are in S, in their order.
Kept(s, S) ==
    LET kept[n \in 0 .. Len(s)] ==
            IF n = 0 THEN <<>>
            ELSE IF s[n] \in S THEN Append(kept[n - 1], s[n]) ELSE kept[n - 1]
    IN  kept[Len(s)]

\* Does pager_update paint a window with properties c?
Paints(c) ==
    /\ c.type \notin {"desktop", "menu", "unknown"}
    /\ "hidden" \notin c.states
    /\ c.desk # Sticky \/ show_sticky

\* The windows pager_update paints, bottom to top.
Drawn(windows) == Kept(windows, {win \in ToSet(windows) : Paints(win.client)})

\* The pixel of the pager at place p of the cell of a desktop.
PixelOfCell(g, desk, p) ==
    LET row == CDiv(desk, g.cols)
        col == desk - row * g.cols
    IN  <<p[1] + col * (g.desk_w + 1), p[2] + row * (g.desk_h + 1)>>

AtLeast(n, least) == IF n < least THEN least ELSE n

\* The rectangle painted for a window, from its upper left corner in a cell on.
DrawnBox(g, c) ==
    LET h == IF "shaded" \in c.states THEN WINDOW_SHADED_H ELSE c.h
    IN  [x |-> CDiv(c.x * g.desk_w, root_w), y |-> CDiv(c.y * g.desk_h, root_h),
         w |-> AtLeast((c.w * g.desk_w) \div root_w, WINDOW_MIN_W),
         h |-> AtLeast((h * g.desk_h) \div root_h, WINDOW_MIN_H)]

\* Does the window with properties c cover pixel p?  A window that is on every
\* desktop is painted once for each.
draw_window(g, c, p) ==
    \E desk \in IF c.desk = Sticky THEN 0 .. g.cols * g.rows - 1 ELSE {c.desk} :
        LET box  == DrawnBox(g, c)
            from == PixelOfCell(g, desk, <<box.x, box.y>>)
        IN  /\ p[1] \in from[1] .. from[1] + box.w - 1
            /\ p[2] \in from[2] .. from[2] + box.h - 1

=============================================================================
