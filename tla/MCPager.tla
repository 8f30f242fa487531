------------------------------ MODULE MCPager ------------------------------
(* Values of the constants for checking Pager on small instances. *)
EXTENDS PagerGesture

Win(desk, x, y, w, h, type, states) ==
    [desk |-> desk, x |-> x, y |-> y, w |-> w, h |-> h, type |-> type, states |-> states]

\* A window that covers desktop 0, a small one on desktop 1.
Full  == Win(0, 0, 0, 16, 16, "normal", {})
Small == Win(1, 4, 4, 4, 4, "normal", {})
\* The small window moved; the full one rolled up, on every desktop, hidden.
Moved  == Win(1, 8, 4, 4, 4, "normal", {})
Shaded == Win(0, 0, 0, 16, 16, "normal", {"shaded"})
Everywhere == Win(-1, 0, 0, 16, 16, "normal", {})
Hidden == Win(0, 0, 0, 16, 16, "normal", {"hidden"})
Unlisted == Win(0, 0, 0, 16, 16, "normal", {"skip_pager"})

Layout(nr, c, r) == [nr |-> nr, layout |-> [c |-> c, r |-> r]]
TwoByOne == {Layout(2, 2, 1)}
NoSizes == {}
TinySizes == {[w |-> 2, h |-> 2], [w |-> 3, h |-> 2]}
NoClients == {}

\* With two cells of 4 x 4 pixels in a 9 x 4 pager, (1, 1) is on desktop 0,
\* (6, 1) on desktop 1, and the other two are left and right of the pager.
InsidePoints == {<<1, 1>>, <<6, 1>>}
OutsidePoints == {<<1, 1>>, <<-12, 1>>}
PlacePoints == {<<1, 2>>, <<6, 1>>}
CornerPoints == {<<0, 0>>}

GestureClients == {Full, Shaded}
SettleClients == {Full, Moved, Small}
RolledUp == {Shaded}

\* Layouts that differ in shape, and ones whose properties disagree: more or
\* fewer desktops than cells, no layout, columns or rows left open, and more
\* cells than the window manager allows desktops.
OddLayouts == {Layout(2, 2, 1), Layout(3, 2, 1), Layout(2, 0, 0), Layout(2, 0, 2),
               Layout(2, 3, 0), Layout(2, 2, 2)}
SameShape == {Layout(1, 1, 1), Layout(4, 2, 2)}
WideLayouts == {Layout(2, 2, 1), Layout(6, 6, 1), Layout(40, 40, 1)}

PointerKinds == {"list", "close", "damage"}
SettleKinds == {"list", "close", "open", "move", "desk", "focus", "showing", "restart"}
ObeyKinds == {"obey", "close", "list", "open"}
TinyKinds == {"obey", "layout", "resize", "refuse"}
OnlyLayout == {"layout"}
Nothing == {}

\* States that differ only in what no step reads any more are the same: the
\* picture, which no step reads at all, with the flag that only says that it is
\* to be painted, and the fields of a finished gesture.
LiveMouse ==
    [mouse EXCEPT !.click = IF mouse.button = 0 THEN <<>> ELSE @,
                  !.window_x = IF mouse.idx = 0 THEN 0 ELSE @,
                  !.window_y = IF mouse.idx = 0 THEN 0 ELSE @]
LiveNeeds == [needs EXCEPT !.update = FALSE]
LiveState == <<root, clients, own, requests, notify, inputs, held, changes,
               pc, scan, windows, active, geo, LiveMouse, popup, LiveNeeds>>

\* Without popups nothing depends on the remembered popup index either, but
\* here the window manager still has requests of the user to answer.
UnansweredState ==
    <<root, clients, own, requests, sent, notify, inputs, held, changes,
      pc, [scan EXCEPT !.popup = NoWindow], windows, active, geo, LiveMouse, LiveNeeds>>

WindowSymmetry == Permutations(Windows)

=============================================================================
