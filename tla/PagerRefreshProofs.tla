------------------------- MODULE PagerRefreshProofs -------------------------
(***************************************************************************)
(* What the pager promises about its grid, its place on the screen, its    *)
(* copy of the windows and its picture, proved from the inductive          *)
(* invariant of PagerProofs and, where a theorem needs more, an invariant  *)
(* of its own.                                                             *)
(***************************************************************************)
EXTENDS PagerProofs, SequenceTheorems

-----------------------------------------------------------------------------
(* The grid *)

\* pager_configure computes the cell size for the size it stores, and makes
\* the pixmap the background.
LEMMA ConfiguredIsFresh ==
    ASSUME NEW g \in PagerGeometry, NEW size, size.w \in Nat, size.h \in Nat
    PROVE  LET c == Configured(g, size)
           IN  /\ [w |-> c.desk_w, h |-> c.desk_h] = desk_size(c.cols, c.rows, c.w, c.h)
               /\ c.attached
<1> DEFINE pos  == calc_x_y(size.w, size.h)
           desk == desk_size(g.cols, g.rows, size.w, size.h)
           c    == Configured(g, size)
<1>1. c = [g EXCEPT !.w = size.w, !.h = size.h, !.x = pos.x, !.y = pos.y,
                    !.desk_w = desk.w, !.desk_h = desk.h, !.attached = TRUE]
  BY DEF Configured
<1>2. desk = [w |-> desk.w, h |-> desk.h]
  BY DEF desk_size
<1> HIDE DEF pos, c
<1>3. /\ c.cols = g.cols /\ c.rows = g.rows /\ c.w = size.w /\ c.h = size.h
      /\ c.desk_w = desk.w /\ c.desk_h = desk.h /\ c.attached = TRUE
  <2> HIDE DEF desk
  <2> QED
    BY <1>1 DEF PagerGeometry
<1> QED
  BY <1>2, <1>3 DEF c

\* Only pager_configure takes the obligation back, and only it and a layout
\* change touch the geometry.
LEMMA OtherGridSteps ==
    ASSUME IInv, loop, ~ pager_configure, ~ update_desktop_count
    PROVE  geo' = geo /\ pc # "dead" /\ (needs.configure => needs'.configure)
<1>1. needs \in [configure : BOOLEAN, update : BOOLEAN, properties : BOOLEAN,
                 popup : BOOLEAN]
  BY DEF IInv, TypeOK
<1>2. CASE pager_handle_events
  <2>1. geo' = geo
    BY <1>2 DEF pager_handle_events, Skip, ClientListMissing, FetchClientList,
       ScanWindow, FinishScan, pager_update, pager_update_popup
  <2>2. pc # "dead"
    BY <1>2 DEF pager_handle_events, Skip, ClientListMissing, FetchClientList,
       ScanWindow, FinishScan, pager_update, pager_update_popup
  <2>3. needs'.configure = needs.configure
    BY <1>1, <1>2 DEF pager_handle_events, Skip, ClientListMissing, FetchClientList,
       ScanWindow, FinishScan, pager_update, pager_update_popup
  <2> QED
    BY <2>1, <2>2, <2>3
<1>3. CASE HandleNotification
  <2>1. PICK kind \in Notification : needs' = Flags(kind)
    BY <1>3 DEF HandleNotification, IInv, TypeOK, DisplayTypeOK
  <2>2. needs.configure => needs'.configure
    BY <1>1, <2>1 DEF Flags, Notification
  <2> QED
    BY <1>3, <2>2 DEF HandleNotification
<1>4. CASE handle_event /\ ~ HandleNotification
  <2>1. needs' = needs \/ needs' = [needs EXCEPT !.popup = FALSE]
    BY <1>4 DEF handle_event, pager_button_press, pager_button_release, Hover,
       MotionWithoutEffect, Drag, pager_leave, DivideByZero
  <2>2. \E reqs : TakeInput(reqs)
    BY <1>4 DEF handle_event, pager_button_press, pager_button_release, Hover,
       MotionWithoutEffect, Drag, pager_leave, DivideByZero
  <2> QED
    BY <1>1, <2>1, <2>2 DEF TakeInput
<1> QED
  BY <1>2, <1>3, <1>4 DEF loop

\* The cells are laid out again before anybody uses them.
LEMMA GridInductive == IInv /\ GridFreshOrOwed /\ [Next]_vars => GridFreshOrOwed'
<1> SUFFICES ASSUME IInv, GridFreshOrOwed, [Next]_vars
             PROVE  GridFreshOrOwed'
  OBVIOUS
<1>1. geo \in PagerGeometry
      /\ needs \in [configure : BOOLEAN, update : BOOLEAN, properties : BOOLEAN,
                    popup : BOOLEAN]
  BY DEF IInv, TypeOK
<1>2. CASE pager_configure
  <2>1. geo' = Configured(geo, own) /\ own.w \in Nat /\ own.h \in Nat
    BY <1>2 DEF pager_configure, IInv, TypeOK, DisplayTypeOK
  <2> QED
    BY <1>1, <2>1, ConfiguredIsFresh DEF GridFreshOrOwed
<1>3. CASE update_desktop_count
  <2>1. \/ geo' = geo /\ needs' = needs /\ pc # "dead"
        \/ pc' = "dead"
        \/ needs' = [needs EXCEPT !.configure = TRUE]
    BY <1>3 DEF update_desktop_count, KeepGrid, ChangeGrid, NoRoomForGrid, ReadLayout
  <2> QED
    BY <1>1, <2>1 DEF GridFreshOrOwed
<1>4. CASE Environment \/ UNCHANGED vars
  BY <1>4 DEF Environment, process, vars, GridFreshOrOwed
<1>5. CASE loop /\ ~ pager_configure /\ ~ update_desktop_count
  <2>1. geo' = geo /\ pc # "dead" /\ (needs.configure => needs'.configure)
    BY <1>1, <1>5, OtherGridSteps
  <2> QED
    BY <2>1 DEF GridFreshOrOwed
<1> QED
  BY <1>2, <1>3, <1>4, <1>5 DEF Next

\* The cells fit the grid and the size the pager works with, or the pager knows
\* that it owes their computation (pager.c:249, 306).
THEOREM GridsFreshOrOwed == Spec => []GridFreshOrOwed
<1>1. Init => GridFreshOrOwed
  <2> SUFFICES ASSUME Init PROVE GridFreshOrOwed
    OBVIOUS
  <2>1. PICK l \in Layouts : /\ ~ properties_set_by_idiot(l.nr, l.layout)
                             /\ geo = FirstGeometry(l.layout)
    BY DEF Init
  <2>2. l.layout \in [c : Nat \ {0}, r : Nat \ {0}]
    BY <2>1, WindowManagerAssumption DEF properties_set_by_idiot
  <2> DEFINE size == calc_w_h(l.layout.c, l.layout.r)
             g == [cols |-> l.layout.c, rows |-> l.layout.r, w |-> size.w, h |-> size.h,
                   x |-> 0, y |-> 0, desk_w |-> 0, desk_h |-> 0, attached |-> FALSE]
  <2>3. geo = Configured(g, size)
    BY <2>1 DEF FirstGeometry
  <2>4. size \in [w : Nat, h : Nat]
    BY <2>2, CalcSizeTypes
  <2> HIDE DEF size
  <2>5. g \in PagerGeometry
    BY <2>2, <2>4 DEF PagerGeometry
  <2> HIDE DEF g
  <2> QED
    BY <2>3, <2>4, <2>5, ConfiguredIsFresh DEF GridFreshOrOwed
<1> QED
  BY <1>1, GridInductive, InductiveInvariant, PTL DEF Spec

-----------------------------------------------------------------------------
(* The strut *)

\* The strut set for a place at an edge reserves that place.
LEMMA StrutReservesPlace ==
    ASSUME NEW g \in PagerGeometry, NEW old, ~ allow_cover, g.x < root_w, g.y < root_h,
           EdgesTouched(g) # {}
    PROVE  Reserves(update_strut(g, old), g)
<1> DEFINE H(side) == [side |-> side, size |-> g.h, start |-> g.x, end |-> g.x + g.w]
           V(side) == [side |-> side, size |-> g.w, start |-> g.y, end |-> g.y + g.h]
<1>1. g.x \in Int /\ g.y \in Int /\ g.w \in Nat /\ g.h \in Nat
      /\ root_w \in Nat /\ root_h \in Nat
  BY GeometryAssumption DEF PagerGeometry
<1>2. CASE g.w > g.h /\ g.y = 0
  <2>1. update_strut(g, old) = H("top")
    BY <1>1, <1>2 DEF update_strut
  <2>2. "top" \in EdgesTouched(g)
    BY <1>2 DEF EdgesTouched
  <2> QED
    BY <2>1, <2>2 DEF Reserves
<1>3. CASE g.w > g.h /\ g.y # 0
  <2>1. "bottom" \in EdgesTouched(g) /\ g.y + g.h = root_h
    <3>1. PICK side \in {"top", "bottom", "left", "right"} : side \in EdgesTouched(g)
      BY DEF EdgesTouched
    <3>2. ~ (g.w <= g.h)
      BY <1>1, <1>3
    <3>3. side # "left" /\ side # "right"
      BY <3>1, <3>2 DEF EdgesTouched
    <3>4. side # "top"
      BY <1>3, <3>1 DEF EdgesTouched
    <3>5. side = "bottom"
      BY <3>1, <3>3, <3>4
    <3> QED
      BY <3>1, <3>5 DEF EdgesTouched
  <2>2. update_strut(g, old) = H("bottom")
    BY <1>1, <1>3, <2>1 DEF update_strut
  <2> QED
    BY <2>1, <2>2 DEF Reserves
<1>4. CASE ~ (g.w > g.h) /\ g.x = 0
  <2>1. update_strut(g, old) = V("left")
    BY <1>1, <1>4 DEF update_strut
  <2>2. "left" \in EdgesTouched(g)
    BY <1>1, <1>4 DEF EdgesTouched
  <2> QED
    BY <2>1, <2>2 DEF Reserves
<1>5. CASE ~ (g.w > g.h) /\ g.x # 0
  <2>1. "right" \in EdgesTouched(g) /\ g.x + g.w = root_w
    <3>1. PICK side \in {"top", "bottom", "left", "right"} : side \in EdgesTouched(g)
      BY DEF EdgesTouched
    <3>2. side = "right"
      BY <1>1, <1>5, <3>1 DEF EdgesTouched
    <3> QED
      BY <3>1, <3>2 DEF EdgesTouched
  <2>2. update_strut(g, old) = V("right")
    BY <1>1, <1>5, <2>1 DEF update_strut
  <2> QED
    BY <2>1, <2>2 DEF Reserves
<1> QED
  BY <1>2, <1>3, <1>4, <1>5

\* What other programs do to the pager's window leaves its strut alone.
LEMMA StrutIsThePagers ==
    ASSUME IInv, [Next]_vars, ~ pager_configure
    PROVE  own'.strut = own.strut
<1>1. own \in [x : Int, y : Int, w : Nat, h : Nat, strut : Strut]
  BY DEF IInv, TypeOK, DisplayTypeOK
<1>2. CASE loop
  BY <1>2 DEF loop, pager_handle_events, Skip, update_desktop_count, KeepGrid, ChangeGrid,
     NoRoomForGrid, ReadLayout, ClientListMissing, FetchClientList, ScanWindow, FinishScan,
     pager_update, pager_update_popup, display, handle_event, HandleNotification,
     pager_button_press, pager_button_release, Hover, MotionWithoutEffect, Drag, pager_leave,
     DivideByZero, TakeInput
<1>3. CASE WindowManagerNext
  <2>1. CASE ResizeOwn
    BY <1>1, <2>1 DEF ResizeOwn
  <2>2. CASE Grant
    <3>1. \/ own' = own
          \/ own' = [own EXCEPT !.w = Head(requests).w, !.h = Head(requests).h]
          \/ own' = [own EXCEPT !.x = Head(requests).x, !.y = Head(requests).y]
      BY <2>2 DEF Grant, Configure
    <3> QED
      BY <1>1, <3>1
  <2>3. CASE WindowManagerNext /\ ~ ResizeOwn /\ ~ Grant
    BY <2>3 DEF WindowManagerNext, SwitchDesktop, FocusWindow, ToggleShowingDesktop, ChangeRoot,
       PublishList, ChangeLayout, Withdraw, Return, OpenWindow, CloseWindow, MoveWindow,
       AlterWindow, ChangeClient, Damage, Refuse, Answer, Obey, UserInput
  <2> QED
    BY <1>3, <2>1, <2>2, <2>3
<1>4. CASE UNCHANGED vars
  BY <1>4 DEF vars, display
<1> QED
  BY <1>2, <1>3, <1>4 DEF Next, Environment

\* Whatever moves the pager makes it set the strut again.
LEMMA StrutInductive == IInv /\ StrutCoversPager /\ [Next]_vars => StrutCoversPager'
<1> SUFFICES ASSUME IInv, StrutCoversPager, [Next]_vars
             PROVE  StrutCoversPager'
  OBVIOUS
<1>1. /\ geo \in PagerGeometry /\ geo' \in PagerGeometry
      /\ needs \in [configure : BOOLEAN, update : BOOLEAN, properties : BOOLEAN,
                    popup : BOOLEAN]
      /\ own \in [x : Int, y : Int, w : Nat, h : Nat, strut : Strut]
  BY NextInv DEF IInv, TypeOK, DisplayTypeOK
<1>2. CASE pager_configure
  <2>1. own'.strut = update_strut(geo', own.strut)
    BY <1>1, <1>2 DEF pager_configure
  <2>2. /\ geo'.x \in Int /\ geo'.y \in Int /\ root_w \in Nat /\ root_h \in Nat
    BY <1>1, GeometryAssumption DEF PagerGeometry
  <2>3. \/ allow_cover \/ geo'.x >= root_w \/ geo'.y >= root_h \/ EdgesTouched(geo') = {}
        \/ Reserves(own'.strut, geo')
    BY <1>1, <2>1, <2>2, StrutReservesPlace
  <2> QED
    BY <2>3 DEF StrutCoversPager, EdgesTouched, Reserves
<1>3. CASE ~ pager_configure
  <2>1. own'.strut = own.strut
    BY <1>3, StrutIsThePagers
  <2>2. \/ geo' = geo /\ (pc = "dead" => pc' = "dead")
                     /\ (needs.configure => needs'.configure)
        \/ pc' = "dead" \/ needs'.configure
    <3>1. CASE update_desktop_count
      BY <1>1, <3>1 DEF update_desktop_count, KeepGrid, ChangeGrid, NoRoomForGrid, ReadLayout
    <3>2. CASE loop /\ ~ update_desktop_count
      BY <1>3, <3>2, OtherGridSteps
    <3>3. CASE Environment \/ UNCHANGED vars
      BY <3>3 DEF Environment, process, vars
    <3> QED
      BY <3>1, <3>2, <3>3 DEF Next
  <2> QED
    BY <2>1, <2>2 DEF StrutCoversPager, EdgesTouched, Reserves
<1> QED
  BY <1>2, <1>3

\* At an edge of the screen the strut is that of the place the pager has, for
\* every geometry option, grid and size (pager.c:203-230, 260).
THEOREM StrutsCoverPager == Spec => []StrutCoversPager
<1>1. Init => StrutCoversPager
  <2> SUFFICES ASSUME Init PROVE StrutCoversPager
    OBVIOUS
  <2>1. geo \in PagerGeometry
    BY InitInv DEF IInv, TypeOK
  <2>2. own.strut = update_strut(geo, NoStrut)
    BY DEF Init
  <2> QED
    BY <2>1, <2>2, StrutReservesPlace, GeometryAssumption DEF StrutCoversPager, PagerGeometry
<1> QED
  BY <1>1, StrutInductive, InductiveInvariant, PTL DEF Spec

-----------------------------------------------------------------------------
(* The end of the process *)

\* A side that n cells and the lines between them leave no pixel for is shorter
\* than n pixels and n - 1 lines.
LEMMA NoPixelLeft ==
    ASSUME NEW n \in Nat \ {0}, NEW s \in Nat, CDiv(s - (n - 1), n) = 0
    PROVE  s < 2 * n - 1
<1> DEFINE a == s - (n - 1)
<1>1. a \in Int
  OBVIOUS
<1>2. CASE a >= 0
  <2>1. a \div n = 0
    BY <1>2 DEF CDiv
  <2> HIDE DEF a
  <2>2. a < n
    BY <1>1, <1>2, <2>1
  <2> QED
    BY <2>2 DEF a
<1>3. CASE a < 0
  BY <1>3
<1> QED
  BY <1>1, <1>2, <1>3

\* A dead process stays as it is.
LEMMA DeadSteps ==
    ASSUME IInv, [Next]_vars, pc' = "dead"
    PROVE  \/ DivideByZero \/ NoRoomForGrid
           \/ pc = "dead" /\ geo' = geo /\ needs' = needs
<1>1. CASE pager_handle_events
  BY <1>1 DEF pager_handle_events, Skip, pager_configure, update_desktop_count, KeepGrid,
     ChangeGrid, ClientListMissing, FetchClientList, ScanWindow, FinishScan, pager_update,
     pager_update_popup
<1>2. CASE handle_event
  BY <1>2 DEF handle_event, HandleNotification, pager_button_press, pager_button_release,
     Hover, MotionWithoutEffect, Drag, pager_leave, AfterEvent
<1>3. CASE Environment \/ UNCHANGED vars
  BY <1>3 DEF Environment, process, vars
<1> QED
  BY <1>1, <1>2, <1>3 DEF Next, loop

\* What ends the process needs a cell without pixels.
LEMMA DeathInductive == IInv /\ GridFreshOrOwed /\ DeadOnlyWithoutRoom /\ [Next]_vars => DeadOnlyWithoutRoom'
<1> SUFFICES ASSUME IInv, GridFreshOrOwed, DeadOnlyWithoutRoom, [Next]_vars, pc' = "dead"
             PROVE  \/ geo'.w < 2 * geo'.cols - 1 \/ geo'.h < 2 * geo'.rows - 1
                    \/ needs'.configure
  BY DEF DeadOnlyWithoutRoom
<1>1. geo \in PagerGeometry /\ geo' \in PagerGeometry
  BY NextInv DEF IInv, TypeOK
<1>2. CASE DivideByZero
  <2>1. geo' = geo /\ needs' = needs /\ pc = "next" /\ NoCells(geo)
    BY <1>2 DEF DivideByZero, TakeInput
  <2>2. CASE needs.configure
    BY <2>1, <2>2
  <2>3. CASE ~ needs.configure
    <3>1. [w |-> geo.desk_w, h |-> geo.desk_h] = desk_size(geo.cols, geo.rows, geo.w, geo.h)
      BY <2>1, <2>3 DEF GridFreshOrOwed
    <3>2. /\ geo.desk_w = CDiv(geo.w - (geo.cols - 1), geo.cols)
          /\ geo.desk_h = CDiv(geo.h - (geo.rows - 1), geo.rows)
      BY <3>1 DEF desk_size
    <3>3. geo.desk_w = 0 => geo.w < 2 * geo.cols - 1
      BY <1>1, <3>2, NoPixelLeft DEF PagerGeometry
    <3>4. geo.desk_h = 0 => geo.h < 2 * geo.rows - 1
      BY <1>1, <3>2, NoPixelLeft DEF PagerGeometry
    <3> QED
      BY <2>1, <3>3, <3>4 DEF NoCells
  <2> QED
    BY <2>2, <2>3
<1>3. CASE NoRoomForGrid
  <2>1. geo'.h = 0
    BY <1>3 DEF NoRoomForGrid
  <2> QED
    BY <1>1, <2>1 DEF PagerGeometry
<1>4. CASE pc = "dead" /\ geo' = geo /\ needs' = needs
  BY <1>4 DEF DeadOnlyWithoutRoom
<1> QED
  BY <1>2, <1>3, <1>4, DeadSteps

\* The process dies only where a cell gets no pixel, or while the cell size of
\* the grid just read is still owed (pager.c:268, 297, 536).
THEOREM DeathNeedsNoRoom == Spec => []DeadOnlyWithoutRoom
<1>1. Init => DeadOnlyWithoutRoom
  BY DEF Init, DeadOnlyWithoutRoom
<1> QED
  BY <1>1, DeathInductive, InductiveInvariant, GridsFreshOrOwed, PTL DEF Spec

\* The grids that the layouts of other programs can make the pager show, and the
\* sizes its window can have: those it asks for and those the user gives it.
Grids == {Grid(nr, l.layout) : nr \in 1 .. DesktopLimit, l \in Layouts}
Sizes == {calc_w_h(g.c, g.r) : g \in Grids} \cup {[w |-> s.w, h |-> s.h] : s \in OwnSizes}

\* A cell of every grid has a pixel in a window of every size, even while the
\* window still has the size of another grid.
Roomy == \A g \in Grids, s \in Sizes : s.w >= 2 * g.c - 1 /\ s.h >= 2 * g.r - 1

\* Whatever is read, asked for and granted is one of these, and cells have pixels.
RootKnown == root.nr \in 0 .. DesktopLimit
             /\ root.layout \in {l.layout : l \in Layouts} \cup Grids
SizeKnown == [w |-> own.w, h |-> own.h] \in Sizes
KnownRequest == {r \in OwnRequest : r.kind = "size" => [w |-> r.w, h |-> r.h] \in Sizes}
RoomInv == /\ pc # "dead" /\ ~ NoCells(geo)
           /\ RootKnown /\ SizeKnown /\ GridNow \in Grids
           /\ requests \in Seq(KnownRequest)

\* What is written into the layout property reads as the same grid.
LEMMA GridsClosed ==
    ASSUME RootKnown, root.nr # 0
    PROVE  Grid(root.nr, root.layout) \in Grids
<1>1. root.nr \in 1 .. DesktopLimit
  BY WindowManagerAssumption DEF RootKnown
<1>2. CASE root.layout \in {l.layout : l \in Layouts}
  BY <1>1, <1>2 DEF Grids
<1>3. CASE root.layout \in Grids
  <2>1. PICK nr \in 1 .. DesktopLimit, l \in Layouts : root.layout = Grid(nr, l.layout)
    BY <1>3 DEF Grids
  <2>2. root.layout \in [c : Nat \ {0}, r : Nat \ {0}]
    BY <2>1, GridTypes, WindowManagerAssumption
  <2>3. Grid(root.nr, root.layout) = root.layout
    BY <2>2 DEF Grid
  <2> QED
    BY <1>3, <2>3
<1> QED
  BY <1>2, <1>3 DEF RootKnown

\* With room, cells that are just laid out have pixels.
LEMMA CellsHavePixels ==
    ASSUME Roomy, NEW g \in PagerGeometry, [c |-> g.cols, r |-> g.rows] \in Grids,
           NEW size, size.w \in Nat, size.h \in Nat, [w |-> size.w, h |-> size.h] \in Sizes
    PROVE  ~ NoCells(Configured(g, size))
<1> DEFINE c == Configured(g, size)
<1>1. /\ c.cols = g.cols /\ c.rows = g.rows /\ c.w = size.w /\ c.h = size.h
      /\ [w |-> c.desk_w, h |-> c.desk_h] = desk_size(c.cols, c.rows, c.w, c.h)
  BY ConfiguredIsFresh DEF Configured, PagerGeometry
<1> HIDE DEF c
<1>2. /\ c.desk_w = CDiv(size.w - (g.cols - 1), g.cols)
      /\ c.desk_h = CDiv(size.h - (g.rows - 1), g.rows)
  BY <1>1 DEF desk_size
<1>3. size.w >= 2 * g.cols - 1 /\ size.h >= 2 * g.rows - 1
  BY DEF Roomy
<1>4. g.cols \in Nat \ {0} /\ g.rows \in Nat \ {0}
  BY DEF PagerGeometry
<1>5. c.desk_w # 0
  <2> SUFFICES ASSUME CDiv(size.w - (g.cols - 1), g.cols) = 0 PROVE FALSE
    BY <1>2
  <2>1. size.w < 2 * g.cols - 1
    BY <1>4, NoPixelLeft
  <2> QED
    BY <1>3, <1>4, <2>1
<1>6. c.desk_h # 0
  <2> SUFFICES ASSUME CDiv(size.h - (g.rows - 1), g.rows) = 0 PROVE FALSE
    BY <1>2
  <2>1. size.h < 2 * g.rows - 1
    BY <1>4, NoPixelLeft
  <2> QED
    BY <1>3, <1>4, <2>1
<1> QED
  BY <1>5, <1>6 DEF NoCells, c

LEMMA RoomInit == ASSUME Roomy, Init PROVE RoomInv
<1>1. PICK l \in Layouts : /\ l.nr > 0 /\ ~ properties_set_by_idiot(l.nr, l.layout)
                           /\ root.nr = l.nr /\ root.layout = l.layout
                           /\ geo = FirstGeometry(l.layout)
  BY DEF Init
<1>2. l.layout \in [c : Nat \ {0}, r : Nat \ {0}] /\ l.nr \in 1 .. DesktopLimit
  BY <1>1, WindowManagerAssumption DEF properties_set_by_idiot
<1>3. l.layout = Grid(l.nr, l.layout) /\ l.layout \in Grids
  BY <1>2 DEF Grid, Grids
<1> DEFINE size == calc_w_h(l.layout.c, l.layout.r)
           g == [cols |-> l.layout.c, rows |-> l.layout.r, w |-> size.w, h |-> size.h,
                 x |-> 0, y |-> 0, desk_w |-> 0, desk_h |-> 0, attached |-> FALSE]
<1>4. geo = Configured(g, size) /\ size \in Sizes
  BY <1>1, <1>3 DEF FirstGeometry, Sizes
<1>5. size \in [w : Nat, h : Nat] /\ size = [w |-> size.w, h |-> size.h]
  BY <1>2, CalcSizeTypes DEF calc_w_h
<1> HIDE DEF size
<1>6. g \in PagerGeometry /\ [c |-> g.cols, r |-> g.rows] = l.layout
  BY <1>2, <1>5 DEF PagerGeometry
<1>7. g.w = size.w /\ g.h = size.h
  OBVIOUS
<1> HIDE DEF g
<1>8. ~ NoCells(geo)
  BY <1>3, <1>4, <1>5, <1>6, CellsHavePixels
<1>9. GridNow = l.layout /\ geo.w = size.w /\ geo.h = size.h
  BY <1>4, <1>6 DEF GridNow, Configured, PagerGeometry
<1>10. own.w = geo.w /\ own.h = geo.h /\ requests = <<>> /\ pc = "configure"
  BY DEF Init
<1> QED
  BY <1>1, <1>2, <1>3, <1>4, <1>5, <1>8, <1>9, <1>10 DEF RoomInv, RootKnown, SizeKnown

\* The window manager and the user choose among these grids and sizes.
LEMMA RoomEnvironment ==
    ASSUME IInv, RoomInv, Environment
    PROVE  RoomInv'
<1>1. DisplayTypeOK /\ RootKnown /\ SizeKnown /\ WindowManagerNext
      /\ requests \in Seq(KnownRequest)
  BY DEF Environment, RoomInv, IInv, TypeOK
<1>2. ASSUME NEW nr \in 0 .. DesktopLimit, NEW new, WithDesktops(nr, new),
             new \in RootProperties,
             new.layout \in {l.layout : l \in Layouts} \cup Grids
      PROVE  RootKnown'
  BY <1>2 DEF WithDesktops, RootKnown, RootProperties
<1>3. ChangeLayout => RootKnown' /\ SizeKnown' /\ requests' = requests
  <2> SUFFICES ASSUME ChangeLayout PROVE RootKnown' /\ SizeKnown' /\ requests' = requests
    OBVIOUS
  <2>1. PICK l \in Layouts : WithDesktops(l.nr, [root EXCEPT !.layout = l.layout])
                             /\ UNCHANGED <<own, requests>>
    BY DEF ChangeLayout
  <2>2. /\ [root EXCEPT !.layout = l.layout] \in RootProperties
        /\ [root EXCEPT !.layout = l.layout].layout = l.layout
        /\ l.nr \in 0 .. DesktopLimit
    BY <1>1, WindowManagerAssumption DEF DisplayTypeOK, RootProperties
  <2> QED
    BY <1>1, <1>2, <2>1, <2>2 DEF SizeKnown
<1>4. Grant => RootKnown' /\ SizeKnown' /\ requests' \in Seq(KnownRequest)
  <2> SUFFICES ASSUME Grant PROVE RootKnown' /\ SizeKnown' /\ requests' \in Seq(KnownRequest)
    OBVIOUS
  <2> DEFINE r == Head(requests)
  <2>1. r \in KnownRequest /\ requests' \in Seq(KnownRequest)
    BY <1>1 DEF Grant
  <2>2. r \in OwnRequest /\ (r.kind = "size" => [w |-> r.w, h |-> r.h] \in Sizes)
    BY <2>1 DEF KnownRequest
  <2>3. CASE /\ r.kind = "desktops"
             /\ UNCHANGED own
             /\ \/ UNCHANGED root
                \/ WithDesktops(Allowed(r.nr), root)
    <3>1. Allowed(r.nr) \in 0 .. DesktopLimit
      BY <2>2, <2>3, OwnRequestFields, WindowManagerAssumption DEF Allowed
    <3>2. RootKnown'
      BY <1>1, <1>2, <2>3, <3>1 DEF RootKnown, DisplayTypeOK
    <3> QED
      BY <1>1, <2>1, <2>3, <3>2 DEF SizeKnown
  <2>4. CASE r.kind = "size" /\ Configure([own EXCEPT !.w = r.w, !.h = r.h])
    <3>1. own'.w = r.w /\ own'.h = r.h /\ root' = root
      BY <1>1, <2>4 DEF Configure, DisplayTypeOK
    <3> QED
      BY <1>1, <2>1, <2>2, <2>4, <3>1 DEF SizeKnown, RootKnown
  <2>5. CASE r.kind = "position" /\ Configure([own EXCEPT !.x = r.x, !.y = r.y])
    <3>1. own'.w = own.w /\ own'.h = own.h /\ root' = root
      BY <1>1, <2>5 DEF Configure, DisplayTypeOK
    <3> QED
      BY <1>1, <2>1, <3>1 DEF SizeKnown, RootKnown
  <2> QED
    BY <2>3, <2>4, <2>5 DEF Grant
<1>5. ResizeOwn => RootKnown' /\ SizeKnown' /\ requests' = requests
  <2> SUFFICES ASSUME ResizeOwn PROVE RootKnown' /\ SizeKnown' /\ requests' = requests
    OBVIOUS
  <2>1. PICK s \in OwnSizes : own' = [own EXCEPT !.w = s.w, !.h = s.h]
    BY DEF ResizeOwn
  <2>2. own'.w = s.w /\ own'.h = s.h
    BY <1>1, <2>1 DEF DisplayTypeOK
  <2> QED
    BY <1>1, <2>2 DEF ResizeOwn, RootKnown, SizeKnown, Sizes
<1>6. ASSUME ~ ChangeLayout, ~ Grant, ~ ResizeOwn
      PROVE  RootKnown' /\ SizeKnown' /\ requests' \in Seq(KnownRequest)
  <2>1. root'.nr = root.nr /\ root'.layout = root.layout /\ own' = own
    BY <1>1, <1>6 DEF WindowManagerNext, Answer, SwitchDesktop, FocusWindow,
       ToggleShowingDesktop, PublishList, Withdraw, Return, OpenWindow, CloseWindow,
       MoveWindow, AlterWindow, Damage, Refuse, Obey, UserInput, ChangeRoot, ChangeClient,
       DisplayTypeOK, RootProperties
  <2>2. requests' = requests \/ Withdraw \/ Refuse
    BY <1>1, <1>6 DEF WindowManagerNext, Answer, SwitchDesktop, FocusWindow,
       ToggleShowingDesktop, PublishList, Return, OpenWindow, CloseWindow,
       MoveWindow, AlterWindow, Damage, Obey, UserInput, ChangeRoot, ChangeClient
  <2>3. requests' \in Seq(KnownRequest)
    <3>1. CASE Withdraw
      BY <3>1 DEF Withdraw
    <3>2. CASE Refuse
      BY <1>1, <3>2 DEF Refuse
    <3> QED
      BY <1>1, <2>2, <3>1, <3>2
  <2> QED
    BY <1>1, <2>1, <2>3 DEF RootKnown, SizeKnown
<1>7. RootKnown' /\ SizeKnown' /\ requests' \in Seq(KnownRequest)
  BY <1>1, <1>3, <1>4, <1>5, <1>6
<1> QED
  BY <1>7 DEF RoomInv, Environment, process, NoCells, GridNow

\* A layout that is read gives one of the grids, and there is room for it.
LEMMA RoomLayout ==
    ASSUME Roomy, IInv, RoomInv, update_desktop_count
    PROVE  RoomInv'
<1>1. TypeOK /\ RootKnown /\ SizeKnown /\ GridNow \in Grids /\ ~ NoCells(geo)
      /\ requests \in Seq(KnownRequest) /\ geo \in PagerGeometry /\ root \in RootProperties
  BY DEF IInv, RoomInv, TypeOK, DisplayTypeOK
<1>2. GridRead \in Grids /\ GridRead \in [c : Nat \ {0}, r : Nat \ {0}]
  BY <1>1, GridsClosed, GridReadTypes DEF GridRead, HasLayout
<1>3. RootKnown' /\ own' = own
  <2>1. ReadLayout
    BY DEF update_desktop_count, KeepGrid, ChangeGrid, NoRoomForGrid
  <2>2. root' = root \/ root' = [root EXCEPT !.layout = GridRead]
    BY <2>1 DEF ReadLayout, x_set_desktop_layout
  <2>3. root'.nr = root.nr /\ root'.layout \in {root.layout, GridRead}
    BY <1>1, <2>2 DEF RootProperties
  <2> QED
    BY <1>1, <1>2, <2>1, <2>3 DEF RootKnown, ReadLayout
<1> DEFINE size == calc_w_h(GridRead.c, GridRead.r)
<1>4. size \in Sizes /\ size \in [w : Nat, h : Nat] /\ size = [w |-> size.w, h |-> size.h]
  BY <1>2, CalcSizeTypes DEF Sizes, calc_w_h
<1>5. /\ Relaid = [geo EXCEPT !.cols = GridRead.c, !.rows = GridRead.r, !.w = size.w,
                              !.h = size.h, !.attached = FALSE]
      /\ set_own_size(Relaid.w, Relaid.h) = [kind |-> "size", w |-> Relaid.w, h |-> Relaid.h]
  BY DEF Relaid, set_own_size
<1> HIDE DEF size
<1>6. /\ Relaid.w = size.w /\ Relaid.h = size.h /\ Relaid.desk_w = geo.desk_w
      /\ Relaid.desk_h = geo.desk_h /\ Relaid.cols = GridRead.c /\ Relaid.rows = GridRead.r
  BY <1>1, <1>5 DEF PagerGeometry
<1>7. Relaid.h # 0
  <2>1. size.h >= 2 * GridRead.r - 1
    BY <1>2, <1>4 DEF Roomy
  <2> QED
    BY <1>2, <1>4, <1>6, <2>1
<1>8. DesktopsRequest \in Seq(KnownRequest)
  <2>1. GridRead.c * GridRead.r \in Nat
    BY <1>2, ProductTypes
  <2>2. [kind |-> "desktops", nr |-> GridRead.c * GridRead.r] \in KnownRequest
    BY <2>1 DEF KnownRequest, OwnRequest
  <2> QED
    BY <2>2 DEF DesktopsRequest
<1>9. <<set_own_size(Relaid.w, Relaid.h)>> \in Seq(KnownRequest)
  BY <1>4, <1>5, <1>6 DEF KnownRequest, OwnRequest
<1>10. requests' \in Seq(KnownRequest)
  <2> DEFINE A == DesktopsRequest
             B == <<set_own_size(Relaid.w, Relaid.h)>>
  <2>1. requests' = requests \o A \/ requests' = requests \o A \o B
    BY DEF update_desktop_count, KeepGrid, ChangeGrid, NoRoomForGrid
  <2>2. A \in Seq(KnownRequest) /\ B \in Seq(KnownRequest)
    BY <1>8, <1>9
  <2> HIDE DEF A, B
  <2>3. requests \o A \in Seq(KnownRequest)
    BY <1>1, <2>2
  <2>4. requests \o A \o B \in Seq(KnownRequest)
    BY <2>2, <2>3
  <2> QED
    BY <2>1, <2>3, <2>4
<1>11. CASE KeepGrid
  BY <1>1, <1>3, <1>10, <1>11 DEF KeepGrid, RoomInv, SizeKnown, GridNow
<1>12. CASE ChangeGrid
  <2>1. geo' = Relaid /\ pc' = "list"
    BY <1>12 DEF ChangeGrid
  <2>2. GridNow' = GridRead /\ ~ NoCells(geo')
    BY <1>1, <1>2, <1>6, <2>1 DEF GridNow, NoCells
  <2> QED
    BY <1>1, <1>2, <1>3, <1>10, <2>1, <2>2 DEF RoomInv, SizeKnown
<1> QED
  BY <1>7, <1>11, <1>12 DEF update_desktop_count, NoRoomForGrid

LEMMA RoomConfigure ==
    ASSUME Roomy, IInv, RoomInv, pager_configure
    PROVE  RoomInv'
<1>1. /\ geo \in PagerGeometry /\ own \in [x : Int, y : Int, w : Nat, h : Nat, strut : Strut]
      /\ requests \in Seq(KnownRequest) /\ RootKnown /\ SizeKnown /\ GridNow \in Grids
  BY DEF IInv, TypeOK, DisplayTypeOK, RoomInv
<1>2. geo' = Configured(geo, own) /\ ~ NoCells(geo')
  BY <1>1, CellsHavePixels DEF pager_configure, SizeKnown, GridNow
<1>3. GridNow' = GridNow
  BY <1>1, <1>2 DEF GridNow, Configured, PagerGeometry
<1>4. requests' \in Seq(KnownRequest)
  <2>1. geo' \in PagerGeometry
    BY ConfigureInv DEF IInv, TypeOK
  <2>2. set_own_position(geo'.x, geo'.y) \in KnownRequest
    BY <2>1 DEF set_own_position, KnownRequest, OwnRequest, PagerGeometry
  <2> QED
    BY <1>1, <2>2 DEF pager_configure
<1>5. own'.w = own.w /\ own'.h = own.h /\ root' = root /\ pc' = "layout"
  BY <1>1 DEF pager_configure
<1> QED
  BY <1>1, <1>2, <1>3, <1>4, <1>5 DEF RoomInv, RootKnown, SizeKnown

\* Where there is room for the grids, no event and no request kills the process,
\* also between a new grid and the size for it (pager.c:268, 297, 526-539).
THEOREM StaysAlive == Roomy => (Spec => []Alive)
<1> SUFFICES ASSUME Roomy PROVE Spec => []Alive
  OBVIOUS
<1>1. Init => RoomInv
  BY RoomInit
<1>2. IInv /\ RoomInv /\ [Next]_vars => RoomInv'
  <2> SUFFICES ASSUME IInv, RoomInv, [Next]_vars PROVE RoomInv'
    OBVIOUS
  <2>1. CASE Environment
    BY <2>1, RoomEnvironment
  <2>2. CASE update_desktop_count
    BY <2>2, RoomLayout
  <2>3. CASE pager_configure
    BY <2>3, RoomConfigure
  <2>4. CASE UNCHANGED vars
    BY <2>4 DEF vars, display, process, RoomInv, RootKnown, SizeKnown, NoCells, GridNow
  <2>5. CASE loop /\ ~ pager_configure /\ ~ update_desktop_count
    <3>1. geo' = geo /\ root' = root /\ own' = own /\ requests' = requests
      <4>1. geo' = geo
        BY <2>5, OtherGridSteps
      <4>2. root' = root /\ own' = own /\ requests' = requests
        BY <2>5 DEF loop, pager_handle_events, Skip, display, ClientListMissing,
           FetchClientList, ScanWindow, FinishScan, pager_update, pager_update_popup,
           handle_event, HandleNotification, pager_button_press, pager_button_release,
           Hover, MotionWithoutEffect, Drag, pager_leave, DivideByZero, TakeInput
      <4> QED
        BY <4>1, <4>2
    <3>2. ~ DivideByZero /\ ~ NoRoomForGrid
      BY <2>5 DEF RoomInv, DivideByZero, update_desktop_count
    <3>3. pc' # "dead"
      BY <2>5, <3>2, DeadSteps DEF Next, RoomInv
    <3> QED
      BY <3>1, <3>3 DEF RoomInv, RootKnown, SizeKnown, NoCells, GridNow
  <2> QED
    BY <2>1, <2>2, <2>3, <2>4, <2>5 DEF Next
<1>3. RoomInv => Alive
  BY DEF RoomInv, Alive
<1> QED
  BY <1>1, <1>2, <1>3, InductiveInvariant, PTL DEF Spec

-----------------------------------------------------------------------------
(* What is highlighted *)

Flagged == [configure : BOOLEAN, update : BOOLEAN, properties : BOOLEAN, popup : BOOLEAN]

\* The copy and the picture agree on what is highlighted; so do root and copy.
Shown == picture.desk = active.desk /\ picture.win = active.win
Agrees == active.desk = root.desk /\ active.win = root.active

Waiting == notify # {} \/ inputs > 0

\* Whatever is not as the window manager has announced it, an event or a flag or
\* the end of the refresh under way makes up for; and a flag that pager_handle_events
\* has passed by was set by an event that is not the last.
HighlightInv ==
    /\ root.present => Agrees \/ "property" \in notify \/ needs.properties \/ pc = "scan"
    /\ geo.attached => Shown \/ needs.update
    /\ pc = "scan" => needs.update /\ ~ needs.properties
    /\ pc = "popup" => ~ needs.update
    /\ pc \in {"update", "popup"} /\ needs.properties /\ root.present => notify # {}
    /\ pc = "next" /\ (needs.update \/ (needs.properties /\ root.present)) => Waiting

\* No root property changes unannounced.
LEMMA RootAnnounced ==
    ASSUME IInv, WindowManagerNext
    PROVE  /\ notify \subseteq notify' /\ inputs <= inputs' /\ inputs \in Nat
           /\ root' = root \/ "property" \in notify'
<1>1. inputs \in Nat /\ notify \subseteq Notification /\ root \in RootProperties
  BY DEF IInv, TypeOK, DisplayTypeOK
<1>2. CASE \/ SwitchDesktop \/ FocusWindow \/ ToggleShowingDesktop \/ PublishList
           \/ ChangeLayout \/ Withdraw \/ Return
  <2>1. notify' = notify \cup {"property"} /\ inputs' = inputs
    BY <1>2 DEF SwitchDesktop, FocusWindow, ToggleShowingDesktop, PublishList,
       ChangeRoot, ChangeLayout, Withdraw, Return, Announce
  <2> QED
    BY <1>1, <2>1
<1>3. CASE OpenWindow \/ CloseWindow \/ MoveWindow \/ AlterWindow
  <2>1. UNCHANGED <<root, inputs>>
    BY <1>3 DEF OpenWindow, CloseWindow, MoveWindow, AlterWindow, ChangeClient
  <2>2. notify' = notify \/ Announce("configure")
    BY <1>3 DEF OpenWindow, CloseWindow, MoveWindow, AlterWindow
  <2> QED
    BY <1>1, <2>1, <2>2 DEF Announce
<1>4. CASE ResizeOwn
  BY <1>1, <1>4 DEF ResizeOwn, Announce
<1>5. CASE Damage
  BY <1>1, <1>5 DEF Damage, Announce
<1>6. CASE Refuse \/ UserInput
  BY <1>1, <1>6 DEF Refuse, UserInput
<1>7. CASE Grant
  BY <1>1, <1>7 DEF Grant, Configure, Announce
<1>8. CASE Obey
  BY <1>1, <1>8 DEF Obey, Announce
<1> QED
  BY <1>2, <1>3, <1>4, <1>5, <1>6, <1>7, <1>8 DEF WindowManagerNext, Answer

LEMMA HighlightInit == Init => HighlightInv
<1> SUFFICES ASSUME Init PROVE HighlightInv
  OBVIOUS
<1>1. root.desk = 0 /\ root.active = NoWindow
  BY DEF Init
<1>2. active.desk = 0 /\ active.win = NoWindow
  BY DEF Init
<1>3. picture.desk = active.desk /\ picture.win = active.win
  <2>1. picture = Image(geo, active, windows, root.showing)
    BY DEF Init
  <2> QED
    BY <2>1 DEF Image
<1> QED
  BY <1>1, <1>2, <1>3 DEF Init, HighlightInv, Agrees, Shown

\* Steps of pager_handle_events.
LEMMA HighlightRefresh ==
    ASSUME IInv, HighlightInv, pager_handle_events
    PROVE  HighlightInv'
<1>1. needs \in Flagged
  BY DEF IInv, TypeOK, Flagged
<1>2. CASE \/ Skip("configure", needs.configure, "layout")
           \/ Skip("layout", needs.properties, "update")
           \/ Skip("update", needs.update, "popup")
           \/ Skip("popup", needs.popup, "next")
  <2>1. UNCHANGED <<root, notify, inputs, active, geo, needs, picture>>
    BY <1>2 DEF Skip, display
  <2> QED
    BY <1>2, <2>1 DEF Skip, HighlightInv, Agrees, Shown, Waiting
<1>3. CASE pager_configure
  <2>1. /\ UNCHANGED <<root, notify, inputs, active, picture>>
        /\ pc' = "layout" /\ needs'.update /\ needs'.properties = needs.properties
        /\ pc = "configure"
    BY <1>1, <1>3 DEF pager_configure, Flagged
  <2> QED
    BY <2>1 DEF HighlightInv, Agrees
<1>4. CASE update_desktop_count
  <2>1. /\ needs'.properties /\ pc' \in {"list", "dead"} /\ pc = "layout"
        /\ needs'.update = needs.update
    BY <1>1, <1>4 DEF update_desktop_count, KeepGrid, ChangeGrid, NoRoomForGrid, ReadLayout,
       Flagged
  <2>2. UNCHANGED <<active, picture>> /\ (geo'.attached => geo.attached)
    <3>1. UNCHANGED <<active, picture>> /\ (geo' = geo \/ geo' = Relaid)
      BY <1>4 DEF update_desktop_count, KeepGrid, ChangeGrid, NoRoomForGrid, ReadLayout
    <3>2. geo \in PagerGeometry
      BY DEF IInv, TypeOK
    <3>3. Relaid.attached = FALSE
      BY <3>2 DEF Relaid, PagerGeometry
    <3> QED
      BY <3>1, <3>3
  <2> QED
    BY <2>1, <2>2 DEF HighlightInv, Shown
<1>5. CASE ClientListMissing
  <2>1. UNCHANGED <<root, notify, inputs, active, geo, needs, picture>>
        /\ ~ root.present /\ pc' = "update" /\ pc = "list"
    BY <1>5 DEF ClientListMissing, display
  <2> QED
    BY <2>1 DEF HighlightInv, Shown
<1>6. CASE FetchClientList
  <2>1. UNCHANGED <<root, notify, inputs, active, geo, picture>> /\ pc' = "scan"
        /\ needs'.update /\ ~ needs'.properties
    BY <1>1, <1>6 DEF FetchClientList, display, Flagged
  <2> QED
    BY <2>1 DEF HighlightInv
<1>7. CASE ScanWindow
  <2>1. UNCHANGED <<root, notify, inputs, active, geo, needs, picture, pc>> /\ pc = "scan"
    BY <1>7 DEF ScanWindow, display
  <2> QED
    BY <2>1 DEF HighlightInv
<1>8. CASE FinishScan
  <2>1. UNCHANGED <<root, notify, inputs, geo, needs, picture>>
        /\ pc = "scan" /\ pc' = "update" /\ active' = ActiveNow
    BY <1>8 DEF FinishScan, display
  <2>2. root.present => active'.desk = root.desk /\ active'.win = root.active
    BY <2>1 DEF ActiveNow
  <2> QED
    BY <2>1, <2>2 DEF HighlightInv, Agrees
<1>9. CASE pager_update
  <2>1. UNCHANGED <<root, notify, inputs, active, geo>> /\ picture' = Painted
        /\ pc = "update" /\ pc' = "popup" /\ ~ needs'.update
        /\ needs'.properties = needs.properties
    BY <1>1, <1>9 DEF pager_update, display, Flagged
  <2>2. geo.attached => picture'.desk = active.desk /\ picture'.win = active.win
    BY <2>1 DEF Painted, Image
  <2> QED
    BY <2>1, <2>2 DEF HighlightInv, Agrees, Shown
<1>10. CASE pager_update_popup
  <2>1. UNCHANGED <<root, notify, inputs, active, geo, picture>>
        /\ pc = "popup" /\ pc' = "next" /\ needs'.update = needs.update
        /\ needs'.properties = needs.properties
    BY <1>1, <1>10 DEF pager_update_popup, display, Flagged
  <2> QED
    BY <2>1 DEF HighlightInv, Agrees, Shown, Waiting
<1> QED
  BY <1>2, <1>3, <1>4, <1>5, <1>6, <1>7, <1>8, <1>9, <1>10 DEF pager_handle_events

\* The handlers of user events take one, keep every notification and raise no flag.
LEMMA InputSteps ==
    ASSUME handle_event, ~ HandleNotification
    PROVE  /\ \E reqs : TakeInput(reqs)
           /\ AfterEvent \/ pc' = "dead"
           /\ needs' = needs \/ needs' = [needs EXCEPT !.popup = FALSE]
           /\ notify \subseteq notify'
<1>1. CASE pager_button_press
  BY <1>1 DEF pager_button_press
<1>2. CASE pager_button_release
  BY <1>2 DEF pager_button_release
<1>3. CASE Hover
  <2>1. TakeInput(<<>>) /\ AfterEvent
    BY <1>3 DEF Hover
  <2>2. \/ UNCHANGED <<notify, needs>>
        \/ /\ \E kinds \in PopupEvents : notify' = notify \cup kinds
           /\ needs' = [needs EXCEPT !.popup = FALSE]
    BY <1>3 DEF Hover
  <2> QED
    BY <2>1, <2>2
<1>4. CASE MotionWithoutEffect \/ Drag
  BY <1>4 DEF MotionWithoutEffect, Drag
<1>5. CASE pager_leave \/ DivideByZero
  BY <1>5 DEF pager_leave, DivideByZero
<1> QED
  BY <1>1, <1>2, <1>3, <1>4, <1>5 DEF handle_event

\* No handler takes a flag back that makes the pager read or paint again.
LEMMA HandlersKeepFlags ==
    ASSUME IInv, handle_event
    PROVE  /\ needs.update => needs'.update
           /\ needs.properties => needs'.properties
           /\ "property" \in notify => "property" \in notify' \/ needs'.properties
<1>1. needs \in Flagged /\ notify \subseteq Notification
  BY DEF IInv, TypeOK, DisplayTypeOK, Flagged
<1>2. CASE HandleNotification
  <2>1. PICK kind \in notify : notify' = notify \ {kind} /\ needs' = Flags(kind)
    BY <1>2 DEF HandleNotification
  <2>2. CASE kind = "property"
    BY <1>1, <2>1, <2>2 DEF Flags, Flagged
  <2>3. CASE kind \in {"expose", "expose_popup", "configure"}
    BY <1>1, <2>1, <2>3 DEF Flags, Flagged
  <2> QED
    BY <1>1, <2>2, <2>3 DEF Notification
<1>3. CASE ~ HandleNotification
  BY <1>1, <1>3, InputSteps DEF Flagged
<1> QED
  BY <1>2, <1>3

\* Handlers of events: another round is made unless another event waits.
LEMMA HighlightEvent ==
    ASSUME IInv, HighlightInv, handle_event
    PROVE  HighlightInv'
<1>1. needs \in Flagged /\ inputs \in Nat /\ notify \subseteq Notification
  BY DEF IInv, TypeOK, DisplayTypeOK, Flagged
<1>2. /\ pc = "next" /\ UNCHANGED <<root, active, geo, picture>>
      /\ AfterEvent \/ pc' = "dead"
  <2>1. CASE HandleNotification
    BY <2>1 DEF HandleNotification
  <2>2. CASE ~ HandleNotification
    BY <2>2, InputSteps DEF TakeInput
  <2> QED
    BY <2>1, <2>2
<1>3. /\ needs.update => needs'.update
      /\ needs.properties => needs'.properties
      /\ "property" \in notify => "property" \in notify' \/ needs'.properties
  BY HandlersKeepFlags
<1> QED
  BY <1>2, <1>3 DEF HighlightInv, Agrees, Shown, Waiting, AfterEvent, XPending

LEMMA HighlightInductive == IInv /\ HighlightInv /\ [Next]_vars => HighlightInv'
<1> SUFFICES ASSUME IInv, HighlightInv, [Next]_vars PROVE HighlightInv'
  OBVIOUS
<1>1. CASE loop
  BY <1>1, HighlightRefresh, HighlightEvent DEF loop
<1>2. CASE Environment
  <2>1. UNCHANGED <<pc, active, geo, needs, picture>>
    BY <1>2 DEF Environment, process
  <2>2. /\ notify \subseteq notify' /\ inputs <= inputs' /\ inputs \in Nat
        /\ root' = root \/ "property" \in notify'
    BY <1>2, RootAnnounced DEF Environment
  <2>3. inputs' \in Nat
    BY <1>2, EnvironmentInv DEF IInv, TypeOK, DisplayTypeOK
  <2> QED
    BY <2>1, <2>2, <2>3 DEF HighlightInv, Agrees, Shown, Waiting
<1>3. CASE UNCHANGED vars
  BY <1>3 DEF vars, display, process, HighlightInv, Agrees, Shown, Waiting
<1> QED
  BY <1>1, <1>2, <1>3 DEF Next

\* When the pager blocks nothing is left to make up for.
LEMMA HighlightsFollow == IInv /\ HighlightInv => HighlightTrue
BY DEF HighlightInv, HighlightTrue, Idle, Waiting, Agrees, Shown

\* Whenever the pager blocks, it highlights the desktop and the window that the
\* window manager has announced, however changes and the steps of a refresh
\* interleave (pager.c:412-413, main.c:108-113).
THEOREM HighlightsTrue == Spec => []HighlightTrue
BY HighlightsFollow, HighlightInit, HighlightInductive, InductiveInvariant, PTL DEF Spec

-----------------------------------------------------------------------------
(* The copy that is ahead of the window manager *)

\* A request to place the window is on its way to the window manager.
Underway(reqs, w) == \E j \in 1 .. Len(reqs) : reqs[j].kind = "geometry" /\ reqs[j].window = w

\* The client list has the window, unless a new list was announced.
Known(w) == w \in ToSet(root.list) \/ "property" \in notify

\* The copy has windows of the client list, or it will be read again; so it will if
\* it has a window elsewhere than the window manager, unless that is about to follow.
PlaceInv ==
    /\ root.present
    /\ pc = "scan" => \A v \in ToSet(scan.todo) : Known(v)
    /\ \A i \in 1 .. Len(windows) :
          LET w == windows[i].window
          IN  /\ Known(w) \/ needs.properties
              /\ \/ clients[w] = NoClient
                 \/ windows[i].client.x = clients[w].x /\ windows[i].client.y = clients[w].y
                 \/ "configure" \in notify \/ "property" \in notify \/ needs.properties
                 \/ Underway(sent, w)

\* The window manager carries requests out and stays, and no window's properties
\* change or appear unannounced.
Faithful == "obey" \in Kinds /\ {"alter", "restart"} \cap Kinds = {}

\* Without restarts the properties of the window manager stay, and a new client list
\* is announced.
LEMMA ListAnnounced ==
    ASSUME IInv, Faithful, root.present, WindowManagerNext
    PROVE  root'.present /\ (root'.list = root.list \/ "property" \in notify')
<1>1. root \in RootProperties
  BY DEF IInv, TypeOK, DisplayTypeOK
<1>2. ASSUME NEW nr, NEW new \in RootProperties, new.present, WithDesktops(nr, new)
      PROVE  root'.present /\ root'.list = new.list
  BY <1>2 DEF WithDesktops, RootProperties
<1>3. CASE SwitchDesktop \/ FocusWindow \/ ToggleShowingDesktop \/ PublishList
  BY <1>1, <1>3 DEF SwitchDesktop, FocusWindow, ToggleShowingDesktop, PublishList,
     ChangeRoot, Announce, RootProperties
<1>4. CASE ChangeLayout
  <2>1. PICK l \in Layouts : WithDesktops(l.nr, [root EXCEPT !.layout = l.layout])
    BY <1>4 DEF ChangeLayout
  <2>2. [root EXCEPT !.layout = l.layout] \in RootProperties
        /\ [root EXCEPT !.layout = l.layout].present
        /\ [root EXCEPT !.layout = l.layout].list = root.list
    BY <1>1, WindowManagerAssumption DEF RootProperties
  <2> QED
    BY <1>2, <2>1, <2>2
<1>5. ~ Withdraw /\ ~ Return
  BY DEF Faithful, Withdraw, Return, ChangeRoot, Spontaneous
<1>6. CASE OpenWindow \/ CloseWindow \/ MoveWindow \/ AlterWindow
  BY <1>6 DEF OpenWindow, CloseWindow, MoveWindow, AlterWindow, ChangeClient
<1>7. CASE ResizeOwn \/ Damage \/ Refuse \/ UserInput
  <2>1. (ResizeOwn => UNCHANGED root) /\ (Damage => UNCHANGED root)
    BY Zenon DEF ResizeOwn, Damage
  <2>2. Refuse \/ UserInput => UNCHANGED root
    BY DEF Refuse, UserInput
  <2> QED
    BY <1>7, <2>1, <2>2
<1>8. CASE Grant
  <2>1. UNCHANGED root \/ WithDesktops(Allowed(Head(requests).nr), root)
    BY <1>8 DEF Grant, Configure
  <2> QED
    BY <1>1, <1>2, <2>1
<1>9. CASE Obey
  BY <1>1, <1>9 DEF Obey, RootProperties
<1> QED
  BY <1>3, <1>4, <1>5, <1>6, <1>7, <1>8, <1>9 DEF WindowManagerNext, Answer

\* A window that is there was there before, in the same place, or it was unknown, or
\* its move is announced; a request that is done is announced or came too late.
LEMMA PlaceSteps ==
    ASSUME IInv, Faithful, root.present, WindowManagerNext, NEW w \in Windows
    PROVE  /\ notify \subseteq notify'
           /\ \/ clients'[w] = NoClient \/ "configure" \in notify' \/ w \notin ToSet(root.list)
              \/ /\ clients[w] # NoClient
                 /\ clients'[w].x = clients[w].x /\ clients'[w].y = clients[w].y
                 /\ Underway(sent, w) => Underway(sent', w)
<1>1. /\ root \in RootProperties /\ clients \in [Windows -> Client \cup {NoClient}]
      /\ sent \in Seq(UserRequest)
  BY DEF IInv, TypeOK, DisplayTypeOK
<1>2. ASSUME clients' = clients, sent' = sent
      PROVE  \/ clients'[w] = NoClient
             \/ /\ clients[w] # NoClient
                /\ clients'[w].x = clients[w].x /\ clients'[w].y = clients[w].y
                /\ Underway(sent, w) => Underway(sent', w)
  BY <1>2 DEF Underway
<1>3. ASSUME NEW nr, NEW new \in RootProperties, new.present, WithDesktops(nr, new), sent' = sent
      PROVE  \/ clients'[w] = NoClient
             \/ /\ clients[w] # NoClient
                /\ clients'[w].x = clients[w].x /\ clients'[w].y = clients[w].y
                /\ Underway(sent, w) => Underway(sent', w)
  <2>2. clients'[w] = IF clients[w] = NoClient THEN NoClient
                      ELSE [clients[w] EXCEPT !.desk = LastDesk(clients[w].desk, nr)]
    BY <1>3 DEF WithDesktops
  <2>3. clients[w] # NoClient => clients[w] \in Client
    BY <1>1
  <2>4. clients[w] # NoClient => clients'[w].x = clients[w].x /\ clients'[w].y = clients[w].y
    BY <2>2, <2>3 DEF Client
  <2> QED
    BY <1>3, <2>2, <2>4 DEF Underway
<1>4. CASE SwitchDesktop \/ FocusWindow \/ ToggleShowingDesktop \/ PublishList
  <2>1. UNCHANGED <<clients, sent>> /\ notify' = notify \cup {"property"}
    BY <1>4 DEF SwitchDesktop, FocusWindow, ToggleShowingDesktop, PublishList, ChangeRoot, Announce
  <2> QED
    BY <1>2, <2>1
<1>5. CASE ChangeLayout
  <2>1. PICK l \in Layouts : /\ WithDesktops(l.nr, [root EXCEPT !.layout = l.layout])
                             /\ notify' = notify \cup {"property"} /\ sent' = sent
    BY <1>5 DEF ChangeLayout, Announce
  <2>2. l.layout \in [c : Nat, r : Nat]
    BY WindowManagerAssumption
  <2>3. [root EXCEPT !.layout = l.layout] \in RootProperties
        /\ [root EXCEPT !.layout = l.layout].present
    BY <1>1, <2>2 DEF RootProperties
  <2> QED
    BY <1>3, <2>1, <2>3
<1>6. ~ Withdraw /\ ~ Return /\ ~ AlterWindow
  BY DEF Faithful, Withdraw, Return, ChangeRoot, AlterWindow, ChangeClient, Spontaneous
<1>15. CASE OpenWindow
  <2>1. PICK v \in Windows \ ToSet(root.list), c \in Clients :
          /\ clients' = [clients EXCEPT ![v] = c] /\ clients[v] = NoClient
          /\ UNCHANGED <<sent, notify>>
    BY <1>15 DEF OpenWindow, ChangeClient
  <2>2. w # v => clients'[w] = clients[w]
    BY <1>1, <2>1
  <2> QED
    BY <2>1, <2>2 DEF Underway
<1>7. CASE CloseWindow
  <2>1. PICK v \in Windows : /\ clients' = [clients EXCEPT ![v] = NoClient]
                             /\ UNCHANGED <<root, sent, notify>>
    BY <1>7 DEF CloseWindow, ChangeClient
  <2>2. w = v => clients'[w] = NoClient
    BY <1>1, <2>1
  <2>3. w # v => clients'[w] = clients[w]
    BY <1>1, <2>1
  <2> QED
    BY <2>1, <2>2, <2>3 DEF Underway
<1>8. CASE MoveWindow
  BY <1>8 DEF MoveWindow, ChangeClient, Announce
<1>9. CASE ResizeOwn
  BY <1>9 DEF ResizeOwn, Announce
<1>10. CASE Damage
  <2>1. UNCHANGED <<root, clients, sent>> /\ notify \subseteq notify'
    BY <1>10 DEF Damage, Announce
  <2> QED
    BY <1>2, <2>1
<1>11. CASE Refuse
  BY <1>2, <1>11 DEF Refuse
<1>12. CASE UserInput
  BY <1>2, <1>12 DEF UserInput
<1>13. CASE Grant
  <2>1. sent' = sent /\ notify \subseteq notify'
    BY <1>13 DEF Grant, Configure, Announce
  <2>2. \/ UNCHANGED <<root, clients>>
        \/ WithDesktops(Allowed(Head(requests).nr), root)
    BY <1>13 DEF Grant, Configure
  <2> QED
    BY <1>1, <1>2, <1>3, <2>1, <2>2
<1>14. CASE Obey
  <2> DEFINE r == Head(sent)
  <2>1. /\ r \in UserRequest /\ sent # <<>> /\ sent' = Tail(sent) /\ notify \subseteq notify'
        /\ Len(sent') = Len(sent) - 1 /\ \A j \in 1 .. Len(sent) - 1 : sent'[j] = sent[j + 1]
        /\ r = sent[1]
    BY <1>1, <1>14 DEF Obey, Announce
  <2>3. Underway(sent, w) => Underway(sent', w) \/ (r.kind = "geometry" /\ r.window = w)
    <3> SUFFICES ASSUME NEW j \in 1 .. Len(sent), sent[j].kind = "geometry", sent[j].window = w
                 PROVE  Underway(sent', w) \/ (r.kind = "geometry" /\ r.window = w)
      BY DEF Underway
    <3>1. CASE j = 1
      BY <2>1, <3>1
    <3>2. CASE j # 1
      <4>1. j - 1 \in 1 .. Len(sent) - 1 /\ (j - 1) + 1 = j
        BY <1>1, <3>2
      <4>2. sent'[j - 1] = sent[j]
        BY <2>1, <4>1
      <4> QED
        BY <2>1, <4>1, <4>2 DEF Underway
    <3> QED
      BY <3>1, <3>2
  <2> HIDE DEF r
  <2>4. CASE r.kind = "geometry" /\ Valid(r)
    <3>1. "configure" \in notify'
      BY <1>14, <2>4 DEF Obey, Announce, r
    <3> QED
      BY <2>1, <3>1
  <2>5. CASE r.kind = "geometry" /\ ~ Valid(r)
    <3>1. clients' = clients
      BY <1>14, <2>5 DEF Obey, r
    <3>2. clients[r.window] = NoClient
      BY <2>5 DEF Valid
    <3> QED
      BY <2>1, <2>3, <3>1, <3>2
  <2>6. CASE r.kind # "geometry"
    <3>1. \/ clients' = clients
          \/ /\ Valid(r) /\ r.kind \in {"desktop", "unshade"}
             /\ clients' = [clients EXCEPT ![r.window] = Changed(r)]
      BY <1>14, <2>6 DEF Obey, r
    <3>2. CASE clients' = clients
      BY <2>1, <2>3, <2>6, <3>2
    <3>3. CASE /\ Valid(r) /\ r.kind \in {"desktop", "unshade"}
               /\ clients' = [clients EXCEPT ![r.window] = Changed(r)]
      <4>1. r.window \in Windows /\ clients[r.window] \in Client
        BY <1>1, <2>1, <3>3, UserRequestFields DEF Valid
      <4>2. Changed(r).x = clients[r.window].x /\ Changed(r).y = clients[r.window].y
        BY <3>3, <4>1 DEF Changed, Client
      <4>3. /\ w = r.window => clients'[w] = Changed(r)
            /\ w # r.window => clients'[w] = clients[w]
        BY <1>1, <3>3, <4>1
      <4>4. clients[r.window] # NoClient
        BY <4>1, WindowManagerAssumption
      <4> QED
        BY <2>1, <2>3, <2>6, <4>2, <4>3, <4>4
    <3> QED
      BY <3>1, <3>2, <3>3
  <2> QED
    BY <2>4, <2>5, <2>6
<1> QED
  BY <1>4, <1>5, <1>6, <1>7, <1>8, <1>9, <1>10, <1>11, <1>12, <1>13, <1>14, <1>15
  DEF WindowManagerNext, Answer

\* A refresh reads places as they are.
LEMMA PlaceRefresh ==
    ASSUME IInv, PlaceInv, pager_handle_events
    PROVE  PlaceInv'
<1>1. needs \in Flagged /\ windows \in Seq(ClientWindow) /\ scan.todo \in Seq(Windows)
      /\ clients \in [Windows -> Client \cup {NoClient}] /\ root \in RootProperties
  BY DEF IInv, TypeOK, DisplayTypeOK, Flagged
<1>2. CASE FetchClientList
  <2>1. windows' = <<>> /\ UNCHANGED <<root, clients, notify, sent>>
    BY <1>2 DEF FetchClientList, display
  <2>2. scan'.todo = root.list
    BY <1>2 DEF FetchClientList, x_get_client_list
  <2> QED
    BY <2>1, <2>2 DEF PlaceInv, Known
<1>3. CASE ScanWindow
  <2> DEFINE v == Head(scan.todo)
             new == [window |-> v, client |-> clients[v]]
  <2>1. UNCHANGED <<root, clients, notify, needs, sent>> /\ pc = "scan"
    BY <1>3 DEF ScanWindow, display
  <2>5. Known(v) /\ \A u \in ToSet(scan'.todo) : Known(u)
    <3>1. scan'.todo = Tail(scan.todo) /\ scan.todo # <<>>
      BY <1>1, <1>3 DEF ScanWindow, IInv, TypeOK
    <3>2. v = scan.todo[1] /\ ToSet(scan'.todo) \subseteq ToSet(scan.todo)
          /\ v \in ToSet(scan.todo)
      BY <1>1, <3>1 DEF ToSet
    <3> QED
      BY <2>1, <3>2 DEF PlaceInv
  <2>2. windows' = windows \/ windows' = Append(windows, new)
    BY <1>3 DEF ScanWindow
  <2>3. CASE windows' = windows
    BY <2>1, <2>3, <2>5 DEF PlaceInv, Underway, Known
  <2>4. CASE windows' = Append(windows, new)
    <3>1. Len(windows') = Len(windows) + 1 /\ windows'[Len(windows) + 1] = new
          /\ Len(windows) \in Nat /\ \A i \in 1 .. Len(windows) : windows'[i] = windows[i]
      BY <1>1, <2>4
    <3>2. new.window = v /\ new.client = clients[v]
      OBVIOUS
    <3> HIDE DEF new
    <3> HIDE DEF v
    <3> QED
      BY <2>1, <2>5, <3>1, <3>2 DEF PlaceInv, Underway, Known
  <2> QED
    BY <2>2, <2>3, <2>4
<1>4. CASE ~ FetchClientList /\ ~ ScanWindow
  <2>1. UNCHANGED <<clients, windows, sent>> /\ notify \subseteq notify'
    BY <1>4 DEF pager_handle_events, Skip, pager_configure, update_desktop_count, KeepGrid,
       ChangeGrid, NoRoomForGrid, ReadLayout, x_set_desktop_layout, Announce,
       ClientListMissing, FinishScan, pager_update, pager_update_popup, display
  <2>2. root'.present = root.present /\ root'.list = root.list /\ pc' # "scan"
    BY <1>1, <1>4 DEF pager_handle_events, Skip, pager_configure, update_desktop_count, KeepGrid,
       ChangeGrid, NoRoomForGrid, ReadLayout, x_set_desktop_layout, RootProperties,
       ClientListMissing, FinishScan, pager_update, pager_update_popup, display
  <2>3. needs'.properties = needs.properties
    BY <1>1, <1>4 DEF pager_handle_events, Skip, pager_configure, update_desktop_count, KeepGrid,
       ChangeGrid, NoRoomForGrid, ClientListMissing, FinishScan, pager_update,
       pager_update_popup, Flagged
  <2> QED
    BY <2>1, <2>2, <2>3 DEF PlaceInv, Underway, Known
<1> QED
  BY <1>2, <1>3, <1>4

\* Requests that are sent join those underway.
LEMMA PlaceRequests ==
    ASSUME IInv, NEW reqs \in Seq(UserRequest), sent' = sent \o reqs, NEW w
    PROVE  /\ Underway(sent, w) => Underway(sent', w)
           /\ (\E j \in 1 .. Len(reqs) : reqs[j].kind = "geometry" /\ reqs[j].window = w)
                => Underway(sent', w)
<1>1. sent \in Seq(UserRequest)
  BY DEF IInv, TypeOK, DisplayTypeOK
<1>2. /\ Len(sent') = Len(sent) + Len(reqs) /\ Len(sent) \in Nat /\ Len(reqs) \in Nat
      /\ \A j \in 1 .. Len(sent) : sent'[j] = sent[j]
      /\ \A j \in 1 .. Len(reqs) : sent'[Len(sent) + j] = reqs[j]
  BY <1>1
<1>3. Underway(sent, w) => Underway(sent', w)
  <2> SUFFICES ASSUME NEW j \in 1 .. Len(sent), sent[j].kind = "geometry", sent[j].window = w
               PROVE  Underway(sent', w)
    BY DEF Underway
  <2>1. j \in 1 .. Len(sent') /\ sent'[j] = sent[j]
    BY <1>2
  <2> QED
    BY <2>1 DEF Underway
<1>4. ASSUME NEW j \in 1 .. Len(reqs), reqs[j].kind = "geometry", reqs[j].window = w
      PROVE  Underway(sent', w)
  <2>1. Len(sent) + j \in 1 .. Len(sent') /\ sent'[Len(sent) + j] = reqs[j]
    BY <1>2
  <2> QED
    BY <1>4, <2>1 DEF Underway
<1> QED
  BY <1>3, <1>4

\* A drag with button 2 asks for the place.
LEMMA DragAsksForPlace ==
    ASSUME NEW win, NEW to, mouse.button = 2
    PROVE  \E j \in 1 .. Len(DragRequests(win, to)) :
              /\ DragRequests(win, to)[j].kind = "geometry"
              /\ DragRequests(win, to)[j].window = win.window
<1> DEFINE A == OnlyIf(to.desk # win.client.desk, x_window_set_desktop(win.window, to.desk))
           B == OnlyIf(mouse.button = 2 /\ "shaded" \in win.client.states,
                       x_window_set_shaded(win.window))
           C == OnlyIf(mouse.button = 2, x_window_set_geometry(win.window, to.x, to.y))
           last == x_window_set_geometry(win.window, to.x, to.y)
           any == {x_window_set_desktop(win.window, to.desk), x_window_set_shaded(win.window)}
<1>1. DragRequests(win, to) = A \o B \o C
  BY DEF DragRequests
<1>2. A \in Seq(any)
  <2> DEFINE r == x_window_set_desktop(win.window, to.desk)
  <2>1. r \in any
    OBVIOUS
  <2> HIDE DEF any
  <2>2. A = <<r>> \/ A = <<>>
    BY DEF OnlyIf
  <2> HIDE DEF A, r
  <2>3. <<r>> \in Seq(any) /\ <<>> \in Seq(any)
    BY <2>1
  <2> QED
    BY <2>2, <2>3
<1>3. B \in Seq(any)
  <2> DEFINE r == x_window_set_shaded(win.window)
  <2>1. r \in any
    OBVIOUS
  <2> HIDE DEF any
  <2>2. B = <<r>> \/ B = <<>>
    BY DEF OnlyIf
  <2> HIDE DEF B, r
  <2>3. <<r>> \in Seq(any) /\ <<>> \in Seq(any)
    BY <2>1
  <2> QED
    BY <2>2, <2>3
<1>4. C = <<last>>
  BY DEF OnlyIf
<1>5. last.kind = "geometry" /\ last.window = win.window
  BY DEF x_window_set_geometry
<1> HIDE DEF A, B, C, last, any
<1>6. /\ Len(A \o B \o C) = Len(A \o B) + 1 /\ Len(A \o B) \in Nat
      /\ (A \o B \o C)[Len(A \o B) + 1] = last
  <2>1. A \o B \in Seq(any)
    BY <1>2, <1>3
  <2> DEFINE AB == A \o B
  <2> HIDE DEF AB
  <2>2. AB \in Seq(any) /\ A \o B \o C = AB \o <<last>>
    BY <1>4, <2>1 DEF AB
  <2>3. /\ Len(AB \o <<last>>) = Len(AB) + 1 /\ Len(AB) \in Nat
        /\ (AB \o <<last>>)[Len(AB) + 1] = last
    BY <2>2
  <2> QED
    BY <2>2, <2>3 DEF AB
<1> QED
  BY <1>1, <1>5, <1>6

\* A drag asks for what it does to the copy.
LEMMA PlaceDrag ==
    ASSUME IInv, Faithful, PlaceInv, Drag
    PROVE  PlaceInv'
<1>1. PICK p, idx, win, to, reqs :
        /\ p \in Points
        /\ idx = mouse.idx /\ win = windows[idx] /\ to = Onto(win.client, coords_to_root(geo, p))
        /\ reqs = DragRequests(win, to)
        /\ TakeInput(reqs)
        /\ windows' = [windows EXCEPT ![idx].client = to]
  BY DEF Drag
<1>2. /\ windows \in Seq(ClientWindow) /\ idx \in 1 .. Len(windows) /\ geo \in PagerGeometry
  BY <1>1 DEF IInv, TypeOK, IndexInRange, Drag, TakeInput
<1>3. win \in ClientWindow
  BY <1>1, <1>2
<1>4. win.client \in Client /\ to \in Client
  <2>1. coords_to_root(geo, p) \in [rx : Int, ry : Int, desk : Int]
    BY <1>1, <1>2, PagerAssumption, CoordsTypes DEF Drag
  <2>2. win.client \in Client
    BY <1>3 DEF ClientWindow
  <2> QED
    BY <1>1, <2>1, <2>2, OntoTypes DEF IInv
<1>5. reqs \in Seq(UserRequest)
  BY <1>1, <1>3, <1>4, DragRequestTypes
<1>6. UNCHANGED <<root, clients, notify, needs>> /\ sent' = sent \o reqs /\ pc' # "scan"
  BY <1>1 DEF Drag, TakeInput, Sent, Heeds, Faithful, AfterEvent
<1>7. mouse.button # 2 => to.x = win.client.x /\ to.y = win.client.y
  BY <1>1, <1>4 DEF Onto, Client
<1>8. mouse.button = 2 => Underway(sent', win.window)
  <2>1. mouse.button = 2
          => \E j \in 1 .. Len(reqs) : reqs[j].kind = "geometry" /\ reqs[j].window = win.window
    BY <1>1, DragAsksForPlace
  <2> QED
    BY <1>5, <1>6, <2>1, PlaceRequests
<1>9. \A w : Underway(sent, w) => Underway(sent', w)
  BY <1>5, <1>6, PlaceRequests
<1>10. /\ Len(windows') = Len(windows)
       /\ windows'[idx].window = win.window /\ windows'[idx].client = to
       /\ \A i \in 1 .. Len(windows) : i # idx => windows'[i] = windows[i]
  <2>1. windows' = [windows EXCEPT ![idx] = [win EXCEPT !.client = to]]
    BY <1>1
  <2>2. [win EXCEPT !.client = to].window = win.window /\ [win EXCEPT !.client = to].client = to
    BY <1>3 DEF ClientWindow
  <2> QED
    BY <1>2, <2>1, <2>2
<1>11. ASSUME NEW i \in 1 .. Len(windows),
              clients[windows'[i].window] # NoClient,
              ~ ("configure" \in notify \/ "property" \in notify \/ needs.properties),
              ~ Underway(sent', windows'[i].window)
       PROVE  /\ windows'[i].client.x = clients[windows'[i].window].x
              /\ windows'[i].client.y = clients[windows'[i].window].y
  <2>1. CASE i = idx
    <3>1. windows'[i].window = windows[i].window /\ windows[i] = win
      BY <1>1, <1>10, <2>1
    <3>2. win.client.x = clients[win.window].x /\ win.client.y = clients[win.window].y
      BY <1>9, <1>11, <3>1 DEF PlaceInv
    <3>3. to.x = win.client.x /\ to.y = win.client.y
      BY <1>7, <1>8, <1>11, <3>1
    <3> QED
      BY <1>10, <2>1, <3>1, <3>2, <3>3
  <2>2. CASE i # idx
    BY <1>9, <1>10, <1>11, <2>2 DEF PlaceInv
  <2> QED
    BY <2>1, <2>2
<1>12. \A i \in 1 .. Len(windows) : windows'[i].window = windows[i].window
  BY <1>1, <1>10
<1> QED
  BY <1>6, <1>10, <1>11, <1>12 DEF PlaceInv, Known

\* No other handler touches the copy.
LEMMA PlaceEvent ==
    ASSUME IInv, Faithful, PlaceInv, handle_event, ~ Drag
    PROVE  PlaceInv'
<1>1. needs \in Flagged /\ notify \subseteq Notification /\ windows \in Seq(ClientWindow)
  BY DEF IInv, TypeOK, DisplayTypeOK, Flagged
<1>2. CASE HandleNotification
  <2>1. PICK kind \in notify : notify' = notify \ {kind} /\ needs' = Flags(kind)
    BY <1>2 DEF HandleNotification
  <2>2. UNCHANGED <<root, clients, windows, sent>>
    BY <1>2 DEF HandleNotification
  <2>3. /\ needs.properties => needs'.properties
        /\ \A k \in {"configure", "property"} :
              k \in notify => k \in notify' \/ needs'.properties
    <3>1. CASE kind \in {"configure", "property"}
      BY <1>1, <2>1, <3>1 DEF Flags, Flagged
    <3>2. CASE kind \in {"expose", "expose_popup"}
      BY <1>1, <2>1, <3>2 DEF Flags, Flagged
    <3> QED
      BY <1>1, <3>1, <3>2 DEF Notification
  <2>4. pc' # "scan"
    BY <1>2 DEF HandleNotification, AfterEvent
  <2> QED
    BY <2>2, <2>3, <2>4 DEF PlaceInv, Underway, Known
<1>3. CASE ~ HandleNotification
  <2>1. /\ needs' = needs \/ needs' = [needs EXCEPT !.popup = FALSE]
        /\ notify \subseteq notify' /\ pc' # "scan"
    BY <1>3, InputSteps DEF AfterEvent
  <2>2. UNCHANGED windows /\ \E reqs \in Seq(UserRequest) : TakeInput(reqs)
    <3>0. <<>> \in Seq(UserRequest)
      OBVIOUS
    <3>1. CASE pager_button_press
      BY <3>0, <3>1 DEF pager_button_press
    <3>2. CASE pager_button_release
      <4>1. PICK b \in held, p \in Points :
              /\ UNCHANGED windows /\ pc = "next"
              /\ mouse.button = b => ~ NoCells(geo)
              /\ TakeInput(IF mouse.button = b
                           THEN ReleaseRequests(b, coords_to_root(geo, p).desk) ELSE <<>>)
        BY <3>2 DEF pager_button_release, TakeInput
      <4>2. CASE mouse.button = b
        <5>1. coords_to_root(geo, p) \in [rx : Int, ry : Int, desk : Int]
          BY <4>1, <4>2, PagerAssumption, CoordsTypes DEF IInv, TypeOK
        <5> QED
          BY <4>1, <4>2, <5>1, ReleaseRequestTypes
      <4>3. CASE mouse.button # b
        BY <3>0, <4>1, <4>3
      <4> QED
        BY <4>2, <4>3
    <3>3. CASE Hover
      BY <3>0, <3>3 DEF Hover
    <3>4. CASE MotionWithoutEffect \/ pager_leave \/ DivideByZero
      BY <3>0, <3>4 DEF MotionWithoutEffect, pager_leave, DivideByZero
    <3> QED
      BY <1>3, <3>1, <3>2, <3>3, <3>4 DEF handle_event
  <2>3. PICK reqs \in Seq(UserRequest) : TakeInput(reqs)
    BY <2>2
  <2>4. UNCHANGED <<root, clients>> /\ sent' = sent \o reqs
    BY <2>3 DEF TakeInput, Sent, Heeds, Faithful
  <2>5. \A w : Underway(sent, w) => Underway(sent', w)
    BY <2>4, PlaceRequests
  <2>6. needs'.properties = needs.properties
    BY <1>1, <2>1 DEF Flagged
  <2> QED
    BY <2>1, <2>2, <2>4, <2>5, <2>6 DEF PlaceInv, Known
<1> QED
  BY <1>2, <1>3

\* Once a window manager that heeds pagers has done what the user's gestures asked
\* for and the pager blocks, its copy has every window in its place, if windows move
\* with an announcement only and the window manager stays (pager.c:1210).
THEOREM CopyAgrees == Faithful => (Spec => []CopyAgreesOnPlace)
<1> SUFFICES ASSUME Faithful PROVE Spec => []CopyAgreesOnPlace
  OBVIOUS
<1>1. Init => PlaceInv
  BY DEF Init, PlaceInv
<1>2. IInv /\ PlaceInv /\ [Next]_vars => PlaceInv'
  <2> SUFFICES ASSUME IInv, PlaceInv, [Next]_vars PROVE PlaceInv'
    OBVIOUS
  <2>1. CASE loop
    BY <2>1, PlaceRefresh, PlaceDrag, PlaceEvent DEF loop
  <2>2. CASE Environment
    <3>1. UNCHANGED <<windows, needs, pc, scan>> /\ windows \in Seq(ClientWindow)
      BY <2>2 DEF Environment, process, IInv, TypeOK
    <3>2. \A i \in 1 .. Len(windows) : windows[i].window \in Windows
      <4>1. \A i \in 1 .. Len(windows) : windows[i] \in ClientWindow
        BY <3>1
      <4> QED
        BY <4>1 DEF ClientWindow
    <3>3. root.present
      BY DEF PlaceInv
    <3>4. \A w \in Windows :
            /\ notify \subseteq notify'
            /\ \/ clients'[w] = NoClient \/ "configure" \in notify' \/ w \notin ToSet(root.list)
               \/ /\ clients[w] # NoClient
                  /\ clients'[w].x = clients[w].x /\ clients'[w].y = clients[w].y
                  /\ Underway(sent, w) => Underway(sent', w)
      BY <2>2, <3>3, PlaceSteps DEF Environment
    <3>5. root'.present /\ (root'.list = root.list \/ "property" \in notify')
          /\ notify \subseteq notify'
      BY <2>2, <3>3, ListAnnounced, RootAnnounced DEF Environment
    <3>6. \A v : Known(v) => Known(v)'
      BY <3>5 DEF Known
    <3> QED
      BY <3>1, <3>2, <3>4, <3>5, <3>6 DEF PlaceInv, Known
  <2>3. CASE UNCHANGED vars
    BY <2>3 DEF vars, display, process, PlaceInv, Underway, Known
  <2> QED
    BY <2>1, <2>2, <2>3 DEF Next
<1>3. IInv /\ HighlightInv /\ PlaceInv => CopyAgreesOnPlace
  <2> SUFFICES ASSUME IInv, HighlightInv, PlaceInv, Idle, sent = <<>>, NEW i \in DOMAIN windows,
                      clients[windows[i].window] # NoClient
               PROVE  /\ windows[i].client.x = clients[windows[i].window].x
                      /\ windows[i].client.y = clients[windows[i].window].y
    BY DEF CopyAgreesOnPlace
  <2>1. i \in 1 .. Len(windows)
    BY DEF IInv, TypeOK
  <2>2. ~ needs.properties /\ notify = {}
    BY DEF HighlightInv, PlaceInv, Idle, Waiting
  <2>3. ~ Underway(sent, windows[i].window)
    BY DEF Underway
  <2> QED
    BY <2>1, <2>2, <2>3 DEF PlaceInv
<1> QED
  BY <1>1, <1>2, <1>3, HighlightInit, HighlightInductive, InductiveInvariant, PTL DEF Spec

-----------------------------------------------------------------------------
(* The copy and the picture *)

\* What a refresh makes of a client list whose windows have properties cl.
Copied(cl, list) ==
    LET shown == Kept(list, {w \in Windows :
                     cl[w] # NoClient /\ "skip_pager" \notin cl[w].states})
    IN  [i \in DOMAIN shown |-> [window |-> shown[i], client |-> cl[shown[i]]]]

\* It depends on the properties of the windows that were read.
LEMMA CopiedSame ==
    ASSUME NEW cl, NEW dl, NEW list \in Seq(Windows), NEW n \in 0 .. Len(list),
           \A m \in 1 .. n : cl[list[m]] = dl[list[m]]
    PROVE  Copied(cl, SubSeq(list, 1, n)) = Copied(dl, SubSeq(list, 1, n))
<1> DEFINE S(f) == {w \in Windows : f[w] # NoClient /\ "skip_pager" \notin f[w].states}
           T == {list[m] : m \in 1 .. n}
           t == SubSeq(list, 1, n)
           K == Kept(t, S(cl))
<1>1. \A m \in 1 .. n : list[m] \in S(cl) <=> list[m] \in S(dl)
  OBVIOUS
<1>2. K = Kept(t, S(dl))
  <2> HIDE DEF S
  <2> QED
    BY <1>1, KeptSame
<1>3. K \in Seq(T)
  <2>1. t \in Seq(T) /\ Len(t) = n /\ n \in 0 .. Len(t)
    OBVIOUS
  <2>2. SubSeq(t, 1, n) = t
    BY <2>1
  <2> HIDE DEF S, T, t
  <2>3. K \in Seq(T \cap S(cl))
    BY <2>1, <2>2, KeptTypes
  <2> QED
    BY <2>3
<1>4. Copied(cl, t) = [i \in DOMAIN K |-> [window |-> K[i], client |-> cl[K[i]]]]
  BY DEF Copied
<1>5. Copied(dl, t) = [i \in DOMAIN K |-> [window |-> K[i], client |-> dl[K[i]]]]
  BY <1>2 DEF Copied
<1>6. \A v \in T : cl[v] = dl[v]
  OBVIOUS
<1> HIDE DEF K, T, t
<1>7. \A i \in DOMAIN K : cl[K[i]] = dl[K[i]]
  BY <1>3, <1>6
<1> QED
  BY <1>4, <1>5, <1>7 DEF t

\* A window more is appended, unless it is left out.
LEMMA CopiedStep ==
    ASSUME NEW cl, NEW list \in Seq(Windows), NEW n \in 1 .. Len(list)
    PROVE  Copied(cl, SubSeq(list, 1, n)) =
             IF cl[list[n]] = NoClient \/ "skip_pager" \in cl[list[n]].states
             THEN Copied(cl, SubSeq(list, 1, n - 1))
             ELSE Append(Copied(cl, SubSeq(list, 1, n - 1)),
                         [window |-> list[n], client |-> cl[list[n]]])
<1> DEFINE S == {w \in Windows : cl[w] # NoClient /\ "skip_pager" \notin cl[w].states}
           K(m) == Kept(SubSeq(list, 1, m), S)
           C(k) == [i \in DOMAIN k |-> [window |-> k[i], client |-> cl[k[i]]]]
<1>1. \A m : Copied(cl, SubSeq(list, 1, m)) = C(K(m))
  BY DEF Copied
<1>2. list[n] \in S <=> ~ (cl[list[n]] = NoClient \/ "skip_pager" \in cl[list[n]].states)
  OBVIOUS
<1>3. K(n) = IF list[n] \in S THEN Append(K(n - 1), list[n]) ELSE K(n - 1)
  <2> HIDE DEF S
  <2> QED
    BY KeptStep
<1>4. K(n - 1) \in Seq(Windows)
  <2>1. n - 1 \in 0 .. Len(list)
    OBVIOUS
  <2> HIDE DEF S
  <2>2. K(n - 1) \in Seq(Windows \cap S)
    BY <2>1, KeptTypes
  <2> QED
    BY <2>2
<1>5. ASSUME NEW k \in Seq(Windows), NEW w \in Windows
      PROVE  C(Append(k, w)) = Append(C(k), [window |-> w, client |-> cl[w]])
  <2> DEFINE new == [window |-> w, client |-> cl[w]]
             A == C(Append(k, w))
             B == Append(C(k), new)
  <2>1. DOMAIN Append(k, w) = 1 .. Len(k) + 1 /\ DOMAIN k = 1 .. Len(k) /\ Len(k) \in Nat
    OBVIOUS
  <2>2. A = [i \in 1 .. Len(k) + 1 |-> IF i <= Len(k) THEN C(k)[i] ELSE new]
    <3>1. \A i \in 1 .. Len(k) + 1 :
             Append(k, w)[i] = IF i <= Len(k) THEN k[i] ELSE w
      OBVIOUS
    <3>2. \A i \in 1 .. Len(k) : C(k)[i] = [window |-> k[i], client |-> cl[k[i]]]
      BY <2>1
    <3>3. \A i \in 1 .. Len(k) + 1 : i <= Len(k) => i \in 1 .. Len(k)
      BY <2>1
    <3> QED
      BY <2>1, <3>1, <3>2, <3>3
  <2>3. C(k) \in Seq([window : Windows, client : {cl[v] : v \in Windows}])
        /\ Len(C(k)) = Len(k)
    <3>1. C(k) \in [1 .. Len(k) -> [window : Windows, client : {cl[v] : v \in Windows}]]
      BY <2>1
    <3> QED
      BY <2>1, <3>1
  <2> HIDE DEF A, C
  <2>4. B = [i \in 1 .. Len(k) + 1 |-> IF i <= Len(k) THEN C(k)[i] ELSE new]
    BY <2>3
  <2> QED
    BY <2>2, <2>4 DEF A
<1>6. list[n] \in Windows
  OBVIOUS
<1> HIDE DEF C, K, S
<1>7. CASE list[n] \in S
  <2>1. C(K(n)) = C(Append(K(n - 1), list[n]))
    BY <1>3, <1>7
  <2>2. C(Append(K(n - 1), list[n]))
          = Append(C(K(n - 1)), [window |-> list[n], client |-> cl[list[n]]])
    BY <1>4, <1>5, <1>6
  <2> QED
    BY <1>1, <1>2, <1>7, <2>1, <2>2
<1>8. CASE list[n] \notin S
  <2>1. C(K(n)) = C(K(n - 1))
    BY <1>3, <1>8
  <2> QED
    BY <1>1, <1>2, <1>8, <2>1
<1> QED
  BY <1>7, <1>8

LEMMA CopiedNothing ==
    ASSUME NEW cl, NEW list \in Seq(Windows)
    PROVE  Copied(cl, SubSeq(list, 1, 0)) = <<>>
<1> DEFINE S == {w \in Windows : cl[w] # NoClient /\ "skip_pager" \notin cl[w].states}
<1>1. Kept(SubSeq(list, 1, 0), S) = <<>>
  <2> HIDE DEF S
  <2> QED
    BY KeptNothing
<1> DEFINE none == [i \in DOMAIN <<>> |-> [window |-> <<>>[i], client |-> cl[<<>>[i]]]]
<1>2. Copied(cl, SubSeq(list, 1, 0)) = none
  BY <1>1 DEF Copied
<1>3. none \in [1 .. 0 -> Nat] /\ 0 \in Nat
  OBVIOUS
<1> HIDE DEF none
<1>4. none \in Seq(Nat) /\ Len(none) = 0
  BY <1>3
<1> QED
  BY <1>2, <1>4

\* The window manager is asked only for another desktop or active window: what
\* changes the windows themselves is asked for by gestures that drag.
OnlySwitches == \A j \in 1 .. Len(sent) : sent[j].kind \in {"current_desktop", "active_window"}

\* The windows will be read again.
Stale == needs.properties \/ {"property", "configure"} \cap notify # {}

\* A refresh under way has read the first n windows as they still are.
ReadTo(n) ==
    /\ scan.todo = SubSeq(root.list, n + 1, Len(root.list))
    /\ windows = Copied(clients, SubSeq(root.list, 1, n))

\* The copy is what one reading of everything would give, or will be read again.
CopyInv ==
    /\ OnlySwitches
    /\ ListCurrent /\ ~ Stale =>
          IF pc = "scan" THEN \E n \in 0 .. Len(root.list) : ReadTo(n)
          ELSE windows = Copied(clients, root.list)

\* The picture shows the copy, or will be painted again.
PictureInv ==
    geo.attached => \/ needs.update \/ needs.properties \/ "property" \in notify
                    \/ picture = Image(geo, active, windows, x_get_showing_desktop)

\* A window of the client list changes its properties only with an announcement,
\* as long as nobody asks for it, or it goes.
LEMMA ClientsAnnounced ==
    ASSUME IInv, "alter" \notin Kinds, OnlySwitches, WindowManagerNext,
           NEW w \in ToSet(root.list)
    PROVE  \/ {"property", "configure"} \cap notify' # {}
           \/ clients'[w] \in {clients[w], NoClient}
<1>1. /\ clients \in [Windows -> Client \cup {NoClient}] /\ sent \in Seq(UserRequest)
      /\ root.list \in Seq(Windows)
  BY DEF IInv, TypeOK, DisplayTypeOK, RootProperties
<1>2. w \in Windows
  BY <1>1 DEF ToSet
<1>3. CASE \/ SwitchDesktop \/ FocusWindow \/ ToggleShowingDesktop \/ PublishList
           \/ ChangeLayout \/ Withdraw \/ Return
  BY <1>3 DEF SwitchDesktop, FocusWindow, ToggleShowingDesktop, PublishList, ChangeRoot,
     ChangeLayout, Withdraw, Return, Announce
<1>4. CASE OpenWindow
  <2>1. PICK v \in Windows \ ToSet(root.list), c \in Clients :
          clients' = [clients EXCEPT ![v] = c]
    BY <1>4 DEF OpenWindow, ChangeClient
  <2> QED
    BY <1>1, <1>2, <2>1
<1>5. CASE CloseWindow
  <2>1. PICK v \in Windows : clients' = [clients EXCEPT ![v] = NoClient]
    BY <1>5 DEF CloseWindow, ChangeClient
  <2> QED
    BY <1>1, <1>2, <2>1
<1>6. CASE MoveWindow
  BY <1>6 DEF MoveWindow, Announce
<1>7. ~ AlterWindow
  BY DEF AlterWindow, ChangeClient, Spontaneous
<1>8. CASE ResizeOwn \/ Damage \/ Refuse \/ UserInput
  BY <1>8 DEF ResizeOwn, Damage, Refuse, UserInput
<1>9. CASE Grant
  BY <1>9 DEF Grant, Configure, Announce
<1>10. CASE Obey
  <2>1. Head(sent).kind \in {"current_desktop", "active_window"}
    <3>1. sent # <<>>
      BY <1>10 DEF Obey
    <3>2. 1 \in 1 .. Len(sent) /\ Head(sent) = sent[1]
      BY <1>1, <3>1
    <3> QED
      BY <3>2 DEF OnlySwitches
  <2> QED
    BY <1>10, <2>1 DEF Obey
<1> QED
  BY <1>3, <1>4, <1>5, <1>6, <1>7, <1>8, <1>9, <1>10 DEF WindowManagerNext, Answer

\* Without a drag no step asks for anything but a switch.
LEMMA SwitchSteps ==
    ASSUME IInv, OnlySwitches, [Next]_vars, ~ Drag
    PROVE  OnlySwitches'
<1>1. sent \in Seq(UserRequest)
  BY DEF IInv, TypeOK, DisplayTypeOK
<1>2. CASE sent' = sent \/ sent' = <<>> \/ (sent # <<>> /\ sent' = Tail(sent))
  <2>1. sent # <<>> => \A j \in 1 .. Len(Tail(sent)) : Tail(sent)[j] = sent[j + 1]
                                                    /\ j + 1 \in 1 .. Len(sent)
    BY <1>1
  <2> QED
    BY <1>2, <2>1 DEF OnlySwitches
<1>3. CASE pager_handle_events
  <2>1. sent' = sent
    BY <1>3 DEF pager_handle_events, Skip, pager_configure, update_desktop_count, KeepGrid,
       ChangeGrid, NoRoomForGrid, ReadLayout, ClientListMissing, FetchClientList, ScanWindow,
       FinishScan, pager_update, pager_update_popup, display
  <2> QED
    BY <1>2, <2>1
<1>4. CASE Environment
  <2>1. sent' = sent \/ sent' = <<>> \/ (sent # <<>> /\ sent' = Tail(sent))
    BY <1>4 DEF Environment, WindowManagerNext, SwitchDesktop, FocusWindow,
       ToggleShowingDesktop, PublishList, ChangeRoot, ChangeLayout, Withdraw, Return,
       OpenWindow, CloseWindow, MoveWindow, AlterWindow, ChangeClient, ResizeOwn, Damage,
       Refuse, Answer, Grant, Obey, UserInput
  <2> QED
    BY <1>2, <2>1
<1>5. CASE handle_event /\ ~ HandleNotification
  <2>1. PICK reqs : /\ TakeInput(reqs)
                    /\ reqs = <<>> \/ \E b, desk : reqs = ReleaseRequests(b, desk)
    <3>1. CASE pager_button_release
      BY <3>1 DEF pager_button_release
    <3>2. CASE ~ pager_button_release
      BY <1>5, <3>2 DEF handle_event, pager_button_press, Hover, MotionWithoutEffect,
         pager_leave, DivideByZero
    <3> QED
      BY <3>1, <3>2
  <2> DEFINE only(s) == \A j \in 1 .. Len(s) : s[j].kind \in {"current_desktop", "active_window"}
  <2>2. only(reqs)
    BY <2>1 DEF ReleaseRequests, x_set_current_desktop, x_set_active_window
  <2>3. sent' = reqs \/ sent' = sent \o reqs
    BY <2>1 DEF TakeInput, Sent
  <2>6. PICK a, b : reqs \in {<<>>, <<a>>, <<a, b>>}
    BY <2>1 DEF ReleaseRequests
  <2>4. reqs \in Seq({a, b}) /\ Len(reqs) \in Nat
    <3>1. <<>> \in Seq({a, b}) /\ <<a>> \in Seq({a, b}) /\ <<a, b>> \in Seq({a, b})
      OBVIOUS
    <3> QED
      BY <2>6, <3>1
  <2>5. ASSUME sent' = sent \o reqs PROVE only(sent')
    <3>1. ASSUME NEW j \in 1 .. Len(sent')
          PROVE  sent'[j].kind \in {"current_desktop", "active_window"}
      <4>1. Len(sent') = Len(sent) + Len(reqs)
            /\ sent'[j] = IF j <= Len(sent) THEN sent[j] ELSE reqs[j - Len(sent)]
        <5> DEFINE R == UserRequest \cup {a, b}
        <5>1. sent \in Seq(R) /\ reqs \in Seq(R)
          BY <1>1, <2>4
        <5> HIDE DEF R
        <5> QED
          BY <2>5, <5>1
      <4>2. CASE j <= Len(sent)
        <5>1. j \in 1 .. Len(sent)
          BY <1>1, <4>2
        <5> QED
          BY <4>1, <4>2, <5>1 DEF OnlySwitches
      <4>3. CASE ~ (j <= Len(sent))
        <5>1. j - Len(sent) \in 1 .. Len(reqs)
          BY <1>1, <2>4, <4>1, <4>3
        <5> QED
          BY <2>2, <4>1, <4>3, <5>1
      <4> QED
        BY <4>2, <4>3
    <3> QED
      BY <3>1
  <2> QED
    BY <2>2, <2>3, <2>5 DEF OnlySwitches
<1>6. CASE HandleNotification \/ UNCHANGED vars
  <2>1. sent' = sent
    BY <1>6 DEF HandleNotification, vars, display
  <2> QED
    BY <1>2, <2>1
<1> QED
  BY <1>3, <1>4, <1>5, <1>6 DEF Next, loop

\* Steps outside a scan that leave the windows, the copy and the list alone.
LEMMA CopyStays ==
    ASSUME CopyInv, OnlySwitches', pc # "scan", pc' # "scan", Stale => Stale',
           UNCHANGED <<root.present, root.list, clients, windows>>
    PROVE  CopyInv'
BY DEF CopyInv, ListCurrent

\* Whatever happens around the pager, what it has read is still so or will be read
\* again.
LEMMA CopyEnvironment ==
    ASSUME IInv, CopyInv, "alter" \notin Kinds, OnlySwitches', Environment
    PROVE  CopyInv'
<1> SUFFICES ASSUME ListCurrent', ~ Stale'
             PROVE  IF pc' = "scan" THEN \E n \in 0 .. Len(root'.list) : ReadTo(n)'
                    ELSE windows' = Copied(clients', root'.list)
  BY DEF CopyInv
<1>1. /\ UNCHANGED <<pc, scan, windows, needs>> /\ WindowManagerNext
      /\ root.list \in Seq(Windows)
  BY DEF Environment, process, IInv, TypeOK, DisplayTypeOK, RootProperties
<1>2. root' = root /\ ~ Stale
  BY <1>1, RootAnnounced DEF Stale
<1>3. \A w \in ToSet(root.list) : clients'[w] = clients[w] /\ clients[w] # NoClient
  <2> SUFFICES ASSUME NEW w \in ToSet(root.list)
               PROVE  clients'[w] = clients[w] /\ clients[w] # NoClient
    OBVIOUS
  <2>1. clients'[w] \in {clients[w], NoClient}
    BY <1>1, ClientsAnnounced DEF CopyInv, Stale
  <2>2. clients'[w] # NoClient
    BY <1>2 DEF ListCurrent
  <2> QED
    BY <2>1, <2>2
<1>4. ListCurrent
  BY <1>2, <1>3 DEF ListCurrent
<1>5. \A m \in 1 .. Len(root.list) : clients[root.list[m]] = clients'[root.list[m]]
  BY <1>1, <1>3 DEF ToSet
<1>6. \A n \in 0 .. Len(root.list) :
        Copied(clients', SubSeq(root.list, 1, n)) = Copied(clients, SubSeq(root.list, 1, n))
  <2> SUFFICES ASSUME NEW n \in 0 .. Len(root.list)
               PROVE  Copied(clients', SubSeq(root.list, 1, n))
                        = Copied(clients, SubSeq(root.list, 1, n))
    OBVIOUS
  <2>1. \A m \in 1 .. n : clients[root.list[m]] = clients'[root.list[m]]
    BY <1>1, <1>5
  <2> QED
    BY <1>1, <2>1, CopiedSame
<1>7. CASE pc = "scan"
  <2>1. PICK n \in 0 .. Len(root.list) : ReadTo(n)
    BY <1>2, <1>4, <1>7 DEF CopyInv
  <2>2. ReadTo(n)'
    BY <1>1, <1>2, <1>6, <2>1 DEF ReadTo
  <2> QED
    BY <1>1, <1>2, <1>7, <2>2
<1>8. CASE pc # "scan"
  <2>1. windows = Copied(clients, root.list)
    BY <1>2, <1>4, <1>8 DEF CopyInv
  <2>2. root.list = SubSeq(root.list, 1, Len(root.list)) /\ Len(root.list) \in 0 .. Len(root.list)
    BY <1>1
  <2>3. Copied(clients', root.list) = Copied(clients, root.list)
    BY <1>6, <2>2
  <2> QED
    BY <1>1, <1>2, <1>8, <2>1, <2>3
<1> QED
  BY <1>7, <1>8

\* A refresh reads one window after the other.
LEMMA CopyRefresh ==
    ASSUME IInv, CopyInv, OnlySwitches', pager_handle_events
    PROVE  CopyInv'
<1>1. needs \in Flagged /\ root \in RootProperties /\ root.list \in Seq(Windows)
      /\ Len(root.list) \in Nat
  BY DEF IInv, TypeOK, DisplayTypeOK, Flagged, RootProperties
<1>2. CASE \/ Skip("configure", needs.configure, "layout")
           \/ Skip("layout", needs.properties, "update")
           \/ Skip("update", needs.update, "popup")
           \/ Skip("popup", needs.popup, "next")
           \/ ClientListMissing
  <2>1. UNCHANGED <<root, clients, notify, windows, needs>> /\ pc # "scan" /\ pc' # "scan"
    BY <1>2 DEF Skip, ClientListMissing, display
  <2> QED
    BY <2>1, CopyStays DEF Stale
<1>3. CASE pager_configure \/ pager_update \/ pager_update_popup
  <2>1. UNCHANGED <<root, clients, notify, windows>> /\ pc # "scan" /\ pc' # "scan"
    BY <1>3 DEF pager_configure, pager_update, pager_update_popup, display
  <2>2. needs'.properties = needs.properties
    BY <1>1, <1>3 DEF pager_configure, pager_update, pager_update_popup, Flagged
  <2> QED
    BY <2>1, <2>2, CopyStays DEF Stale
<1>4. CASE update_desktop_count
  <2>1. /\ UNCHANGED <<clients, windows>> /\ pc # "scan" /\ pc' # "scan"
        /\ x_set_desktop_layout
    BY <1>4 DEF update_desktop_count, KeepGrid, ChangeGrid, NoRoomForGrid, ReadLayout
  <2>2. root'.present = root.present /\ root'.list = root.list /\ notify \subseteq notify'
    BY <1>1, <2>1 DEF x_set_desktop_layout, RootProperties, Announce
  <2>3. needs'.properties = needs.properties
    BY <1>1, <1>4 DEF update_desktop_count, KeepGrid, ChangeGrid, NoRoomForGrid, Flagged
  <2> QED
    BY <2>1, <2>2, <2>3, CopyStays DEF Stale
<1>5. CASE FetchClientList
  <2>1. /\ windows' = <<>> /\ scan'.todo = root.list /\ pc' = "scan"
        /\ UNCHANGED <<root, clients>>
    BY <1>5 DEF FetchClientList, display, x_get_client_list
  <2>2. root.list = SubSeq(root.list, 0 + 1, Len(root.list)) /\ 0 \in 0 .. Len(root.list)
    BY <1>1
  <2>3. Copied(clients, SubSeq(root.list, 1, 0)) = <<>>
    BY <1>1, CopiedNothing
  <2>4. ReadTo(0)'
    BY <2>1, <2>2, <2>3 DEF ReadTo
  <2>5. \E n \in 0 .. Len(root'.list) : ReadTo(n)'
    BY <2>1, <2>2, <2>4
  <2> QED
    BY <2>1, <2>5 DEF CopyInv
<1>6. CASE ScanWindow
  <2>1. /\ UNCHANGED <<root, clients, notify, needs, pc>> /\ pc = "scan"
        /\ scan.todo # <<>> /\ scan'.todo = Tail(scan.todo)
    BY <1>6 DEF ScanWindow, display, IInv, TypeOK
  <2>2. windows' = IF \/ clients[Head(scan.todo)] = NoClient
                      \/ "skip_pager" \in clients[Head(scan.todo)].states
                   THEN windows
                   ELSE Append(windows, [window |-> Head(scan.todo),
                                         client |-> clients[Head(scan.todo)]])
    BY <1>6 DEF ScanWindow, Unreadable
  <2> SUFFICES ASSUME ListCurrent, ~ Stale PROVE \E n \in 0 .. Len(root'.list) : ReadTo(n)'
    BY <2>1 DEF CopyInv, ListCurrent, Stale
  <2>3. PICK n \in 0 .. Len(root.list) : ReadTo(n)
    BY <2>1 DEF CopyInv
  <2>4. n < Len(root.list)
    <3> SUFFICES ASSUME n = Len(root.list) PROVE FALSE
      BY <1>1
    <3>1. SubSeq(root.list, n + 1, Len(root.list)) = <<>>
      BY <1>1
    <3> QED
      BY <2>1, <2>3, <3>1 DEF ReadTo
  <2>5. /\ Head(scan.todo) = root.list[n + 1]
        /\ Tail(scan.todo) = SubSeq(root.list, (n + 1) + 1, Len(root.list))
    <3> DEFINE rest == SubSeq(root.list, n + 1, Len(root.list))
               least == SubSeq(root.list, (n + 1) + 1, Len(root.list))
    <3>1. rest \in Seq(Windows) /\ Len(rest) = Len(root.list) - n
          /\ \A j \in 1 .. Len(root.list) - n : rest[j] = root.list[n + j]
      BY <1>1, <2>4
    <3>2. least \in Seq(Windows) /\ Len(least) = Len(root.list) - n - 1
          /\ \A j \in 1 .. Len(root.list) - n - 1 : least[j] = root.list[n + 1 + j]
      BY <1>1, <2>4
    <3> HIDE DEF rest, least
    <3>3. Tail(rest) \in Seq(Windows) /\ Len(Tail(rest)) = Len(root.list) - n - 1
          /\ \A j \in 1 .. Len(root.list) - n - 1 : Tail(rest)[j] = rest[j + 1]
      BY <1>1, <2>4, <3>1
    <3>4. Tail(rest) = least
      <4>1. Len(Tail(rest)) = Len(least)
        BY <3>2, <3>3
      <4>2. ASSUME NEW j \in 1 .. Len(root.list) - n - 1 PROVE Tail(rest)[j] = least[j]
        <5>1. Tail(rest)[j] = rest[j + 1] /\ least[j] = root.list[n + 1 + j]
          BY <3>2, <3>3
        <5>2. j + 1 \in 1 .. Len(root.list) - n
          BY <1>1, <2>4
        <5>3. rest[j + 1] = root.list[n + (j + 1)] /\ n + (j + 1) = n + 1 + j
          BY <3>1, <5>2
        <5> QED
          BY <5>1, <5>3
      <4>3. \A j \in 1 .. Len(Tail(rest)) : Tail(rest)[j] = least[j]
        BY <3>3, <4>2
      <4> QED
        BY <3>2, <3>3, <4>1, <4>3, SeqEqual
    <3>5. Head(rest) = root.list[n + 1]
      BY <1>1, <2>4, <3>1
    <3> QED
      BY <2>3, <3>4, <3>5 DEF ReadTo, rest, least
  <2>6. n + 1 \in 1 .. Len(root.list) /\ (n + 1) - 1 = n
    BY <2>4
  <2>7. windows' = Copied(clients, SubSeq(root.list, 1, n + 1))
    <3> DEFINE w == root.list[n + 1]
    <3>1. Copied(clients, SubSeq(root.list, 1, n + 1)) =
             IF clients[w] = NoClient \/ "skip_pager" \in clients[w].states
             THEN Copied(clients, SubSeq(root.list, 1, (n + 1) - 1))
             ELSE Append(Copied(clients, SubSeq(root.list, 1, (n + 1) - 1)),
                         [window |-> w, client |-> clients[w]])
      BY <1>1, <2>6, CopiedStep
    <3>2. windows = Copied(clients, SubSeq(root.list, 1, n))
      BY <2>3 DEF ReadTo
    <3>3. Head(scan.todo) = w
      BY <2>5
    <3> HIDE DEF w
    <3> QED
      BY <2>2, <2>6, <3>1, <3>2, <3>3
  <2>8. ReadTo(n + 1)'
    BY <2>1, <2>5, <2>7 DEF ReadTo
  <2> QED
    BY <2>1, <2>6, <2>8
<1>7. CASE FinishScan
  <2>1. /\ UNCHANGED <<root, clients, notify, needs, windows>> /\ pc = "scan"
        /\ scan.todo = <<>> /\ pc' = "update"
    BY <1>7 DEF FinishScan, display
  <2> SUFFICES ASSUME ListCurrent, ~ Stale PROVE windows = Copied(clients, root.list)
    BY <2>1 DEF CopyInv, ListCurrent, Stale
  <2>2. PICK n \in 0 .. Len(root.list) : ReadTo(n)
    BY <2>1 DEF CopyInv
  <2>3. n = Len(root.list)
    <3> SUFFICES ASSUME n < Len(root.list) PROVE FALSE
      BY <1>1
    <3>1. Len(SubSeq(root.list, n + 1, Len(root.list))) = Len(root.list) - n
      BY <1>1
    <3>2. Len(<<>>) = 0
      OBVIOUS
    <3> QED
      BY <1>1, <2>1, <2>2, <3>1, <3>2 DEF ReadTo
  <2>4. SubSeq(root.list, 1, Len(root.list)) = root.list
    BY <1>1
  <2> QED
    BY <2>2, <2>3, <2>4 DEF ReadTo
<1> QED
  BY <1>2, <1>3, <1>4, <1>5, <1>6, <1>7 DEF pager_handle_events

\* Handlers only add reasons to read the windows again.
LEMMA CopyEvent ==
    ASSUME IInv, CopyInv, OnlySwitches', handle_event, ~ Drag
    PROVE  CopyInv'
<1>1. needs \in Flagged /\ notify \subseteq Notification
  BY DEF IInv, TypeOK, DisplayTypeOK, Flagged
<1>2. CASE HandleNotification
  <2>1. PICK kind \in notify : notify' = notify \ {kind} /\ needs' = Flags(kind)
    BY <1>2 DEF HandleNotification
  <2>2. Stale => Stale'
    <3>1. CASE kind \in {"property", "configure"}
      BY <1>1, <2>1, <3>1 DEF Flags, Flagged, Stale
    <3>2. CASE kind \in {"expose", "expose_popup"}
      <4>1. needs'.properties = needs.properties
        BY <1>1, <2>1, <3>2 DEF Flags, Flagged
      <4> QED
        BY <2>1, <3>2, <4>1 DEF Stale
    <3> QED
      BY <1>1, <3>1, <3>2 DEF Notification
  <2>3. UNCHANGED <<root, clients, windows>> /\ pc # "scan" /\ pc' # "scan"
    BY <1>2 DEF HandleNotification, AfterEvent
  <2> QED
    BY <2>2, <2>3, CopyStays
<1>3. CASE ~ HandleNotification
  <2>1. /\ \E reqs : TakeInput(reqs)
        /\ AfterEvent \/ pc' = "dead"
        /\ needs' = needs \/ needs' = [needs EXCEPT !.popup = FALSE]
        /\ notify \subseteq notify'
    BY <1>3, InputSteps
  <2>2. Stale => Stale'
    BY <1>1, <2>1 DEF Stale, Flagged
  <2>3. windows' = windows
    BY <1>3 DEF handle_event, pager_button_press, pager_button_release, Hover,
       MotionWithoutEffect, pager_leave, DivideByZero
  <2>4. UNCHANGED <<root, clients>> /\ pc # "scan" /\ pc' # "scan"
    BY <2>1 DEF TakeInput, AfterEvent
  <2> QED
    BY <2>2, <2>3, <2>4, CopyStays
<1> QED
  BY <1>2, <1>3

LEMMA CopyInductive ==
    ASSUME IInv, CopyInv, "alter" \notin Kinds, [Next]_vars, ~ Drag
    PROVE  CopyInv'
<1>1. OnlySwitches'
  BY SwitchSteps DEF CopyInv
<1>2. CASE Environment
  BY <1>1, <1>2, CopyEnvironment
<1>3. CASE loop
  BY <1>1, <1>3, CopyRefresh, CopyEvent DEF loop
<1>4. CASE UNCHANGED vars
  BY <1>4 DEF vars, display, process, CopyInv, OnlySwitches, ListCurrent, Stale, ReadTo
<1> QED
  BY <1>2, <1>3, <1>4 DEF Next

\* What is not in the picture yet will be painted.
LEMMA PictureRefresh ==
    ASSUME IInv, HighlightInv, PictureInv, pager_handle_events
    PROVE  PictureInv'
<1>1. needs \in Flagged /\ geo \in PagerGeometry /\ root \in RootProperties
  BY DEF IInv, TypeOK, DisplayTypeOK, Flagged
<1>2. CASE \/ Skip("configure", needs.configure, "layout")
           \/ Skip("layout", needs.properties, "update")
           \/ Skip("update", needs.update, "popup")
           \/ Skip("popup", needs.popup, "next")
           \/ ClientListMissing
  BY <1>2 DEF Skip, ClientListMissing, display, PictureInv, x_get_showing_desktop
<1>3. CASE pager_configure
  <2>1. needs'.update
    BY <1>1, <1>3 DEF pager_configure, Flagged
  <2> QED
    BY <2>1 DEF PictureInv
<1>4. CASE update_desktop_count
  <2>1. needs.properties /\ needs'.properties = needs.properties
    BY <1>1, <1>4 DEF update_desktop_count, KeepGrid, ChangeGrid, NoRoomForGrid, ReadLayout,
       Flagged
  <2> QED
    BY <2>1 DEF PictureInv
<1>5. CASE FetchClientList
  <2>1. needs'.update
    BY <1>1, <1>5 DEF FetchClientList, Flagged
  <2> QED
    BY <2>1 DEF PictureInv
<1>6. CASE ScanWindow \/ FinishScan
  <2>1. needs'.update
    BY <1>6 DEF ScanWindow, FinishScan, HighlightInv
  <2> QED
    BY <2>1 DEF PictureInv
<1>7. CASE pager_update
  <2>1. picture' = Painted /\ UNCHANGED <<root, windows, active, geo>>
    BY <1>7 DEF pager_update, display
  <2>2. geo.attached => picture' = Image(geo, active, windows, x_get_showing_desktop)
    BY <2>1 DEF Painted
  <2>3. Image(geo, active, windows, x_get_showing_desktop)'
          = Image(geo, active, windows, x_get_showing_desktop)
    BY <2>1 DEF Image, x_get_showing_desktop
  <2> QED
    BY <2>1, <2>2, <2>3 DEF PictureInv
<1>8. CASE pager_update_popup
  <2>1. needs'.update = needs.update /\ needs'.properties = needs.properties
        /\ UNCHANGED <<root, notify, windows, active, geo, picture>>
    BY <1>1, <1>8 DEF pager_update_popup, display, Flagged
  <2> QED
    BY <2>1 DEF PictureInv, x_get_showing_desktop
<1> QED
  BY <1>2, <1>3, <1>4, <1>5, <1>6, <1>7, <1>8 DEF pager_handle_events

LEMMA PictureEvent ==
    ASSUME IInv, PictureInv, handle_event, ~ Drag
    PROVE  PictureInv'
<1>1. needs \in Flagged /\ notify \subseteq Notification
  BY DEF IInv, TypeOK, DisplayTypeOK, Flagged
<1>2. UNCHANGED <<root, windows, active, geo, picture>>
  <2>1. CASE HandleNotification
    BY <2>1 DEF HandleNotification
  <2>2. CASE ~ HandleNotification
    <3>1. UNCHANGED <<root, active, geo, picture>>
      BY <2>2, InputSteps DEF TakeInput
    <3>2. windows' = windows
      BY <2>2 DEF handle_event, pager_button_press, pager_button_release, Hover,
         MotionWithoutEffect, pager_leave, DivideByZero
    <3> QED
      BY <3>1, <3>2
  <2> QED
    BY <2>1, <2>2
<1>3. /\ needs.update => needs'.update
      /\ needs.properties => needs'.properties
      /\ "property" \in notify => "property" \in notify' \/ needs'.properties
  BY <1>1, HandlersKeepFlags
<1> QED
  BY <1>2, <1>3 DEF PictureInv, x_get_showing_desktop

LEMMA PictureInductive ==
    ASSUME IInv, HighlightInv, PictureInv, [Next]_vars, ~ Drag
    PROVE  PictureInv'
<1>1. CASE loop
  BY <1>1, PictureRefresh, PictureEvent DEF loop
<1>2. CASE Environment
  <2>1. UNCHANGED <<windows, active, geo, needs, picture>>
    BY <1>2 DEF Environment, process
  <2>2. notify \subseteq notify' /\ (root' = root \/ "property" \in notify')
    BY <1>2, RootAnnounced DEF Environment
  <2> QED
    BY <2>1, <2>2 DEF PictureInv, x_get_showing_desktop
<1>3. CASE UNCHANGED vars
  BY <1>3 DEF vars, display, process, PictureInv, x_get_showing_desktop
<1> QED
  BY <1>1, <1>2, <1>3 DEF Next

LEMMA CopyInit == Init => CopyInv /\ PictureInv
<1> SUFFICES ASSUME Init PROVE CopyInv /\ PictureInv
  OBVIOUS
<1>1. sent = <<>> /\ needs.properties /\ notify = {"expose"}
  BY DEF Init
<1> QED
  BY <1>1 DEF CopyInv, OnlySwitches, Stale, PictureInv

\* Nothing is dragged, so that every step keeps the copy and the picture.
LEMMA PictureSteps ==
    ASSUME IInv, HighlightInv, CopyInv, PictureInv, [Next]_vars, ~ mouse'.dragging,
           "alter" \notin Kinds
    PROVE  (CopyInv /\ PictureInv)'
<1>1. ~ Drag
  <2>1. mouse \in [idx : Nat, window_x : Int, window_y : Int, button : Nat,
                   click : Int \X Int, dragging : BOOLEAN]
    BY DEF IInv, TypeOK
  <2> QED
    BY <2>1 DEF Drag
<1> QED
  BY <1>1, CopyInductive, PictureInductive

\* What is owed is nothing when the pager blocks.
LEMMA PictureFollows ==
    ASSUME IInv, HighlightInv, CopyInv, PictureInv
    PROVE  PictureTrue
<1> SUFFICES ASSUME Idle, ListCurrent, geo.attached PROVE picture = TrueImage
  BY DEF PictureTrue
<1>1. root.present /\ active \in [desk : Int, win : Windows \cup {NoWindow}]
  BY DEF ListCurrent, IInv, TypeOK
<1>2. /\ ~ needs.update /\ ~ needs.properties /\ notify = {} /\ pc # "scan"
      /\ active.desk = root.desk /\ active.win = root.active
  BY <1>1 DEF Idle, HighlightInv, Waiting, Agrees
<1>3. windows = Copied(clients, root.list)
  BY <1>2 DEF CopyInv, Stale
<1>4. windows = Reading(root.list)
  BY <1>3 DEF Copied, Reading
<1>5. picture = Image(geo, active, windows, root.showing)
  BY <1>1, <1>2 DEF PictureInv, Image, x_get_showing_desktop
<1> QED
  BY <1>2, <1>4, <1>5 DEF TrueImage, Image

\* Whenever the pager blocks, its picture shows the windows, their places and
\* their order, the highlights and the grid as they are, whatever was moved, opened,
\* closed, restacked or withdrawn while it was reading; in any behaviour in which
\* nothing is dragged and no property of a client changes that the pager is not told
\* of (pager.c:348-413, 586-661, main.c:86-113).
THEOREM PicturesTrue ==
    "alter" \notin Kinds => (Spec /\ []~ mouse.dragging => []PictureTrue)
<1> SUFFICES ASSUME "alter" \notin Kinds
             PROVE  Spec /\ []~ mouse.dragging => []PictureTrue
  OBVIOUS
<1>1. IInv /\ HighlightInv /\ CopyInv /\ PictureInv /\ [Next]_vars /\ (~ mouse.dragging)'
        => (CopyInv /\ PictureInv)'
  BY PictureSteps
<1>2. IInv /\ HighlightInv /\ CopyInv /\ PictureInv => PictureTrue
  BY PictureFollows
<1> QED
  BY <1>1, <1>2, CopyInit, HighlightInit, HighlightInductive, InductiveInvariant, PTL DEF Spec

=============================================================================
