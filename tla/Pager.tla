------------------------------- MODULE Pager -------------------------------
(***************************************************************************)
(* The pager process: pager_handle_events, which brings the pager's copy   *)
(* of the desktop up to date and paints it, and the event handlers that    *)
(* the main loop calls, interleaved with the window manager, the X server  *)
(* and the user (WindowManager).                                           *)
(*                                                                         *)
(* pc names the step the process is about to take.  Every read of the      *)
(* server is a step of its own, because the display may change between     *)
(* two of them: pager_configure, the layout, the client list, each client  *)
(* window, and the painting.  "next" is XNextEvent; "dead" a process that  *)
(* a division by zero or a fatal X error ended.                            *)
(*                                                                         *)
(* Indices of windows are the code's plus one, with 0 for its -1; mouse    *)
(* buttons are numbered from 1, with 0 for its -1.                         *)
(***************************************************************************)
EXTENDS Geometry, WindowManager

CONSTANTS
    show_popups,    \* option: show the title of the window under the pointer
    Points,         \* pixels, relative to the pager, the pointer may be at
    Buttons         \* mouse buttons

ASSUME PagerAssumption ==
    /\ show_popups \in BOOLEAN
    /\ Points \subseteq Int \X Int
    /\ Buttons \subseteq Nat \ {0}

VARIABLES
    pc,         \* next step of the process
    scan,       \* while reading the clients: windows left, remembered windows
    windows,    \* the pager's copy of the clients, bottom to top
    active,     \* active_desk and active_win
    geo,        \* cols, rows, x, y, w, h, desk_w, desk_h; attached: the pixmap
                \*   is the background of the window
    mouse,      \* the mouse gesture: struct mouse
    popup,      \* popup_idx, popup_visible, and whose title the popup shows
    needs,      \* the needs_* flags
    picture     \* what the window shows

process == <<pc, scan, windows, active, geo, mouse, popup, needs, picture>>
vars == <<display, process>>

NoScan == [todo |-> <<>>, move |-> NoWindow, popup |-> NoWindow]

-----------------------------------------------------------------------------
(* x.c: what the pager reads from the root window, and the messages it sends. *)

x_get_client_list == root.list
x_get_showing_desktop == root.present /\ root.showing

\* x_get_current_desktop and x_get_active_window leave the values alone when
\* the properties are gone.
ActiveNow == IF root.present THEN [desk |-> root.desk, win |-> root.active] ELSE active

\* The states or the geometry of the window cannot be read: it is closed, or
\* the window manager has not set its properties yet.
Unreadable(w) == clients[w] = NoClient

x_set_current_desktop(desk)   == [kind |-> "current_desktop", desk |-> desk]
x_set_active_window(w)        == [kind |-> "active_window", window |-> w]
x_window_set_desktop(w, desk) == [kind |-> "desktop", window |-> w, desk |-> desk]
x_window_set_shaded(w)        == [kind |-> "unshade", window |-> w]
x_window_set_geometry(w, x, y) == [kind |-> "geometry", window |-> w, x |-> x, y |-> y]

\* The same for the pager's own window.
set_own_size(w, h)     == [kind |-> "size", w |-> w, h |-> h]
set_own_position(x, y) == [kind |-> "position", x |-> x, y |-> y]

-----------------------------------------------------------------------------
(* Start *)

\* What pager_update paints.
Image(g, act, wins, showing) ==
    [cols |-> g.cols, rows |-> g.rows, desk_w |-> g.desk_w, desk_h |-> g.desk_h,
     desk |-> act.desk, win |-> act.win,
     drawn |-> IF showing THEN <<>> ELSE Drawn(wins)]

\* Mutant: the new pixmap is not made the window's background.
Configured_NotAttached(g, size) ==
    LET pos  == calc_x_y(size.w, size.h)
        desk == desk_size(g.cols, g.rows, size.w, size.h)
    IN  [g EXCEPT !.w = size.w, !.h = size.h, !.x = pos.x, !.y = pos.y,
                  !.desk_w = desk.w, !.desk_h = desk.h]

\* pager_configure: take the size the server has, insist on the position.
Configured(g, size) ==
    LET pos  == calc_x_y(size.w, size.h)
        desk == desk_size(g.cols, g.rows, size.w, size.h)
    IN  [g EXCEPT !.w = size.w, !.h = size.h, !.x = pos.x, !.y = pos.y,
                  !.desk_w = desk.w, !.desk_h = desk.h, !.attached = TRUE]

\* pager_new creates the window with the size for the layout, and pager_show
\* configures it before it is mapped.
FirstGeometry(layout) ==
    LET size == calc_w_h(layout.c, layout.r)
    IN  Configured([cols |-> layout.c, rows |-> layout.r, w |-> size.w, h |-> size.h,
                    x |-> 0, y |-> 0, desk_w |-> 0, desk_h |-> 0, attached |-> FALSE], size)

\* The state pager_new and pager_show leave behind, under a window manager
\* whose properties agree.
Init ==
    /\ \E l \in Layouts, wins \in SUBSET Windows :
        /\ l.nr > 0 /\ ~ properties_set_by_idiot(l.nr, l.layout)
        /\ \E list \in SetToSeqs(wins) :
              root = [present |-> TRUE, nr |-> l.nr, layout |-> l.layout, desk |-> 0,
                      active |-> NoWindow, showing |-> FALSE, list |-> list]
        /\ clients \in {f \in [Windows -> Clients \cup {NoClient}] :
                          \A w \in Windows : f[w] # NoClient <=> w \in wins}
        /\ geo = FirstGeometry(l.layout)
        /\ geo.h > 0
    /\ own = [x |-> geo.x, y |-> geo.y, w |-> geo.w, h |-> geo.h,
              strut |-> update_strut(geo, NoStrut)]
    /\ requests = <<>> /\ sent = <<>> /\ inputs = 0 /\ held = {}
    /\ notify = {"expose"}
    /\ changes = MaxChanges
    /\ pc = "configure" /\ scan = NoScan /\ windows = <<>>
    /\ active = [desk |-> 0, win |-> NoWindow]
    /\ mouse = [idx |-> 0, window_x |-> 0, window_y |-> 0, button |-> 0,
                click |-> <<-1, -1>>, dragging |-> FALSE]
    /\ popup = [idx |-> 0, visible |-> FALSE, shown |-> NoWindow]
    /\ needs = [configure |-> FALSE, update |-> FALSE, properties |-> TRUE, popup |-> FALSE]
    /\ picture = Image(geo, active, windows, root.showing)

-----------------------------------------------------------------------------
(* pager_handle_events *)

\* Leave the step `from' for `to', having nothing to do there.
Skip(from, flag, to) ==
    /\ pc = from /\ ~ flag
    /\ pc' = to
    /\ UNCHANGED <<display, scan, windows, active, geo, mouse, popup, needs, picture>>

pager_configure ==
    /\ pc = "configure" /\ needs.configure
    /\ Len(requests) < MaxRequests
    /\ geo' = Configured(geo, own)
    /\ requests' = IF <<own.x, own.y>> = <<geo'.x, geo'.y>> THEN requests
                   ELSE Append(requests, set_own_position(geo'.x, geo'.y))
    /\ own' = [own EXCEPT !.strut = update_strut(geo', @)]
    /\ needs' = [needs EXCEPT !.configure = FALSE, !.update = TRUE]
    /\ pc' = "layout"
    /\ UNCHANGED <<root, clients, sent, notify, inputs, held, changes>>
    /\ UNCHANGED <<scan, windows, active, mouse, popup, picture>>

\* x_get_desktop_layout: the grid the root properties describe, or the one the
\* pager has when they cannot be read.
GridNow == [c |-> geo.cols, r |-> geo.rows]
HasLayout == root.present /\ root.nr # 0
GridRead == IF HasLayout THEN Grid(root.nr, root.layout) ELSE GridNow

\* ... and properties that disagree are overwritten, and another number of
\* desktops is requested.
Overrules == HasLayout /\ properties_set_by_idiot(root.nr, root.layout)

x_set_desktop_layout ==
    IF Overrules THEN root' = [root EXCEPT !.layout = GridRead] /\ Announce("property")
                 ELSE UNCHANGED <<root, notify>>

\* Mutant: the window manager is not asked.
DesktopsRequest_Never == <<>>

DesktopsRequest ==
    IF Overrules THEN <<[kind |-> "desktops", nr |-> GridRead.c * GridRead.r]>> ELSE <<>>

\* A new grid gives the pager a new size, which it requests; the size of a cell
\* is left to pager_configure.
Relaid ==
    LET size == calc_w_h(GridRead.c, GridRead.r)
    IN  [geo EXCEPT !.cols = GridRead.c, !.rows = GridRead.r,
                    !.w = size.w, !.h = size.h, !.attached = FALSE]

ReadLayout ==
    /\ pc = "layout" /\ needs.properties
    /\ Len(requests) + 1 < MaxRequests
    /\ x_set_desktop_layout
    /\ UNCHANGED <<clients, own, sent, inputs, held, changes>>
    /\ UNCHANGED <<scan, windows, active, mouse, popup, picture>>

KeepGrid ==
    /\ ReadLayout /\ GridRead = GridNow
    /\ requests' = requests \o DesktopsRequest
    /\ pc' = "list"
    /\ UNCHANGED <<geo, needs>>

\* Mutant: pager_configure is not asked to compute the cell size.
ChangeGrid_NotOwed ==
    /\ ReadLayout /\ GridRead # GridNow
    /\ Relaid.h > 0
    /\ geo' = Relaid
    /\ requests' = requests \o DesktopsRequest \o <<set_own_size(Relaid.w, Relaid.h)>>
    /\ pc' = "list"
    /\ UNCHANGED needs

ChangeGrid ==
    /\ ReadLayout /\ GridRead # GridNow
    /\ Relaid.h > 0
    /\ geo' = Relaid
    /\ requests' = requests \o DesktopsRequest \o <<set_own_size(Relaid.w, Relaid.h)>>
    /\ needs' = [needs EXCEPT !.configure = TRUE]
    /\ pc' = "list"

\* Resizing a window to height zero is a fatal X error.
NoRoomForGrid ==
    /\ ReadLayout /\ GridRead # GridNow
    /\ Relaid.h = 0
    /\ geo' = Relaid
    /\ requests' = requests \o DesktopsRequest
    /\ pc' = "dead"
    /\ UNCHANGED needs

update_desktop_count == KeepGrid \/ ChangeGrid \/ NoRoomForGrid

\* Without a client list the old copy stays, and so does the flag.
ClientListMissing ==
    /\ pc = "list" /\ ~ root.present
    /\ pc' = "update"
    /\ UNCHANGED <<display, scan, windows, active, geo, mouse, popup, needs, picture>>

WindowAt(idx) == IF idx = 0 THEN NoWindow ELSE windows[idx].window

\* Mutants: the popup's window is not remembered; no repaint is scheduled.
FetchClientList_ForgetsPopup ==
    /\ pc = "list" /\ root.present
    /\ scan' = [todo |-> x_get_client_list, move |-> WindowAt(mouse.idx), popup |-> NoWindow]
    /\ windows' = <<>>
    /\ needs' = [needs EXCEPT !.properties = FALSE, !.update = TRUE]
    /\ pc' = "scan"
    /\ UNCHANGED <<display, active, geo, mouse, popup, picture>>

FetchClientList_NoRepaint ==
    /\ pc = "list" /\ root.present
    /\ scan' = [todo |-> x_get_client_list, move |-> WindowAt(mouse.idx),
                popup |-> WindowAt(popup.idx)]
    /\ windows' = <<>>
    /\ needs' = [needs EXCEPT !.properties = FALSE]
    /\ pc' = "scan"
    /\ UNCHANGED <<display, active, geo, mouse, popup, picture>>

FetchClientList ==
    /\ pc = "list" /\ root.present
    /\ scan' = [todo |-> x_get_client_list, move |-> WindowAt(mouse.idx),
                popup |-> WindowAt(popup.idx)]
    /\ windows' = <<>>
    /\ needs' = [needs EXCEPT !.properties = FALSE, !.update = TRUE]
    /\ pc' = "scan"
    /\ UNCHANGED <<display, active, geo, mouse, popup, picture>>

\* Mutant: a window whose properties cannot be read is kept.
ScanWindow_KeepsUnreadable ==
    /\ pc = "scan" /\ scan.todo # <<>>
    /\ scan' = [scan EXCEPT !.todo = Tail(@)]
    /\ LET w == Head(scan.todo)
       IN  windows' = IF ~ Unreadable(w) /\ "skip_pager" \in clients[w].states
                      THEN windows
                      ELSE Append(windows, [window |-> w, client |-> clients[w]])
    /\ UNCHANGED <<display, pc, active, geo, mouse, popup, needs, picture>>

\* Windows whose properties cannot be read and those that ask not to be in
\* pagers are left out.
ScanWindow ==
    /\ pc = "scan" /\ scan.todo # <<>>
    /\ scan' = [scan EXCEPT !.todo = Tail(@)]
    /\ LET w == Head(scan.todo)
       IN  windows' = IF Unreadable(w) \/ "skip_pager" \in clients[w].states
                      THEN windows
                      ELSE Append(windows, [window |-> w, client |-> clients[w]])
    /\ UNCHANGED <<display, pc, active, geo, mouse, popup, needs, picture>>

get_window_index(window) == SelectInSeq(windows, LAMBDA win : win.window = window)

\* Mutants: the index stays, whatever the new copy is; or if it still can.
Remapped_NotAtAll(idx, window) == idx
Remapped_OnlyIfTooLarge(idx, window) == IF idx <= Len(windows) THEN idx ELSE 0

\* The index a remembered window has now.
Remapped(idx, window) == IF window = NoWindow THEN idx ELSE get_window_index(window)

FinishScan ==
    /\ pc = "scan" /\ scan.todo = <<>>
    /\ mouse' = [mouse EXCEPT !.idx = Remapped(@, scan.move)]
    /\ popup' = [popup EXCEPT !.idx = Remapped(@, scan.popup)]
    /\ active' = ActiveNow
    /\ scan' = NoScan
    /\ pc' = "update"
    /\ UNCHANGED <<display, windows, geo, needs, picture>>

\* Mutant: the windows are painted although the desktop is shown.
Painted_WindowsAnyway ==
    IF geo.attached THEN Image(geo, active, windows, FALSE) ELSE picture

\* What is painted reaches the window only if the pixmap is its background.
Painted ==
    IF geo.attached THEN Image(geo, active, windows, x_get_showing_desktop) ELSE picture

pager_update ==
    /\ pc = "update" /\ needs.update
    /\ picture' = Painted
    /\ needs' = [needs EXCEPT !.update = FALSE]
    /\ pc' = "popup"
    /\ UNCHANGED <<display, scan, windows, active, geo, mouse, popup>>

pager_update_popup ==
    /\ pc = "popup" /\ needs.popup
    /\ popup' = IF popup.visible /\ popup.idx # 0
                THEN [popup EXCEPT !.shown = windows[popup.idx].window] ELSE popup
    /\ needs' = [needs EXCEPT !.popup = FALSE]
    /\ pc' = "next"
    /\ UNCHANGED <<display, scan, windows, active, geo, mouse, picture>>

pager_handle_events ==
    \/ Skip("configure", needs.configure, "layout") \/ pager_configure
    \/ Skip("layout", needs.properties, "update") \/ update_desktop_count
    \/ ClientListMissing \/ FetchClientList \/ ScanWindow \/ FinishScan
    \/ Skip("update", needs.update, "popup") \/ pager_update
    \/ Skip("popup", needs.popup, "next") \/ pager_update_popup

-----------------------------------------------------------------------------
(* The event loop: every event in the queue is handled before the pager     *)
(* looks at its flags again.                                                *)

XPending == notify' # {} \/ inputs' > 0

AfterEvent == pc' = IF XPending THEN "next" ELSE "configure"

\* Mutants: the root properties are not read again; a move is not a reason to
\* read the windows again; both kinds of Expose repaint the pager.
Flags_PropertyIgnored(kind) ==
    CASE kind = "expose"       -> [needs EXCEPT !.update = TRUE]
      [] kind = "expose_popup" -> [needs EXCEPT !.popup = TRUE]
      [] kind = "configure"    -> [needs EXCEPT !.configure = TRUE, !.properties = TRUE]
      [] kind = "property"     -> needs
Flags_MoveIgnored(kind) ==
    CASE kind = "expose"       -> [needs EXCEPT !.update = TRUE]
      [] kind = "expose_popup" -> [needs EXCEPT !.popup = TRUE]
      [] kind = "configure"    -> [needs EXCEPT !.configure = TRUE]
      [] kind = "property"     -> [needs EXCEPT !.properties = TRUE]
Flags_OneExpose(kind) ==
    CASE kind \in {"expose", "expose_popup"} -> [needs EXCEPT !.update = TRUE]
      [] kind = "configure" -> [needs EXCEPT !.configure = TRUE, !.properties = TRUE]
      [] kind = "property"  -> [needs EXCEPT !.properties = TRUE]

\* Expose, ConfigureNotify and PropertyNotify handlers: only flags.
Flags(kind) ==
    CASE kind = "expose"       -> [needs EXCEPT !.update = TRUE]
      [] kind = "expose_popup" -> [needs EXCEPT !.popup = TRUE]
      [] kind = "configure"    -> [needs EXCEPT !.configure = TRUE, !.properties = TRUE]
      [] kind = "property"     -> [needs EXCEPT !.properties = TRUE]

HandleNotification ==
    /\ pc = "next"
    /\ \E kind \in notify :
          /\ notify' = notify \ {kind}
          /\ needs' = Flags(kind)
    /\ UNCHANGED <<root, clients, own, requests, sent, inputs, held, changes>>
    /\ UNCHANGED <<scan, windows, active, geo, mouse, popup, picture>>
    /\ AfterEvent

\* A user event is taken from the queue; its handler sends the requests reqs.
\* Off the pager's window the pager hears of the pointer only during a grab,
\* which lasts while a button is held.
TakeInput(reqs) ==
    /\ pc = "next" /\ inputs > 0
    /\ inputs' = inputs - 1
    /\ Sent(reqs)
    /\ UNCHANGED <<root, clients, own, requests, changes>>
    /\ UNCHANGED <<scan, active, geo, picture>>

Reported(p) ==
    held # {} \/ (p[1] \in 0 .. own.w - 1 /\ p[2] \in 0 .. own.h - 1)

\* Mutant: only a popup that shows its title already is put away.
popup_hide_OnlyPainted ==
    IF popup.shown = NoWindow THEN popup
    ELSE [popup EXCEPT !.visible = FALSE, !.shown = NoWindow]

popup_hide == [popup EXCEPT !.visible = FALSE, !.shown = NoWindow]

\* The popup for another window: its title is drawn once it is mapped.
popup_show(idx) == [idx |-> idx, visible |-> show_popups, shown |-> NoWindow]

\* What the pager hears of its own popup, a child of the root window: the
\* Expose of the mapped window, and before it a ConfigureNotify like that of
\* any client, unless the popup had this place, size and rank already.
PopupEvents == {{"expose_popup"}, {"configure", "expose_popup"}}

\* A press starts a gesture, unless one is under way or the button has none.
StartsGesture(b) == b \in {1, 2} /\ mouse.button = 0

Press(b, p) == b \in Buttons \ held /\ p \in Points /\ Reported(p)

pager_button_press ==
    \E b \in Buttons, p \in Points :
        LET at  == coords_to_root(geo, p)
            idx == get_window_idx(windows, geo, at)
        IN  /\ Press(b, p) /\ TakeInput(<<>>)
            /\ StartsGesture(b) => ~ NoCells(geo)
            /\ held' = held \cup {b}
            /\ popup' = popup_hide
            /\ mouse' = IF ~ StartsGesture(b) THEN mouse
                        ELSE IF idx = 0
                        THEN [mouse EXCEPT !.button = b, !.dragging = FALSE,
                                           !.click = p, !.idx = 0]
                        ELSE [idx |-> idx, button |-> b, dragging |-> FALSE, click |-> p,
                              window_x |-> at.rx - windows[idx].client.x,
                              window_y |-> at.ry - windows[idx].client.y]
            /\ UNCHANGED <<windows, notify, needs>>
            /\ AfterEvent

\* Mutant: a window that was dragged is activated like any other.
ReleaseRequests_EvenDragged(b, desk) ==
    CASE b # 1 -> <<>>
      [] b = 1 /\ mouse.idx = 0 -> <<x_set_current_desktop(desk)>>
      [] b = 1 /\ mouse.idx # 0 ->
            <<x_set_current_desktop(desk), x_set_active_window(windows[mouse.idx].window)>>

\* Releasing over the background switches to the desktop there, releasing a
\* window that was not dragged activates it as well.
ReleaseRequests(b, desk) ==
    CASE b # 1 \/ (mouse.idx # 0 /\ mouse.dragging) -> <<>>
      [] b = 1 /\ mouse.idx = 0 -> <<x_set_current_desktop(desk)>>
      [] b = 1 /\ mouse.idx # 0 /\ ~ mouse.dragging ->
            <<x_set_current_desktop(desk), x_set_active_window(windows[mouse.idx].window)>>

\* Mutant: the window stays picked after the release.
Released_KeepsWindow == [mouse EXCEPT !.button = 0, !.dragging = FALSE]

\* The gesture is over.
Released == [mouse EXCEPT !.idx = 0, !.button = 0, !.dragging = FALSE]

pager_button_release ==
    \E b \in held, p \in Points :
        /\ mouse.button = b => ~ NoCells(geo)
        /\ TakeInput(IF mouse.button = b
                     THEN ReleaseRequests(b, coords_to_root(geo, p).desk) ELSE <<>>)
        /\ held' = held \ {b}
        /\ mouse' = IF mouse.button # b THEN mouse ELSE Released
        /\ UNCHANGED <<windows, notify, popup, needs>>
        /\ AfterEvent

\* No gesture: the popup follows the window under the pointer.
Hover ==
    \E p \in Points :
        LET idx == get_window_idx(windows, geo, coords_to_root(geo, p))
        IN  /\ mouse.button = 0 /\ Reported(p) /\ TakeInput(<<>>)
            /\ ~ NoCells(geo)
            /\ IF idx = 0
               THEN /\ popup' = popup_hide
                    /\ UNCHANGED <<notify, needs>>
               ELSE IF popup.visible /\ idx = popup.idx
               THEN UNCHANGED <<popup, notify, needs>>
               ELSE /\ popup' = popup_show(idx)
                    /\ IF show_popups
                       THEN /\ \E kinds \in PopupEvents : notify' = notify \cup kinds
                            /\ needs' = [needs EXCEPT !.popup = FALSE]
                       ELSE UNCHANGED <<notify, needs>>
            /\ UNCHANGED <<windows, held, mouse>>
            /\ AfterEvent

Distance(a, b) == IF a > b THEN a - b ELSE b - a

\* The press still counts as a click.
BelowThreshold(p) ==
    /\ ~ mouse.dragging
    /\ Distance(mouse.click[1], p[1]) < DRAG_THRESHOLD
    /\ Distance(mouse.click[2], p[2]) < DRAG_THRESHOLD

\* Pointer motion that leaves everything alone.
MotionWithoutEffect ==
    /\ \E p \in Points :
          /\ mouse.button # 0 /\ Reported(p)
          /\ mouse.idx = 0 \/ BelowThreshold(p)
    /\ TakeInput(<<>>)
    /\ UNCHANGED <<windows, notify, held, mouse, popup, needs>>
    /\ AfterEvent

\* Button 1 moves the window to the desktop under the pointer, button 2 also
\* to the position there.
Onto(c, at) ==
    LET there == IF c.desk = Sticky THEN c ELSE [c EXCEPT !.desk = at.desk]
    IN  IF mouse.button # 2 THEN there
        ELSE [there EXCEPT !.x = at.rx - mouse.window_x, !.y = at.ry - mouse.window_y]

OnlyIf(condition, request) == IF condition THEN <<request>> ELSE <<>>

\* Mutant: the geometry of a shaded window is left alone.
DragRequests_ShadedStays(win, to) ==
       OnlyIf(to.desk # win.client.desk, x_window_set_desktop(win.window, to.desk))
    \o OnlyIf(mouse.button = 2 /\ "shaded" \in win.client.states,
              x_window_set_shaded(win.window))
    \o OnlyIf(mouse.button = 2 /\ "shaded" \notin win.client.states,
              x_window_set_geometry(win.window, to.x, to.y))

\* A shaded window is unrolled first: its geometry cannot be set.
DragRequests(win, to) ==
       OnlyIf(to.desk # win.client.desk, x_window_set_desktop(win.window, to.desk))
    \o OnlyIf(mouse.button = 2 /\ "shaded" \in win.client.states,
              x_window_set_shaded(win.window))
    \o OnlyIf(mouse.button = 2, x_window_set_geometry(win.window, to.x, to.y))

\* The copy is changed at once, the window manager asked to follow.
Drag ==
    /\ mouse.button # 0 /\ mouse.idx # 0
    /\ ~ NoCells(geo)
    /\ \E p \in Points :
        LET to == Onto(windows[mouse.idx].client, coords_to_root(geo, p))
        IN  /\ Reported(p) /\ ~ BelowThreshold(p)
            /\ TakeInput(DragRequests(windows[mouse.idx], to))
            /\ windows' = [windows EXCEPT ![mouse.idx].client = to]
    /\ mouse' = [mouse EXCEPT !.dragging = TRUE]
    /\ UNCHANGED <<notify, held, popup, needs>>
    /\ AfterEvent

pager_leave ==
    /\ TakeInput(<<>>)
    /\ popup' = popup_hide
    /\ UNCHANGED <<windows, notify, held, mouse, needs>>
    /\ AfterEvent

\* An event that needs the desktop under the pointer while no cell has a
\* pixel: integer division by zero ends the process.
DivideByZero ==
    /\ NoCells(geo)
    /\ TakeInput(<<>>)
    /\ \/ \E b \in Buttons, p \in Points : Press(b, p) /\ StartsGesture(b)
       \/ mouse.button # 0 /\ mouse.button \in held
       \/ mouse.button = 0 /\ \E p \in Points : Reported(p)
       \/ mouse.idx # 0 /\ \E p \in Points : Reported(p) /\ ~ BelowThreshold(p)
    /\ pc' = "dead"
    /\ UNCHANGED <<windows, notify, held, mouse, popup, needs>>

handle_event ==
    \/ HandleNotification \/ pager_button_press \/ pager_button_release
    \/ Hover \/ MotionWithoutEffect \/ Drag \/ pager_leave \/ DivideByZero

-----------------------------------------------------------------------------

loop == pager_handle_events \/ handle_event

Environment == WindowManagerNext /\ UNCHANGED process

Next == loop \/ Environment

Spec == Init /\ [][Next]_vars

\* The pager is a scheduled process, its event queue is a FIFO, so that user
\* events do not overtake a notification forever, and the window manager
\* answers requests in its own good time but not never.
FairSpec ==
    /\ Spec
    /\ WF_vars(loop) /\ WF_vars(HandleNotification)
    /\ WF_vars(Answer /\ UNCHANGED process)

-----------------------------------------------------------------------------
(* Properties *)

\* An entry of windows[]; the fields of struct pager that describe the grid.
ClientWindow == [window : Windows, client : Client]
PagerGeometry == [cols : Nat \ {0}, rows : Nat \ {0}, x : Int, y : Int, w : Nat, h : Nat,
                  desk_w : Nat, desk_h : Nat, attached : BOOLEAN]

\* The variables of the process hold values of the C types, and idx fields are
\* 0 (none) or positive.
TypeOK ==
    /\ DisplayTypeOK /\ held \subseteq Buttons
    /\ pc \in {"configure", "layout", "list", "scan", "update", "popup", "next", "dead"}
    /\ scan \in [todo : Seq(Windows), move : Windows \cup {NoWindow},
                 popup : Windows \cup {NoWindow}]
    /\ windows \in Seq(ClientWindow)
    /\ active \in [desk : Int, win : Windows \cup {NoWindow}]
    /\ geo \in PagerGeometry
    /\ mouse \in [idx : Nat, window_x : Int, window_y : Int, button : Nat, click : Int \X Int,
                  dragging : BOOLEAN]
    /\ popup \in [idx : Nat, visible : BOOLEAN, shown : Windows \cup {NoWindow}]
    /\ needs \in [configure : BOOLEAN, update : BOOLEAN, properties : BOOLEAN,
                  popup : BOOLEAN]

\* windows[] is freed and rebuilt by every refresh, often shorter and in
\* another order (pager.c:348-410).  Outside the rebuilding, neither the index
\* of the dragged window nor that of the popup's window is out of bounds.
IndexInRange ==
    pc # "scan" => mouse.idx <= Len(windows) /\ popup.idx <= Len(windows)

\* A refresh remembers the dragged window and the popup's window exactly if it
\* is to remap their indices afterwards (pager.c:343-346, 407-410).
ScanRemembers ==
    pc = "scan" => /\ mouse.idx = 0 <=> scan.move = NoWindow
                   /\ popup.idx = 0 <=> scan.popup = NoWindow

\* The window of the gesture under way, remembered by id during a refresh.
Target == IF pc = "scan" THEN scan.move ELSE WindowAt(mouse.idx)

\* While the button stays down the gesture keeps the window it was started on,
\* whatever refreshes reorder the windows in between, or loses it for good
\* when that window goes; it never moves on to another (pager.c:343, 407).
DragKeepsWindow ==
    [][mouse.button # 0 /\ mouse'.button = mouse.button
         => Target' \in {Target, NoWindow}]_vars

\* A gesture is only ever under way for a button that is down, so a release
\* ends it: there is no window to drag and no drag without such a button
\* (pager.c:1105-1148).
GestureUnderHeldButton ==
    mouse.idx # 0 \/ mouse.dragging \/ mouse.button # 0 => mouse.button \in held

\* A popup that shows a title shows the title of the window it stands for,
\* across refreshes that move the window to another index (pager.c:409).
PopupTellsTruth ==
    pc # "scan" /\ popup.visible /\ popup.shown # NoWindow /\ popup.idx # 0
        => windows[popup.idx].window = popup.shown

\* Pressing a gesture's button puts the popup away and it stays away until the
\* button is released (pager.c:1105, 1156).
NoPopupDuringGesture == mouse.button # 0 => ~ popup.visible

\* The cell size belongs to the grid and size the pager works with, or the
\* pager knows that it has to be computed again (pager.c:249, 306).
GridFreshOrOwed ==
    \/ needs.configure \/ pc = "dead"
    \/ /\ [w |-> geo.desk_w, h |-> geo.desk_h] = desk_size(geo.cols, geo.rows, geo.w, geo.h)
       /\ geo.attached

\* The process dies only where the grid does not fit its window with a pixel
\* for every cell, or while pager_configure is owed: after a grid just read, or
\* any ConfigureNotify not acted on yet, when the cells are those of another
\* grid or window (pager.c:299-306, 526-527).
DeadOnlyWithoutRoom ==
    pc = "dead" => \/ geo.w < 2 * geo.cols - 1 \/ geo.h < 2 * geo.rows - 1
                   \/ needs.configure

\* The screen edges along the pager's longer side that its place touches.
EdgesTouched(g) ==
    {side \in {"top", "bottom", "left", "right"} :
        CASE side = "top"    -> g.w > g.h /\ g.y = 0
          [] side = "bottom" -> g.w > g.h /\ g.y + g.h = root_h
          [] side = "left"   -> g.w <= g.h /\ g.x = 0
          [] side = "right"  -> g.w <= g.h /\ g.x + g.w = root_w}

\* The strut reserves the pager's own place at one of these edges.
Reserves(strut, g) ==
    /\ strut.side \in EdgesTouched(g)
    /\ strut.size = IF strut.side \in {"top", "bottom"} THEN g.h ELSE g.w
    /\ <<strut.start, strut.end>> = IF strut.side \in {"top", "bottom"}
                                    THEN <<g.x, g.x + g.w>> ELSE <<g.y, g.y + g.h>>

\* However often the pager is resized and laid out again, other windows are
\* kept off the place it takes at an edge of the screen, not off one it had
\* before; off the screen and away from the edges nothing is promised, nor
\* while pager_configure is owed (pager.c:203-230, 260).
StrutCoversPager ==
    \/ needs.configure \/ pc = "dead" \/ allow_cover
    \/ geo.x >= root_w \/ geo.y >= root_h \/ EdgesTouched(geo) = {}
    \/ Reserves(own.strut, geo)

Alive == pc # "dead"

\* Nothing is left to do: the process blocks in XNextEvent.
Idle == pc = "next" /\ notify = {} /\ inputs = 0

\* pager.c:95: the geometry is calculated when the window size or the desktop
\* layout changes.  So when the pager blocks, cells have the size the grid
\* gives them.
GridCurrentWhenIdle ==
    Idle => [w |-> geo.desk_w, h |-> geo.desk_h] = desk_size(geo.cols, geo.rows, geo.w, geo.h)

\* x.h:228: a window is sent to a desktop 0-N or to all desktops (-1).
DesktopInRange ==
    \A i \in DOMAIN sent : sent[i].kind = "desktop"
        => sent[i].desk \in -1 .. geo.cols * geo.rows - 1

\* No popup stays blank: whenever the pager blocks, a popup that is up, and whose
\* window is still there, has been given that window's title, although drawing
\* it waits for an Expose that refreshes, damage and more pointer events overtake
\* (pager.c:656-664, 734-739, 979-985).
PopupTitled ==
    Idle /\ popup.visible /\ popup.idx # 0 => popup.shown = windows[popup.idx].window

\* config-example:4 and x.c:398: without configured cols and rows the number
\* of desktops is set by the window manager, not by the pager.
DesktopsLeftToWM == \A i \in DOMAIN requests : requests[i].kind # "desktops"

\* Once the window manager has carried out what the user's gestures asked for
\* and the pager has nothing to do, its copy has every window where the window
\* manager has it (the copy is changed ahead of it at pager.c:1210).
CopyAgreesOnPlace ==
    Idle /\ sent = <<>> =>
        \A i \in DOMAIN windows :
            LET c == clients[windows[i].window]
            IN  c # NoClient => /\ windows[i].client.x = c.x
                                /\ windows[i].client.y = c.y

\* Whenever the pager blocks, it shows the current desktop and the active window
\* as the window manager has announced them, also when they changed while a
\* refresh was under way (they are read last, pager.c:412-413).
HighlightTrue ==
    Idle /\ root.present /\ geo.attached
        => picture.desk = root.desk /\ picture.win = root.active

\* What a refresh would copy of a client list if it read everything at once.
Reading(list) ==
    LET shown == Kept(list, {w \in Windows :
                     clients[w] # NoClient /\ "skip_pager" \notin clients[w].states})
    IN  [i \in DOMAIN shown |-> [window |-> shown[i], client |-> clients[shown[i]]]]

\* ... and what the pager would show then.
TrueImage ==
    Image(geo, [desk |-> root.desk, win |-> root.active], Reading(root.list), root.showing)

\* The window manager is there and lists only windows that exist.
ListCurrent == root.present /\ \A w \in ToSet(root.list) : clients[w] # NoClient

\* Whenever the pager blocks it shows the desktop as it is, although the windows
\* were read one by one while they were moved, opened and restacked; unless the
\* client list has a window that is closed already (of which nobody told the
\* pager), or a gesture moved one ahead of the window manager (pager.c:348-410).
PictureTrue == Idle /\ ListCurrent /\ geo.attached => picture = TrueImage

\* A click means the window it is on: at every pixel of a cell the pointer picks
\* the window that pager_update paints there last, also one that is rolled up or
\* too small to be painted to scale.  The two are computed apart, one in the
\* coordinates of the screen and one in those of the pager (pager.c:474-521,
\* 543-576), and agree where cells have the shape of the screen, windows lie on
\* their pixels, none is a menu, and windows are painted at all.
PicksWhatIsSeen ==
    LET painted == Drawn(windows)
    IN  pc = "next" /\ ~ needs.configure /\ ~ root.showing =>
        \A desk \in 0 .. geo.cols * geo.rows - 1,
           x \in 0 .. geo.desk_w - 1, y \in 0 .. geo.desk_h - 1 :
            LET p   == PixelOfCell(geo, desk, <<x, y>>)
                top == SelectLastInSeq(painted, LAMBDA win : draw_window(geo, win.client, p))
                idx == get_window_idx(windows, geo, coords_to_root(geo, p))
            IN  \/ top = 0 /\ idx = 0
                \/ top # 0 /\ idx # 0 /\ windows[idx] = painted[top]

-----------------------------------------------------------------------------
(* Eventual properties, under FairSpec *)

\* However changes interleave with the steps of a refresh, once they end and
\* the client list is current again, the pager shows the desktop as it is.
Settles == <>[]ListCurrent => <>[](picture = TrueImage)

\* The window manager can have as many desktops as the layout makes the pager
\* ask for.
WithinLimit == \A r \in ToSet(DesktopsRequest) : Allowed(r.nr) = r.nr

\* After the last layout change the properties agree, the pager shows the grid
\* they describe, and its cells fill the size its window has on the server; if
\* the window manager can grant that many desktops.
LayoutSettles ==
    <>[]WithinLimit =>
        <>[](/\ ~ properties_set_by_idiot(root.nr, root.layout)
             /\ [c |-> picture.cols, r |-> picture.rows] = root.layout
             /\ [w |-> picture.desk_w, h |-> picture.desk_h]
                  = desk_size(root.layout.c, root.layout.r, own.w, own.h))

\* The exchange between the pager, which answers every layout announced by
\* writing and requesting its own, and the window manager comes to an end in
\* exactly these cases: beyond the limit the pager hears of the layout it has
\* just written itself, writes it again, and is never idle for good (x.c:438).
ExchangeEnds ==
    /\ <>[]WithinLimit => <>[]Idle
    /\ <>[]Idle => <>[]WithinLimit

=============================================================================
