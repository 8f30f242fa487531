------------------------------ MODULE Startup ------------------------------
(***************************************************************************)
(* The pager from the start of pager_new on: it waits for a window         *)
(* manager, chooses the grid, creates its window, selects the events of    *)
(* the root window, shows itself and enters the event loop of Pager.       *)
(*                                                                         *)
(* The window manager may come up, publish its properties in any order,    *)
(* go away and change the desktop all the while; what happens before the   *)
(* root events are selected is announced to nobody.                        *)
(***************************************************************************)
EXTENDS Pager

CONSTANTS
    WM_WAIT,        \* how often the pager waits a second for a window manager
    MaxCells,       \* most columns and rows of a configured grid: 32
    GridOptions     \* grids that cols and rows may be set to: -1 for "the WM's"

ASSUME StartupAssumption ==
    /\ WM_WAIT \in Nat /\ MaxCells \in Nat \ {0}
    /\ GridOptions \subseteq [c : Nat \cup {-1}, r : Nat \cup {-1}]
    /\ \A grid \in GridOptions : grid.c # 0 /\ grid.r # 0

VARIABLES
    stage,      \* where pager_new or pager_show is; "loop" and "gone" after it
    waited,     \* count: seconds waited
    option,     \* the parameters cols and rows
    wm,         \* wm_c and wm_r
    check       \* is _NET_SUPPORTING_WM_CHECK set?

startup == <<stage, waited, option, wm, check>>
svars == <<vars, startup>>

Stage == {"check", "probe", "choose", "create", "select", "show", "loop", "gone"}
Unknown == [c |-> -1, r |-> -1]

\* The pager has no geometry yet.
NoGeometry == [cols |-> 1, rows |-> 1, x |-> 0, y |-> 0, w |-> 1, h |-> 1,
               desk_w |-> 0, desk_h |-> 0, attached |-> FALSE]

\* A window manager is up, or none is yet; pager_new is called.
StartInit ==
    /\ \E l \in Layouts, wins \in SUBSET Windows, up \in BOOLEAN :
        /\ \E list \in SetToSeqs(wins) :
              root = [present |-> up, nr |-> l.nr, layout |-> l.layout, desk |-> 0,
                      active |-> NoWindow, showing |-> FALSE, list |-> list]
        /\ clients \in {f \in [Windows -> Clients \cup {NoClient}] :
                          \A w \in Windows : f[w] # NoClient <=> w \in wins}
        /\ check = up
    /\ own = [x |-> 0, y |-> 0, w |-> 0, h |-> 0, strut |-> NoStrut]
    /\ requests = <<>> /\ sent = <<>> /\ notify = {} /\ inputs = 0 /\ held = {}
    /\ changes = MaxChanges
    /\ pc = "configure" /\ scan = NoScan /\ windows = <<>>
    /\ active = [desk |-> 0, win |-> NoWindow]
    /\ geo = NoGeometry
    /\ mouse = [idx |-> 0, window_x |-> 0, window_y |-> 0, button |-> 0,
                click |-> <<-1, -1>>, dragging |-> FALSE]
    /\ popup = [idx |-> 0, visible |-> FALSE, shown |-> NoWindow]
    /\ needs = [configure |-> TRUE, update |-> TRUE, properties |-> TRUE, popup |-> FALSE]
    /\ picture = Image(geo, active, windows, FALSE)
    /\ stage = "check" /\ waited = 0 /\ option \in GridOptions /\ wm = Unknown

-----------------------------------------------------------------------------
(* Waiting for the window manager *)

At(s, next) == stage = s /\ stage' = next

\* x_is_netwm_compatible_wm_running looks for one property only.
x_is_netwm_compatible_wm_running ==
    /\ stage = "check"
    /\ stage' = IF check THEN "choose" ELSE "probe"
    /\ UNCHANGED <<vars, waited, option, wm, check>>

\* x_get_desktop_layout finds the number of desktops; properties that disagree
\* are overruled here, too.
ReadGrid ==
    /\ HasLayout
    /\ Len(requests) < MaxRequests
    /\ x_set_desktop_layout
    /\ requests' = requests \o DesktopsRequest
    /\ UNCHANGED <<clients, own, sent, inputs, held, changes>>

FindGrid ==
    /\ At("probe", "choose")
    /\ ReadGrid
    /\ wm' = GridRead
    /\ UNCHANGED <<process, waited, option, check>>

\* Mutants: one second too many; the seconds are not counted.
Wait_OneMore ==
    /\ At("probe", "check")
    /\ ~ HasLayout /\ waited <= WM_WAIT
    /\ waited' = waited + 1
    /\ UNCHANGED <<vars, option, wm, check>>

Wait_Uncounted ==
    /\ At("probe", "check")
    /\ ~ HasLayout /\ waited < WM_WAIT
    /\ UNCHANGED <<vars, waited, option, wm, check>>

Wait ==
    /\ At("probe", "check")
    /\ ~ HasLayout /\ waited < WM_WAIT
    /\ waited' = waited + 1
    /\ UNCHANGED <<vars, option, wm, check>>

\* Mutant: no patience.
GiveUp_AtOnce ==
    /\ At("probe", "gone")
    /\ ~ HasLayout
    /\ UNCHANGED <<vars, waited, option, wm, check>>

GiveUp ==
    /\ At("probe", "gone")
    /\ ~ HasLayout /\ waited = WM_WAIT
    /\ UNCHANGED <<vars, waited, option, wm, check>>

-----------------------------------------------------------------------------
(* The grid *)

FromWM == option.c = -1 \/ option.r = -1

Choose(grid) ==
    /\ At("choose", "create")
    /\ geo' = [geo EXCEPT !.cols = grid.c, !.rows = grid.r]
    /\ UNCHANGED <<pc, scan, windows, active, mouse, popup, needs, picture>>
    /\ UNCHANGED <<waited, option, wm, check>>

ChooseFound ==
    /\ FromWM /\ wm # Unknown
    /\ Choose(wm)
    /\ UNCHANGED display

ChooseRead ==
    /\ FromWM /\ wm = Unknown
    /\ ReadGrid
    /\ Choose(GridRead)

\* The window manager had announced itself, but not its desktops: no waiting.
NoGrid ==
    /\ At("choose", "gone")
    /\ FromWM /\ wm = Unknown /\ ~ HasLayout
    /\ UNCHANGED <<vars, waited, option, wm, check>>

Limited(n) == IF n > MaxCells THEN MaxCells ELSE n
OptionGrid == [c |-> Limited(option.c), r |-> Limited(option.r)]

\* Mutant: the window manager is asked for the desktops, but the layout is left
\* as it is.
ChooseOption_LayoutUnset ==
    /\ ~ FromWM
    /\ Len(requests) < MaxRequests
    /\ requests' = IF root.present
                   THEN Append(requests, [kind |-> "desktops", nr |-> OptionGrid.c * OptionGrid.r])
                   ELSE requests
    /\ Choose(OptionGrid)
    /\ UNCHANGED <<root, notify, clients, own, sent, inputs, held, changes>>

\* x_set_desktop_layout; the request is lost when no window manager is there.
ChooseOption ==
    /\ ~ FromWM
    /\ Len(requests) < MaxRequests
    /\ root' = [root EXCEPT !.layout = OptionGrid]
    /\ Announce("property")
    /\ requests' = IF root.present
                   THEN Append(requests, [kind |-> "desktops", nr |-> OptionGrid.c * OptionGrid.r])
                   ELSE requests
    /\ Choose(OptionGrid)
    /\ UNCHANGED <<clients, own, sent, inputs, held, changes>>

-----------------------------------------------------------------------------
(* The window *)

Sized == [geo EXCEPT !.w = calc_w_h(geo.cols, geo.rows).w, !.h = calc_w_h(geo.cols, geo.rows).h]
Placed == [Sized EXCEPT !.x = calc_x_y(Sized.w, Sized.h).x, !.y = calc_x_y(Sized.w, Sized.h).y]

CreateWindow ==
    /\ At("create", "select")
    /\ geo' = Placed /\ geo'.h > 0
    /\ own' = [x |-> geo'.x, y |-> geo'.y, w |-> geo'.w, h |-> geo'.h, strut |-> NoStrut]
    /\ UNCHANGED <<root, clients, requests, sent, notify, inputs, held, changes>>
    /\ UNCHANGED <<pc, scan, windows, active, mouse, popup, needs, picture>>
    /\ UNCHANGED <<waited, option, wm, check>>

\* A window of height zero is a fatal X error.
CreateFails ==
    /\ At("create", "gone")
    /\ geo' = Placed /\ geo'.h = 0
    /\ pc' = "dead"
    /\ UNCHANGED <<display, scan, windows, active, mouse, popup, needs, picture>>
    /\ UNCHANGED <<waited, option, wm, check>>

\* From here on changes are announced.
XSelectInput ==
    /\ At("select", "show")
    /\ notify' = {}
    /\ UNCHANGED <<root, clients, own, requests, sent, inputs, held, changes>>
    /\ UNCHANGED <<process, waited, option, wm, check>>

\* Mutant: what is on show is taken to be up to date.
ShowPainted_UpToDate ==
    /\ At("show", "loop") /\ pc = "layout"
    /\ picture' = Painted
    /\ needs' = [needs EXCEPT !.update = FALSE, !.properties = FALSE]
    /\ Announce("expose")
    /\ pc' = "configure"
    /\ UNCHANGED <<root, clients, own, requests, sent, inputs, held, changes>>
    /\ UNCHANGED <<scan, windows, active, geo, mouse, popup>>
    /\ UNCHANGED <<waited, option, wm, check>>

\* pager_show configures the window, paints it and maps it, which exposes it.
ShowConfigured ==
    /\ stage = "show" /\ pager_configure
    /\ UNCHANGED startup

ShowPainted ==
    /\ At("show", "loop") /\ pc = "layout"
    /\ picture' = Painted
    /\ needs' = [needs EXCEPT !.update = FALSE]
    /\ Announce("expose")
    /\ pc' = "configure"
    /\ UNCHANGED <<root, clients, own, requests, sent, inputs, held, changes>>
    /\ UNCHANGED <<scan, windows, active, geo, mouse, popup>>
    /\ UNCHANGED <<waited, option, wm, check>>

Start ==
    \/ x_is_netwm_compatible_wm_running \/ FindGrid \/ Wait \/ GiveUp
    \/ ChooseFound \/ ChooseRead \/ NoGrid \/ ChooseOption
    \/ CreateWindow \/ CreateFails \/ XSelectInput \/ ShowConfigured \/ ShowPainted

-----------------------------------------------------------------------------
(* The display, while there is no window that the user could do anything to *)

Desktop ==
    /\ stage \notin {"loop", "gone"}
    /\ \/ SwitchDesktop \/ FocusWindow \/ ToggleShowingDesktop \/ PublishList
       \/ ChangeLayout \/ Withdraw \/ Return
       \/ OpenWindow \/ CloseWindow \/ MoveWindow \/ AlterWindow
       \/ Refuse \/ Answer
    /\ UNCHANGED <<process, stage, waited, option, wm>>
    /\ check' = (check /\ (root.present => root'.present))

\* A window manager announces itself, before it publishes its desktops or after.
AnnounceWM ==
    /\ stage \notin {"loop", "gone"}
    /\ ~ check /\ check' = TRUE
    /\ UNCHANGED <<vars, stage, waited, option, wm>>

Running == stage = "loop" /\ Next /\ UNCHANGED startup

StartNext == Start \/ Desktop \/ AnnounceWM \/ Running

StartSpec == StartInit /\ [][StartNext]_svars

\* The process is scheduled and sleeps for a second only; the window manager
\* answers in its own good time but not never.
FairStartSpec ==
    /\ StartSpec
    /\ WF_svars(Start)
    /\ WF_svars(Running /\ loop) /\ WF_svars(Running /\ HandleNotification)
    /\ WF_svars(stage # "gone" /\ Answer /\ UNCHANGED <<process, startup>>)

-----------------------------------------------------------------------------
(* Properties *)

\* The variables hold values of the C types; the pager and the display do.
StartTypeOK ==
    /\ TypeOK
    /\ stage \in Stage /\ waited \in 0 .. WM_WAIT /\ option \in GridOptions
    /\ wm \in [c : Nat \ {0}, r : Nat \ {0}] \cup {Unknown}
    /\ check \in BOOLEAN

\* Starting comes to an end, with or without a window manager (pager.c:796-813).
StartEnds == <>(stage \in {"loop", "gone"})

\* A window manager that names its desktops before it announces itself, and then
\* stays, is given the whole wait: the pager leaves it early only over a window
\* it cannot create (pager.c:799-813, 817-822).
WaitsItsTime ==
    [](check => HasLayout) /\ [](root.present => []root.present)
        => [](stage = "gone" /\ pc # "dead" => waited = WM_WAIT)

\* The pager keeps to the grid it was configured with, whatever grid the window
\* manager has when the pager starts or after it was restarted (pager.c:824-835,
\* x.c:438); provided that no other program writes the layout.
ConfiguredGridKept == stage = "loop" /\ ~ FromWM => GridNow = OptionGrid

\* ... and in the end the window manager has the desktops of that grid, even if
\* the request was lost with a window manager that went away.
ConfiguredGridGranted ==
    <>[](~ FromWM /\ root.present) =>
        <>[](stage = "gone" \/ (/\ root.nr = OptionGrid.c * OptionGrid.r
                                /\ root.layout = OptionGrid))

\* What changed while nobody was told, between the reads of pager_new and the
\* selection of root events, is found by the first refresh: in the end the pager
\* shows the desktop as it is (pager.c:869, 951).
SettlesFromStart ==
    <>[]ListCurrent => <>[](stage = "gone" \/ picture = TrueImage)

=============================================================================
