--------------------------- MODULE StartupProofs ---------------------------
(***************************************************************************)
(* The pager that starts under any window manager, or none, enters its     *)
(* event loop in a state the proofs about Pager start from: its inductive  *)
(* invariant holds from the first step of pager_new on.  A configured grid *)
(* is kept, the wait is as long as it should be, and what is proved of     *)
(* highlights, grid, gestures, popups and picture holds from the real      *)
(* start.                                                                  *)
(***************************************************************************)
EXTENDS Startup, PagerRefreshProofs, PagerGestureProofs

\* The pager's invariant, which no step of the start needs to establish anew.
StartInv ==
    /\ StartTypeOK /\ IInv
    /\ stage # "loop" => pc # "scan"

\* Cols and rows are at least 1 after the limit has been applied.
LEMMA OptionGridTypes ==
    ASSUME StartTypeOK, ~ FromWM
    PROVE  OptionGrid \in [c : Nat \ {0}, r : Nat \ {0}]
<1>1. option \in [c : Nat \ {0}, r : Nat \ {0}]
  <2>1. option \in [c : Nat \cup {-1}, r : Nat \cup {-1}] /\ option.c # 0 /\ option.r # 0
    BY StartupAssumption DEF StartTypeOK
  <2> QED
    BY <2>1 DEF FromWM
<1>2. ASSUME NEW n \in Nat \ {0} PROVE Limited(n) \in Nat \ {0}
  BY StartupAssumption DEF Limited
<1> QED
  BY <1>1, <1>2 DEF OptionGrid

LEMMA StartInitInv == StartInit => StartInv
<1> SUFFICES ASSUME StartInit PROVE StartInv
  OBVIOUS
<1>1. PICK l \in Layouts, wins \in SUBSET Windows, up \in BOOLEAN :
        /\ \E list \in SetToSeqs(wins) :
              root = [present |-> up, nr |-> l.nr, layout |-> l.layout, desk |-> 0,
                      active |-> NoWindow, showing |-> FALSE, list |-> list]
        /\ clients \in {f \in [Windows -> Clients \cup {NoClient}] :
                          \A w \in Windows : f[w] # NoClient <=> w \in wins}
        /\ check = up
  BY DEF StartInit
<1>2. root \in RootProperties
  <2>1. PICK list \in SetToSeqs(wins) :
          root = [present |-> up, nr |-> l.nr, layout |-> l.layout, desk |-> 0,
                  active |-> NoWindow, showing |-> FALSE, list |-> list]
    BY <1>1
  <2>2. list \in Seq(Windows)
    BY <2>1, ListsOfWindows
  <2>3. l.nr \in Nat /\ l.layout \in [c : Nat, r : Nat]
    BY WindowManagerAssumption
  <2> QED
    BY <2>1, <2>2, <2>3 DEF RootProperties
<1>3. clients \in [Windows -> Client \cup {NoClient}]
  BY <1>1, WindowManagerAssumption
<1>4. own \in [x : Int, y : Int, w : Nat, h : Nat, strut : Strut]
  BY DEF StartInit, NoStrut, Strut
<1>5. DisplayTypeOK /\ held \subseteq Buttons
  BY <1>2, <1>3, <1>4, WindowManagerAssumption DEF StartInit, DisplayTypeOK, Notification
<1>6. TypeOK
  BY <1>5 DEF StartInit, TypeOK, NoScan, NoGeometry, PagerGeometry
<1>7. IInv
  BY <1>6 DEF StartInit, IInv, IndexInRange, ScanRemembers
<1>8. /\ stage \in Stage /\ waited \in 0 .. WM_WAIT /\ option \in GridOptions
      /\ wm = Unknown /\ check \in BOOLEAN /\ pc = "configure"
  BY <1>1, StartupAssumption DEF StartInit, Stage
<1> QED
  BY <1>6, <1>7, <1>8 DEF StartInv, StartTypeOK

\* Where neither the process nor the display changes.
LEMMA UnchangedInv ==
    ASSUME IInv, UNCHANGED vars
    PROVE  IInv'
BY DEF vars, display, process, IInv, TypeOK, DisplayTypeOK, IndexInRange, ScanRemembers

\* Where only the display and the geometry change, before the event loop.
LEMMA EarlyInv ==
    ASSUME IInv, DisplayTypeOK', held' = held, geo' \in PagerGeometry,
           pc' \in {pc, "dead"}, pc # "scan",
           UNCHANGED <<scan, windows, active, mouse, popup, needs>>
    PROVE  IInv'
<1>1. TypeOK'
  BY DEF IInv, TypeOK
<1> QED
  BY <1>1 DEF IInv, IndexInRange, ScanRemembers

LEMMA ReadGridTypes ==
    ASSUME TypeOK, ReadGrid
    PROVE  DisplayTypeOK' /\ held' = held
<1>1. root' \in RootProperties /\ notify' \subseteq Notification
  BY OverruleTypes DEF ReadGrid
<1>2. requests' \in Seq(OwnRequest)
  BY DesktopsRequestTypes DEF ReadGrid, TypeOK, DisplayTypeOK
<1> QED
  BY <1>1, <1>2 DEF ReadGrid, TypeOK, DisplayTypeOK

-----------------------------------------------------------------------------
(* One lemma for each stage *)

LEMMA WaitingInv ==
    ASSUME StartInv, x_is_netwm_compatible_wm_running \/ FindGrid \/ Wait \/ GiveUp
    PROVE  StartInv'
<1>1. CASE x_is_netwm_compatible_wm_running \/ Wait \/ GiveUp
  <2>1. UNCHANGED vars
    BY <1>1 DEF x_is_netwm_compatible_wm_running, Wait, GiveUp
  <2>2. IInv' /\ pc' = pc
    BY <2>1, UnchangedInv DEF StartInv, vars, process
  <2>3. waited' \in 0 .. WM_WAIT
    BY <1>1, StartupAssumption DEF x_is_netwm_compatible_wm_running, Wait, GiveUp, StartInv,
       StartTypeOK
  <2>4. stage # "loop" /\ stage' \in Stage /\ UNCHANGED <<option, wm, check>>
    BY <1>1 DEF x_is_netwm_compatible_wm_running, Wait, GiveUp, At, Stage
  <2> QED
    BY <2>2, <2>3, <2>4 DEF StartInv, StartTypeOK, IInv
<1>2. CASE FindGrid
  <2>1. DisplayTypeOK' /\ held' = held
    BY <1>2, ReadGridTypes DEF FindGrid, StartInv, IInv
  <2>2. UNCHANGED process /\ stage = "probe" /\ stage' = "choose"
        /\ UNCHANGED <<waited, option, check>>
    BY <1>2 DEF FindGrid, At
  <2>3. IInv'
    BY <2>1, <2>2, EarlyInv DEF StartInv, IInv, TypeOK, process
  <2>4. wm' \in [c : Nat \ {0}, r : Nat \ {0}]
    BY <1>2, GridReadTypes DEF FindGrid, StartInv, IInv
  <2> QED
    BY <2>2, <2>3, <2>4 DEF StartInv, StartTypeOK, IInv, Stage, process
<1> QED
  BY <1>1, <1>2

\* What choosing a grid changes besides the display.
LEMMA ChooseInv ==
    ASSUME StartInv, NEW grid \in [c : Nat \ {0}, r : Nat \ {0}], Choose(grid),
           DisplayTypeOK', held' = held
    PROVE  StartInv'
<1>1. geo' \in PagerGeometry
  BY DEF Choose, StartInv, IInv, TypeOK, PagerGeometry
<1>2. /\ stage = "choose" /\ stage' = "create" /\ UNCHANGED <<waited, option, wm, check>>
      /\ UNCHANGED <<pc, scan, windows, active, mouse, popup, needs>>
  BY DEF Choose, At
<1>3. IInv'
  BY <1>1, <1>2, EarlyInv DEF StartInv
<1> QED
  BY <1>2, <1>3 DEF StartInv, StartTypeOK, IInv, Stage

LEMMA ChoosingInv ==
    ASSUME StartInv, ChooseFound \/ ChooseRead \/ NoGrid \/ ChooseOption
    PROVE  StartInv'
<1>1. CASE ChooseFound
  <2>1. wm \in [c : Nat \ {0}, r : Nat \ {0}]
    BY <1>1 DEF ChooseFound, StartInv, StartTypeOK
  <2>2. DisplayTypeOK' /\ held' = held
    BY <1>1 DEF ChooseFound, display, StartInv, IInv, TypeOK, DisplayTypeOK
  <2> QED
    BY <1>1, <2>1, <2>2, ChooseInv DEF ChooseFound
<1>2. CASE ChooseRead
  <2>1. GridRead \in [c : Nat \ {0}, r : Nat \ {0}]
    BY GridReadTypes DEF StartInv, IInv
  <2>2. DisplayTypeOK' /\ held' = held
    BY <1>2, ReadGridTypes DEF ChooseRead, StartInv, IInv
  <2> QED
    BY <1>2, <2>1, <2>2, ChooseInv DEF ChooseRead
<1>3. CASE NoGrid
  <2>1. UNCHANGED vars /\ stage = "choose" /\ stage' = "gone"
        /\ UNCHANGED <<waited, option, wm, check>>
    BY <1>3 DEF NoGrid, At
  <2>2. IInv' /\ pc' = pc
    BY <2>1, UnchangedInv DEF StartInv, vars, process
  <2> QED
    BY <2>1, <2>2 DEF StartInv, StartTypeOK, IInv, Stage
<1>4. CASE ChooseOption
  <2>1. OptionGrid \in [c : Nat \ {0}, r : Nat \ {0}]
    BY <1>4, OptionGridTypes DEF ChooseOption, StartInv
  <2>2. root' \in RootProperties
    BY <1>4, <2>1 DEF ChooseOption, StartInv, IInv, TypeOK, DisplayTypeOK, RootProperties
  <2>3. requests' \in Seq(OwnRequest)
    <3>1. OptionGrid.c * OptionGrid.r \in Nat
      BY <2>1, ProductTypes
    <3>2. [kind |-> "desktops", nr |-> OptionGrid.c * OptionGrid.r] \in OwnRequest
      BY <3>1 DEF OwnRequest
    <3> QED
      BY <1>4, <3>2 DEF ChooseOption, StartInv, IInv, TypeOK, DisplayTypeOK
  <2>4. DisplayTypeOK' /\ held' = held
    BY <1>4, <2>2, <2>3 DEF ChooseOption, Announce, Notification, StartInv, IInv, TypeOK,
       DisplayTypeOK
  <2> QED
    BY <1>4, <2>1, <2>4, ChooseInv DEF ChooseOption
<1> QED
  BY <1>1, <1>2, <1>3, <1>4

LEMMA PlacedTypes ==
    ASSUME geo \in PagerGeometry
    PROVE  Placed \in PagerGeometry
<1>1. calc_w_h(geo.cols, geo.rows) \in [w : Nat, h : Nat]
  BY CalcSizeTypes DEF PagerGeometry
<1>2. Sized \in PagerGeometry
  <2> DEFINE size == calc_w_h(geo.cols, geo.rows)
  <2>1. Sized = [geo EXCEPT !.w = size.w, !.h = size.h]
    BY DEF Sized
  <2> HIDE DEF size
  <2>2. size \in [w : Nat, h : Nat]
    BY <1>1 DEF size
  <2> QED
    BY <2>1, <2>2 DEF PagerGeometry
<1>3. calc_x_y(Sized.w, Sized.h).x \in Int /\ calc_x_y(Sized.w, Sized.h).y \in Int
  BY <1>2, GeometryAssumption DEF calc_x_y, PagerGeometry
<1> QED
  BY <1>2, <1>3 DEF Placed, PagerGeometry

LEMMA CreatingInv ==
    ASSUME StartInv, CreateWindow \/ CreateFails \/ XSelectInput
    PROVE  StartInv'
<1>1. geo \in PagerGeometry /\ Placed \in PagerGeometry
  BY PlacedTypes DEF StartInv, IInv, TypeOK
<1>2. CASE CreateWindow
  <2>1. own' \in [x : Int, y : Int, w : Nat, h : Nat, strut : Strut]
    BY <1>1, <1>2 DEF CreateWindow, NoStrut, Strut, PagerGeometry
  <2>2. DisplayTypeOK' /\ held' = held
    BY <1>2, <2>1 DEF CreateWindow, StartInv, IInv, TypeOK, DisplayTypeOK
  <2>3. /\ stage = "create" /\ stage' = "select" /\ geo' = Placed
        /\ UNCHANGED <<pc, scan, windows, active, mouse, popup, needs>>
        /\ UNCHANGED <<waited, option, wm, check>>
    BY <1>2 DEF CreateWindow, At
  <2>4. IInv'
    BY <1>1, <2>2, <2>3, EarlyInv DEF StartInv
  <2> QED
    BY <2>3, <2>4 DEF StartInv, StartTypeOK, IInv, Stage
<1>3. CASE CreateFails
  <2>1. /\ stage = "create" /\ stage' = "gone" /\ geo' = Placed /\ pc' = "dead"
        /\ UNCHANGED display /\ UNCHANGED <<scan, windows, active, mouse, popup, needs>>
        /\ UNCHANGED <<waited, option, wm, check>>
    BY <1>3 DEF CreateFails, At
  <2>2. DisplayTypeOK' /\ held' = held
    BY <2>1 DEF display, StartInv, IInv, TypeOK, DisplayTypeOK
  <2>3. IInv'
    BY <1>1, <2>1, <2>2, EarlyInv DEF StartInv
  <2> QED
    BY <2>1, <2>3 DEF StartInv, StartTypeOK, IInv, Stage
<1>4. CASE XSelectInput
  <2>1. /\ stage = "select" /\ stage' = "show"
        /\ UNCHANGED process /\ UNCHANGED <<waited, option, wm, check>>
    BY <1>4 DEF XSelectInput, At
  <2>2. DisplayTypeOK' /\ held' = held
    BY <1>4 DEF XSelectInput, StartInv, IInv, TypeOK, DisplayTypeOK, Notification
  <2>3. IInv'
    BY <1>1, <2>1, <2>2, EarlyInv DEF StartInv, process
  <2> QED
    BY <2>1, <2>3 DEF StartInv, StartTypeOK, IInv, Stage, process
<1> QED
  BY <1>2, <1>3, <1>4

LEMMA ShowingInv ==
    ASSUME StartInv, ShowConfigured \/ ShowPainted
    PROVE  StartInv'
<1>1. CASE ShowConfigured
  <2>1. IInv' /\ pc' = "layout" /\ UNCHANGED startup
    BY <1>1, ConfigureInv DEF ShowConfigured, StartInv, pager_configure
  <2> QED
    BY <2>1 DEF StartInv, StartTypeOK, startup, IInv
<1>2. CASE ShowPainted
  <2>1. DisplayTypeOK' /\ held' = held
    BY <1>2 DEF ShowPainted, Announce, Notification, StartInv, IInv, TypeOK, DisplayTypeOK
  <2>2. /\ stage' = "loop" /\ pc' = "configure" /\ pc = "layout"
        /\ UNCHANGED <<scan, windows, active, geo, mouse, popup>>
        /\ UNCHANGED <<waited, option, wm, check>>
        /\ needs' = [needs EXCEPT !.update = FALSE]
    BY <1>2 DEF ShowPainted, At
  <2>3. TypeOK'
    BY <2>1, <2>2 DEF StartInv, IInv, TypeOK
  <2>4. IInv'
    BY <2>2, <2>3 DEF StartInv, IInv, IndexInRange, ScanRemembers
  <2> QED
    BY <2>2, <2>4 DEF StartInv, StartTypeOK, IInv, Stage
<1> QED
  BY <1>1, <1>2

LEMMA DesktopInv ==
    ASSUME StartInv, Desktop \/ AnnounceWM
    PROVE  StartInv'
<1>1. CASE Desktop
  <2>1. WindowManagerNext
    BY <1>1 DEF Desktop, WindowManagerNext
  <2>2. DisplayTypeOK' /\ held' = held
    BY <2>1, EnvironmentKeepsTypes DEF StartInv, IInv, TypeOK
  <2>3. stage # "loop" /\ UNCHANGED <<process, stage, waited, option, wm>> /\ check' \in BOOLEAN
    BY <1>1 DEF Desktop
  <2>4. IInv'
    BY <2>2, <2>3, EarlyInv DEF StartInv, IInv, TypeOK, process
  <2> QED
    BY <2>3, <2>4 DEF StartInv, StartTypeOK, IInv, process
<1>2. CASE AnnounceWM
  <2>1. UNCHANGED vars /\ UNCHANGED <<stage, waited, option, wm>> /\ check' \in BOOLEAN
    BY <1>2 DEF AnnounceWM
  <2>2. IInv' /\ pc' = pc
    BY <2>1, UnchangedInv DEF StartInv, vars, process
  <2> QED
    BY <2>1, <2>2 DEF StartInv, StartTypeOK, IInv
<1> QED
  BY <1>1, <1>2

LEMMA StartNextInv == StartInv /\ [StartNext]_svars => StartInv'
<1> SUFFICES ASSUME StartInv, [StartNext]_svars PROVE StartInv'
  OBVIOUS
<1>1. CASE Start
  BY <1>1, WaitingInv, ChoosingInv, CreatingInv, ShowingInv DEF Start
<1>2. CASE Desktop \/ AnnounceWM
  BY <1>2, DesktopInv
<1>3. CASE Running
  <2>1. IInv' /\ stage = "loop" /\ UNCHANGED startup
    BY <1>3, NextInv DEF Running, StartInv
  <2> QED
    BY <2>1 DEF StartInv, StartTypeOK, startup, IInv
<1>4. CASE UNCHANGED svars
  <2>1. UNCHANGED vars /\ UNCHANGED startup
    BY <1>4 DEF svars
  <2>2. IInv' /\ pc' = pc
    BY <2>1, UnchangedInv DEF StartInv, vars, process
  <2> QED
    BY <2>1, <2>2 DEF StartInv, StartTypeOK, startup, IInv
<1> QED
  BY <1>1, <1>2, <1>3, <1>4 DEF StartNext

\* From pager_new on, under a window manager that comes and goes and publishes
\* what it likes, the state keeps its types.
THEOREM StartTypeCorrect == StartSpec => []StartTypeOK
<1>1. StartInv => StartTypeOK
  BY DEF StartInv
<1> QED
  BY <1>1, StartInitInv, StartNextInv, PTL DEF StartSpec

\* The event loop is entered, and runs, with indices in bounds, whatever state
\* of the display the start met: what is proved of Pager from its invariant
\* does not depend on the properties agreeing when it starts.
THEOREM StartEntersLoop == StartSpec => [](IndexInRange /\ ScanRemembers)
<1>1. StartInv => IndexInRange /\ ScanRemembers
  BY DEF StartInv, IInv
<1> QED
  BY <1>1, StartInitInv, StartNextInv, PTL DEF StartSpec

-----------------------------------------------------------------------------
(* The configured grid *)

\* From the choice on, the pager's grid and the layout property are those of the
\* configuration.  They are kept together: a refresh reads the grid from the
\* property, and overrules a disagreement with the grid it has read.
GridChosen ==
    ~ FromWM /\ stage \notin {"check", "probe", "choose", "gone"}
        => GridNow = OptionGrid /\ root.layout = OptionGrid

\* A refresh reads the grid of a complete layout property.
LEMMA GridReadIsLayout ==
    ASSUME TypeOK, root.layout \in [c : Nat \ {0}, r : Nat \ {0}], GridNow = root.layout
    PROVE  /\ GridRead = root.layout
           /\ x_set_desktop_layout => root'.layout = root.layout
<1>1. root.layout.c # 0 /\ root.layout.r # 0
  OBVIOUS
<1>2. Grid(root.nr, root.layout) = root.layout
  BY <1>1 DEF Grid
<1>3. GridRead = root.layout
  BY <1>2 DEF GridRead
<1>4. ASSUME x_set_desktop_layout PROVE root'.layout = root.layout
  <2>1. root \in RootProperties
    BY DEF TypeOK, DisplayTypeOK
  <2> QED
    BY <1>3, <1>4, <2>1 DEF x_set_desktop_layout, RootProperties
<1> QED
  BY <1>3, <1>4

\* Nobody else writes the layout.
LEMMA LayoutIsThePagers ==
    ASSUME TypeOK, "layout" \notin Kinds, WindowManagerNext
    PROVE  root'.layout = root.layout
<1>1. root \in RootProperties
  BY DEF TypeOK, DisplayTypeOK
<1>2. CASE SwitchDesktop
  BY <1>1, <1>2 DEF SwitchDesktop, ChangeRoot, RootProperties
<1>3. CASE FocusWindow \/ ToggleShowingDesktop
  BY <1>1, <1>3 DEF FocusWindow, ToggleShowingDesktop, ChangeRoot, RootProperties
<1>4. CASE PublishList
  <2>1. PICK list : root' = [root EXCEPT !.list = list]
    BY <1>4 DEF PublishList, ChangeRoot
  <2> QED
    BY <1>1, <2>1 DEF RootProperties
<1>5. CASE ChangeLayout
  BY <1>5 DEF ChangeLayout, Spontaneous
<1>6. CASE Withdraw \/ Return
  BY <1>1, <1>6 DEF Withdraw, Return, RootProperties
<1>7. CASE OpenWindow \/ CloseWindow \/ MoveWindow \/ AlterWindow
  BY <1>7 DEF OpenWindow, CloseWindow, MoveWindow, AlterWindow, ChangeClient
<1>8. CASE ResizeOwn \/ Damage \/ Refuse \/ UserInput
  BY <1>8 DEF ResizeOwn, Damage, Refuse, UserInput
<1>9. CASE Grant
  <2>1. \/ root' = root
        \/ root' = [root EXCEPT !.nr = Allowed(Head(requests).nr),
                                !.desk = LastDesk(@, Allowed(Head(requests).nr))]
    BY <1>9 DEF Grant, Configure, WithDesktops
  <2> QED
    BY <1>1, <2>1 DEF RootProperties
<1>10. CASE Obey
  <2>1. \/ root' = root \/ root' = [root EXCEPT !.desk = Head(sent).desk]
        \/ root' = [root EXCEPT !.active = Head(sent).window]
    BY <1>10 DEF Obey
  <2> QED
    BY <1>1, <2>1 DEF RootProperties
<1> QED
  BY <1>2, <1>3, <1>4, <1>5, <1>6, <1>7, <1>8, <1>9, <1>10 DEF WindowManagerNext, Answer

\* The event loop keeps a grid that is the layout's.
LEMMA LoopKeepsGrid ==
    ASSUME IInv, Next, "layout" \notin Kinds,
           root.layout \in [c : Nat \ {0}, r : Nat \ {0}], GridNow = root.layout
    PROVE  GridNow' = GridNow /\ root'.layout = root.layout
<1>1. GridRead = GridNow
  BY GridReadIsLayout DEF IInv
<1>2. geo \in PagerGeometry
  BY DEF IInv, TypeOK
<1>3. CASE update_desktop_count
  <2>1. ReadLayout
    BY <1>3 DEF update_desktop_count, KeepGrid, ChangeGrid, NoRoomForGrid
  <2>2. root'.layout = root.layout
    BY <2>1, GridReadIsLayout DEF ReadLayout, IInv
  <2>3. geo' = geo
    BY <1>1, <1>3 DEF update_desktop_count, KeepGrid, ChangeGrid, NoRoomForGrid
  <2> QED
    BY <2>2, <2>3 DEF GridNow
<1>4. CASE pager_configure
  <2>1. geo' = Configured(geo, own) /\ root' = root
    BY <1>4 DEF pager_configure
  <2>2. geo'.cols = geo.cols /\ geo'.rows = geo.rows
    BY <1>2, <2>1 DEF Configured, PagerGeometry
  <2> QED
    BY <2>1, <2>2 DEF GridNow
<1>5. CASE loop /\ ~ update_desktop_count /\ ~ pager_configure
  <2>1. geo' = geo /\ root' = root
    BY <1>5 DEF loop, pager_handle_events, Skip, ClientListMissing, FetchClientList, ScanWindow,
       FinishScan, pager_update, pager_update_popup, display, handle_event, HandleNotification,
       pager_button_press, pager_button_release, Hover, MotionWithoutEffect, Drag, pager_leave,
       DivideByZero, TakeInput
  <2> QED
    BY <2>1 DEF GridNow
<1>6. CASE Environment
  BY <1>6, LayoutIsThePagers DEF Environment, process, GridNow, IInv
<1> QED
  BY <1>3, <1>4, <1>5, <1>6 DEF Next

LEMMA StartKeepsGrid ==
    ASSUME StartInv, GridChosen, "layout" \notin Kinds, [StartNext]_svars
    PROVE  GridChosen'
<1> SUFFICES ASSUME ~ FromWM, option' = option,
                    stage' \notin {"check", "probe", "choose", "gone"}
             PROVE  GridNow' = OptionGrid /\ root'.layout = OptionGrid
  <2>1. option' = option
    BY DEF StartNext, Start, x_is_netwm_compatible_wm_running, FindGrid, Wait, GiveUp,
       ChooseFound, ChooseRead, NoGrid, ChooseOption, Choose, CreateWindow, CreateFails,
       XSelectInput, ShowConfigured, ShowPainted, Desktop, AnnounceWM, Running, startup, svars
  <2> QED
    BY <2>1 DEF GridChosen, FromWM, OptionGrid
<1>1. /\ OptionGrid \in [c : Nat \ {0}, r : Nat \ {0}]
      /\ geo \in PagerGeometry /\ root \in RootProperties /\ TypeOK
  BY OptionGridTypes DEF StartInv, IInv, TypeOK, DisplayTypeOK
<1>2. stage \notin {"check", "probe", "choose", "gone"}
         => GridNow = OptionGrid /\ root.layout = OptionGrid
  BY DEF GridChosen
<1>3. CASE Start /\ stage \in {"check", "probe", "choose"}
  <2>1. ChooseOption
    BY <1>3 DEF Start, x_is_netwm_compatible_wm_running, FindGrid, Wait, GiveUp, ChooseFound,
       ChooseRead, NoGrid, CreateWindow, CreateFails, XSelectInput, ShowConfigured, ShowPainted,
       At
  <2>2. geo' = [geo EXCEPT !.cols = OptionGrid.c, !.rows = OptionGrid.r]
        /\ root' = [root EXCEPT !.layout = OptionGrid]
    BY <2>1 DEF ChooseOption, Choose
  <2>3. geo'.cols = OptionGrid.c /\ geo'.rows = OptionGrid.r
    BY <1>1, <2>2 DEF PagerGeometry
  <2> QED
    BY <1>1, <2>2, <2>3 DEF GridNow, RootProperties
<1>4. CASE Start /\ stage \notin {"check", "probe", "choose"}
  <2>1. CreateWindow \/ CreateFails \/ XSelectInput \/ ShowConfigured \/ ShowPainted
    BY <1>4 DEF Start, x_is_netwm_compatible_wm_running, FindGrid, Wait, GiveUp, ChooseFound,
       ChooseRead, NoGrid, ChooseOption, Choose, At
  <2>2. root' = root /\ stage # "gone"
    BY <2>1 DEF CreateWindow, CreateFails, XSelectInput, ShowConfigured, ShowPainted, At,
       display, pager_configure
  <2>3. geo' = Placed \/ geo' = geo \/ geo' = Configured(geo, own)
    BY <2>1 DEF CreateWindow, CreateFails, XSelectInput, ShowConfigured, ShowPainted, process,
       pager_configure
  <2>4. geo'.cols = geo.cols /\ geo'.rows = geo.rows
    BY <1>1, <2>3 DEF Placed, Sized, Configured, PagerGeometry
  <2> QED
    BY <1>2, <1>4, <2>2, <2>4 DEF GridNow
<1>5. CASE Desktop
  <2>1. WindowManagerNext /\ geo' = geo /\ stage' = stage
    BY <1>5 DEF Desktop, WindowManagerNext, process
  <2>2. root'.layout = root.layout
    BY <1>1, <2>1, LayoutIsThePagers
  <2> QED
    BY <1>2, <2>1, <2>2 DEF GridNow
<1>6. CASE Running
  <2>1. Next /\ IInv /\ stage = "loop"
    BY <1>6 DEF Running, StartInv
  <2> QED
    BY <1>1, <1>2, <2>1, LoopKeepsGrid
<1>7. CASE AnnounceWM \/ UNCHANGED svars
  <2>1. root' = root /\ geo' = geo /\ stage' = stage
    BY <1>7 DEF AnnounceWM, svars, startup, vars, display, process
  <2> QED
    BY <1>2, <2>1 DEF GridNow
<1> QED
  BY <1>3, <1>4, <1>5, <1>6, <1>7 DEF StartNext

\* Where no other program writes the layout, the pager keeps the grid it was
\* configured with, cut to the limit, through every restart of the window
\* manager, for any grid, limit and window manager (pager.c:824-835, x.c:438).
THEOREM ConfiguredGridStays ==
    ASSUME "layout" \notin Kinds
    PROVE  StartSpec => []ConfiguredGridKept
<1>1. StartInit => GridChosen
  BY DEF StartInit, GridChosen
<1>2. StartInv /\ GridChosen /\ [StartNext]_svars => GridChosen'
  BY StartKeepsGrid
<1>3. GridChosen => ConfiguredGridKept
  BY DEF GridChosen, ConfiguredGridKept
<1> QED
  BY <1>1, <1>2, <1>3, StartInitInv, StartNextInv, PTL DEF StartSpec

-----------------------------------------------------------------------------
(* The wait *)

\* Under a window manager that has its desktops when it announces itself, the grid
\* is chosen early only from what was read; and the pager goes only after the wait.
WaitInv ==
    /\ stage = "choose" /\ wm = Unknown => check
    /\ stage = "gone" /\ pc # "dead" => waited = WM_WAIT

LEMMA StepsWait ==
    ASSUME StartInv, WaitInv, [StartNext]_svars, check => HasLayout,
           root.present => root'.present
    PROVE  WaitInv'
<1>1. CASE x_is_netwm_compatible_wm_running \/ Wait \/ GiveUp
  BY <1>1 DEF x_is_netwm_compatible_wm_running, Wait, GiveUp, At, WaitInv
<1>2. CASE FindGrid
  <2>1. stage' = "choose" /\ wm' = GridRead
    BY <1>2 DEF FindGrid, At
  <2>2. GridRead \in [c : Nat \ {0}, r : Nat \ {0}]
    BY GridReadTypes DEF StartInv, IInv
  <2>3. wm' # Unknown
    BY <2>1, <2>2 DEF Unknown
  <2> QED
    BY <2>1, <2>3 DEF WaitInv
<1>3. CASE ChooseFound \/ ChooseRead \/ ChooseOption
  <2>1. stage' = "create"
    BY <1>3 DEF ChooseFound, ChooseRead, ChooseOption, Choose, At
  <2> QED
    BY <2>1 DEF WaitInv
<1>4. ~ NoGrid
  BY DEF NoGrid, At, WaitInv
<1>5. CASE CreateWindow \/ CreateFails \/ XSelectInput \/ ShowPainted
  BY <1>5 DEF CreateWindow, CreateFails, XSelectInput, ShowPainted, At, WaitInv
<1>6. CASE ShowConfigured \/ Running
  <2>1. stage' = stage /\ stage \notin {"choose", "gone"}
    BY <1>6 DEF ShowConfigured, Running, startup
  <2> QED
    BY <2>1 DEF WaitInv
<1>7. CASE Desktop
  <2>1. UNCHANGED <<stage, waited, wm, pc>> /\ check' = check
    BY <1>7 DEF Desktop, process, StartInv, StartTypeOK
  <2> QED
    BY <2>1 DEF WaitInv
<1>8. CASE AnnounceWM \/ UNCHANGED svars
  <2>1. UNCHANGED <<stage, waited, wm, pc>> /\ (check => check')
    BY <1>8 DEF AnnounceWM, svars, startup, vars, process
  <2> QED
    BY <2>1 DEF WaitInv
<1> QED
  BY <1>1, <1>2, <1>3, <1>4, <1>5, <1>6, <1>7, <1>8 DEF StartNext, Start

\* With a window manager that names its desktops before it announces itself, and
\* stays, the pager goes before the end of the wait only over a window that it
\* cannot create, for any length of the wait (pager.c:799-813, 817-822).
THEOREM WaitsAsLongAsSaid == StartSpec => WaitsItsTime
<1>1. StartInit => WaitInv
  BY DEF StartInit, WaitInv
<1>2. StartInv /\ WaitInv /\ [StartNext]_svars /\ (check => HasLayout)
         /\ (root.present => (root.present)') => WaitInv'
  <2> SUFFICES ASSUME StartInv, WaitInv, [StartNext]_svars, check => HasLayout,
                      root.present => (root.present)'
               PROVE  WaitInv'
    OBVIOUS
  <2> QED
    BY StepsWait, Zenon
<1>3. WaitInv => (stage = "gone" /\ pc # "dead" => waited = WM_WAIT)
  BY DEF WaitInv
<1> QED
  BY <1>1, <1>2, <1>3, StartInitInv, StartNextInv, PTL DEF StartSpec, WaitsItsTime

-----------------------------------------------------------------------------
(* The event loop, from the real start *)

\* Until the loop is entered nothing counts as read, and no user has touched the
\* pager; until pager_show the cells are owed.
Early ==
    /\ stage # "loop" =>
          /\ needs.update /\ needs.properties /\ pc \in {"configure", "layout", "dead"}
          /\ mouse.idx = 0 /\ mouse.button = 0 /\ ~ mouse.dragging /\ ~ popup.visible
          /\ sent = <<>>
    /\ stage \notin {"show", "loop"} => needs.configure
    /\ stage \notin {"show", "loop", "gone"} => pc = "configure"
    /\ stage = "show" => pc # "dead"

\* What is proved of the loop.
OfLoop ==
    /\ HighlightInv /\ GridFreshOrOwed /\ StrutCoversPager /\ DeadOnlyWithoutRoom
    /\ GestureUnderHeldButton /\ NoPopupDuringGesture /\ PopupStandsForShown
    /\ TitleOwed /\ RoundComes

LEMMA EarlyKept ==
    ASSUME StartInv, Early, [StartNext]_svars
    PROVE  Early'
<1>1. needs \in [configure : BOOLEAN, update : BOOLEAN, properties : BOOLEAN, popup : BOOLEAN]
  BY DEF StartInv, IInv, TypeOK
<1>2. CASE x_is_netwm_compatible_wm_running \/ FindGrid \/ Wait \/ GiveUp
  <2>1. /\ UNCHANGED <<process, sent>> /\ stage \in {"check", "probe"}
        /\ stage' \in {"choose", "probe", "check", "gone"}
    BY <1>2 DEF x_is_netwm_compatible_wm_running, FindGrid, ReadGrid, Wait, GiveUp, At, vars,
       display
  <2> QED
    BY <2>1 DEF Early, process
<1>3. CASE ChooseFound \/ ChooseRead \/ NoGrid \/ ChooseOption
  <2>1. /\ UNCHANGED <<pc, mouse, popup, needs, sent>>
        /\ stage = "choose" /\ stage' \in {"create", "gone"}
    BY <1>3 DEF ChooseFound, ChooseRead, NoGrid, ChooseOption, Choose, ReadGrid, At, vars,
       display, process
  <2> QED
    BY <2>1 DEF Early
<1>4. CASE CreateWindow \/ CreateFails \/ XSelectInput
  <2>1. /\ UNCHANGED <<mouse, popup, needs, sent>>
        /\ \/ stage \in {"create", "select"} /\ stage' \in {"select", "show"} /\ pc' = pc
           \/ stage = "create" /\ stage' = "gone" /\ pc' = "dead"
    BY <1>4 DEF CreateWindow, CreateFails, XSelectInput, At, display, process
  <2> QED
    BY <2>1 DEF Early
<1>5. CASE ShowConfigured
  <2>1. /\ UNCHANGED <<mouse, popup, sent>> /\ stage = "show" /\ stage' = "show"
        /\ needs' = [needs EXCEPT !.configure = FALSE, !.update = TRUE] /\ pc' = "layout"
    BY <1>5 DEF ShowConfigured, pager_configure, startup
  <2> QED
    BY <1>1, <2>1 DEF Early
<1>6. CASE ShowPainted \/ Running
  <2>1. stage' = "loop"
    BY <1>6 DEF ShowPainted, Running, At, startup
  <2> QED
    BY <2>1 DEF Early
<1>7. CASE Desktop
  <2>1. UNCHANGED <<process, stage>> /\ stage # "loop"
    BY <1>7 DEF Desktop
  <2>2. sent = <<>>
    BY <2>1 DEF Early
  <2>3. sent' = sent
    BY <1>7, <2>2 DEF Desktop, SwitchDesktop, FocusWindow, ToggleShowingDesktop, ChangeRoot,
       PublishList, ChangeLayout, Withdraw, Return, OpenWindow, CloseWindow, MoveWindow,
       AlterWindow, ChangeClient, Refuse, Answer, Grant, Obey
  <2> QED
    BY <2>1, <2>3 DEF Early, process
<1>8. CASE AnnounceWM \/ UNCHANGED svars
  <2>1. UNCHANGED <<vars, stage>>
    BY <1>8 DEF AnnounceWM, svars, startup
  <2> QED
    BY <2>1 DEF Early, vars, display, process
<1> QED
  BY <1>2, <1>3, <1>4, <1>5, <1>6, <1>7, <1>8 DEF StartNext, Start

\* A step of the loop, of the display or of pager_configure keeps it.
LEMMA LoopSteps ==
    ASSUME StartInv, OfLoop, [Next]_vars
    PROVE  OfLoop'
BY HighlightInductive, GridInductive, StrutInductive, DeathInductive, HoldInductive,
   HideInductive, PopupInductive, TitleInductive DEF OfLoop, StartInv

\* The last step of pager_show paints what the copy holds, which is read after it.
LEMMA ShownInv ==
    ASSUME StartInv, Early, OfLoop, ShowPainted
    PROVE  OfLoop'
<1>1. /\ stage = "show" /\ pc = "layout" /\ pc' = "configure"
      /\ needs' = [needs EXCEPT !.update = FALSE] /\ picture' = Painted
      /\ UNCHANGED <<own, held, scan, windows, active, geo, mouse, popup>>
  BY DEF ShowPainted, At
<1>2. needs \in [configure : BOOLEAN, update : BOOLEAN, properties : BOOLEAN, popup : BOOLEAN]
  BY DEF StartInv, IInv, TypeOK
<1>3. needs'.configure = needs.configure /\ needs'.properties
  BY <1>1, <1>2 DEF Early
<1>4. geo.attached => Shown'
  BY <1>1 DEF Painted, Image, Shown
<1>5. HighlightInv'
  BY <1>1, <1>3, <1>4 DEF HighlightInv
<1>6. GridFreshOrOwed' /\ StrutCoversPager' /\ DeadOnlyWithoutRoom'
  BY <1>1, <1>3 DEF OfLoop, GridFreshOrOwed, StrutCoversPager, DeadOnlyWithoutRoom
<1>7. GestureUnderHeldButton' /\ NoPopupDuringGesture' /\ PopupStandsForShown'
  BY <1>1 DEF Early, GestureUnderHeldButton, NoPopupDuringGesture, PopupStandsForShown
<1>8. TitleOwed' /\ RoundComes'
  BY <1>1 DEF Early, TitleOwed, RoundComes
<1> QED
  BY <1>5, <1>6, <1>7, <1>8 DEF OfLoop

LEMMA OfLoopInductive ==
    ASSUME StartInv, Early, OfLoop, [StartNext]_svars
    PROVE  OfLoop'
<1>1. CASE \/ x_is_netwm_compatible_wm_running \/ Wait \/ GiveUp \/ NoGrid \/ ShowConfigured
           \/ Desktop \/ AnnounceWM \/ Running \/ UNCHANGED svars
  <2>1. pager_configure \/ Environment \/ Next \/ UNCHANGED vars
    BY <1>1 DEF x_is_netwm_compatible_wm_running, Wait, GiveUp, NoGrid, ShowConfigured,
       Desktop, WindowManagerNext, Environment, AnnounceWM, Running, svars
  <2>2. [Next]_vars
    BY <2>1 DEF Next, loop, pager_handle_events
  <2> QED
    BY <2>2, LoopSteps
<1>2. CASE \/ FindGrid \/ ChooseFound \/ ChooseRead \/ ChooseOption
           \/ CreateWindow \/ CreateFails \/ XSelectInput
  <2>1. /\ stage \notin {"show", "loop"} /\ stage' # "loop" /\ needs' = needs
    BY <1>2 DEF FindGrid, ChooseFound, ChooseRead, ChooseOption, Choose, CreateWindow,
       CreateFails, XSelectInput, At, process
  <2>2. needs'.configure
    BY <2>1 DEF Early
  <2>3. GridFreshOrOwed' /\ StrutCoversPager'
    BY <2>2 DEF GridFreshOrOwed, StrutCoversPager
  <2>4. Early'
    BY EarlyKept
  \* before the loop all of it holds because nothing has been done yet
  <2> QED
    BY <2>1, <2>3, <2>4 DEF Early, OfLoop, HighlightInv, DeadOnlyWithoutRoom,
       GestureUnderHeldButton, NoPopupDuringGesture, PopupStandsForShown, TitleOwed,
       RoundComes
<1>3. CASE ShowPainted
  BY <1>3, ShownInv
<1> QED
  BY <1>1, <1>2, <1>3 DEF StartNext, Start

LEMMA OfLoopInit == StartInit => Early /\ OfLoop
<1> SUFFICES ASSUME StartInit PROVE Early /\ OfLoop
  OBVIOUS
<1>1. /\ stage = "check" /\ pc = "configure" /\ sent = <<>>
      /\ needs = [configure |-> TRUE, update |-> TRUE, properties |-> TRUE, popup |-> FALSE]
      /\ mouse.idx = 0 /\ mouse.button = 0 /\ mouse.dragging = FALSE /\ popup.visible = FALSE
  BY DEF StartInit
<1>2. Early /\ GridFreshOrOwed /\ StrutCoversPager
  BY <1>1 DEF Early, GridFreshOrOwed, StrutCoversPager
<1> QED
  BY <1>1, <1>2 DEF Early, OfLoop, HighlightInv, DeadOnlyWithoutRoom,
     GestureUnderHeldButton, NoPopupDuringGesture, PopupStandsForShown, TitleOwed,
     RoundComes

\* The pager as it really starts, under any window manager or none, whatever its
\* properties, and with any configured grid: highlights, grid, strut, gestures and
\* popups are as they are proved to be under one whose properties agree
\* (pager.c:796-951, main.c:86-113).
THEOREM SafeFromTheStart ==
    StartSpec => [](/\ HighlightTrue /\ GridFreshOrOwed /\ StrutCoversPager
                    /\ DeadOnlyWithoutRoom /\ GestureUnderHeldButton
                    /\ NoPopupDuringGesture /\ PopupTellsTruth /\ PopupTitled)
<1>1. StartInv /\ Early /\ OfLoop /\ [StartNext]_svars => Early' /\ OfLoop'
  BY EarlyKept, OfLoopInductive
<1>2. StartInv /\ OfLoop => /\ HighlightTrue /\ GridFreshOrOwed /\ StrutCoversPager
                            /\ DeadOnlyWithoutRoom /\ GestureUnderHeldButton
                            /\ NoPopupDuringGesture /\ PopupTellsTruth /\ PopupTitled
  BY HighlightsFollow, TitleFollows, NoneBlank DEF OfLoop, StartInv
<1> QED
  BY <1>1, <1>2, OfLoopInit, StartInitInv, StartNextInv, PTL DEF StartSpec

-----------------------------------------------------------------------------
(* Gestures and pictures, from the real start *)

\* Steps outside the loop leave the gesture alone: there is none.
LEMMA OutsideTheLoop ==
    ASSUME StartInv, Early, [StartNext]_svars, ~ Running
    PROVE  \/ UNCHANGED vars
           \/ Early' /\ stage # "loop" /\ UNCHANGED <<mouse, sent>> /\ pc' # "scan"
<1>1. Early'
  BY EarlyKept
<1>2. CASE Start
  <2>1. stage # "loop" /\ UNCHANGED <<mouse, sent>>
    BY <1>2 DEF Start, x_is_netwm_compatible_wm_running, FindGrid, ReadGrid, Wait, GiveUp,
       ChooseFound, ChooseRead, NoGrid, ChooseOption, Choose, CreateWindow, CreateFails,
       XSelectInput, ShowConfigured, ShowPainted, pager_configure, At, vars, display, process
  <2>2. pc # "scan"
    BY <2>1 DEF Early
  <2>3. pc' # "scan"
    BY <1>2, <2>2 DEF Start, x_is_netwm_compatible_wm_running, FindGrid, Wait, GiveUp,
       ChooseFound, ChooseRead, NoGrid, ChooseOption, Choose, CreateWindow, CreateFails,
       XSelectInput, ShowConfigured, ShowPainted, pager_configure, At, vars, process
  <2> QED
    BY <1>1, <2>1, <2>3
<1>3. CASE Desktop
  <2>1. UNCHANGED <<process, stage>> /\ stage # "loop"
    BY <1>3 DEF Desktop
  <2>2. sent = <<>> /\ sent' = <<>> /\ pc # "scan"
    BY <1>1, <2>1 DEF Early
  <2> QED
    BY <1>1, <2>1, <2>2 DEF process
<1>4. CASE AnnounceWM \/ UNCHANGED svars
  BY <1>4 DEF AnnounceWM, svars
<1> QED
  BY <1>2, <1>3, <1>4 DEF StartNext

\* The gestures are those of Gesture, and keep their windows, also of a pager that
\* is started under a window manager whose properties disagree or that is not up
\* yet (pager.c:796-951, 1101-1219).
THEOREM GesturesFromTheStart == StartSpec => GestureImplemented /\ DragKeepsWindow
<1>1. StartInit => G!Init
  BY NoGesture DEF StartInit
<1>2. StartInv /\ Early /\ OfLoop /\ [StartNext]_svars => [G!Next]_G!vars
  <2> SUFFICES ASSUME StartInv, Early, OfLoop, [StartNext]_svars
               PROVE  [G!Next]_G!vars
    OBVIOUS
  <2>1. CASE Running \/ UNCHANGED vars
    BY <2>1, StepIsGesture DEF Running, StartInv, OfLoop
  <2>2. CASE stage # "loop" /\ UNCHANGED <<mouse, sent>> /\ pc' # "scan"
    <3>1. mouse.idx = 0 /\ pc # "scan"
      BY <2>2 DEF Early
    <3>2. Target = NoWindow /\ Target' = NoWindow
      BY <2>2, <3>1 DEF Target, WindowAt
    <3> QED
      BY <2>2, <3>2 DEF G!vars
  <2> QED
    BY <2>1, <2>2, OutsideTheLoop
<1>3. StartInv /\ Early /\ [StartNext]_svars
        => [mouse.button # 0 /\ mouse'.button = mouse.button
              => Target' \in {Target, NoWindow}]_vars
  <2> SUFFICES ASSUME StartInv, Early, [StartNext]_svars,
                      mouse.button # 0, mouse'.button = mouse.button, ~ UNCHANGED vars
               PROVE  Target' \in {Target, NoWindow}
    OBVIOUS
  <2>1. Running
    BY OutsideTheLoop DEF Early
  <2> QED
    BY <2>1, StepKeepsTarget DEF Running, StartInv
<1>4. StartInv /\ Early /\ OfLoop /\ [StartNext]_svars => Early' /\ OfLoop'
  BY EarlyKept, OfLoopInductive
<1> QED
  BY <1>1, <1>2, <1>3, <1>4, OfLoopInit, StartInitInv, StartNextInv, PTL
  DEF StartSpec, GestureImplemented, G!Spec, DragKeepsWindow

\* The picture is true whenever the pager blocks, also of all that changed before the
\* pager listened, in any behaviour in which nothing is dragged and no client
\* changes unannounced (pager.c:924-951, 348-413, 586-661).
THEOREM PicturesFromTheStart ==
    "alter" \notin Kinds => (StartSpec /\ []~ mouse.dragging => []PictureTrue)
<1> SUFFICES ASSUME "alter" \notin Kinds
             PROVE  StartSpec /\ []~ mouse.dragging => []PictureTrue
  OBVIOUS
<1>1. StartInit => CopyInv /\ PictureInv
  BY DEF StartInit, CopyInv, OnlySwitches, Stale, PictureInv
<1>2. StartInv /\ Early /\ OfLoop /\ CopyInv /\ PictureInv /\ [StartNext]_svars
         /\ (~ mouse.dragging)' => (CopyInv /\ PictureInv)'
  <2> SUFFICES ASSUME StartInv, Early, OfLoop, CopyInv, PictureInv, [StartNext]_svars,
                      ~ mouse'.dragging
               PROVE  (CopyInv /\ PictureInv)'
    OBVIOUS
  <2>1. CASE Running \/ UNCHANGED vars
    BY <2>1, PictureSteps DEF Running, StartInv, OfLoop
  <2>2. CASE ~ Running /\ ~ UNCHANGED vars
    <3>1. Early' /\ stage # "loop" /\ sent' = sent
      BY <2>2, OutsideTheLoop
    <3>2. needs'.properties /\ sent' = <<>>
      <4>1. stage' = "loop" => ShowPainted
        BY <2>2, <3>1 DEF StartNext, Start, x_is_netwm_compatible_wm_running, FindGrid, Wait,
           GiveUp, ChooseFound, ChooseRead, NoGrid, ChooseOption, Choose, CreateWindow,
           CreateFails, XSelectInput, ShowConfigured, Desktop, AnnounceWM, At, startup, svars
      <4>2. ShowPainted => needs'.properties
        BY <3>1 DEF ShowPainted, Early, StartInv, IInv, TypeOK
      <4> QED
        BY <3>1, <4>1, <4>2 DEF Early
    <3> QED
      BY <3>2 DEF CopyInv, OnlySwitches, Stale, PictureInv
  <2> QED
    BY <2>1, <2>2
<1>3. StartInv /\ OfLoop /\ CopyInv /\ PictureInv => PictureTrue
  BY PictureFollows DEF StartInv, OfLoop
<1>4. StartInv /\ Early /\ OfLoop /\ [StartNext]_svars => Early' /\ OfLoop'
  BY EarlyKept, OfLoopInductive
<1> QED
  BY <1>1, <1>2, <1>3, <1>4, OfLoopInit, StartInitInv, StartNextInv, PTL DEF StartSpec

=============================================================================
