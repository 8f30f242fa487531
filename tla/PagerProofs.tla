----------------------------- MODULE PagerProofs -----------------------------
(***************************************************************************)
(* The pager's state stays well typed and its indices into windows[] stay  *)
(* in bounds, for every set of windows, every option and every behaviour   *)
(* of the window manager and the user; and the safety properties that      *)
(* follow once that is known.                                              *)
(***************************************************************************)
EXTENDS Pager, GeometryProofs, FiniteSetTheorems

-----------------------------------------------------------------------------
(* The environment keeps the types of the properties and requests that     *)
(* the pager relies on, whatever it does.                                  *)

\* What the fields of a request hold, by its kind.
LEMMA OwnRequestFields ==
    ASSUME NEW r \in OwnRequest
    PROVE  /\ r.kind \in {"desktops", "size", "position"}
           /\ r.kind = "desktops" => r.nr \in Nat
           /\ r.kind = "size" => r.w \in Nat /\ r.h \in Nat
           /\ r.kind = "position" => r.x \in Int /\ r.y \in Int
BY DEF OwnRequest

LEMMA UserRequestFields ==
    ASSUME NEW r \in UserRequest
    PROVE  /\ r.kind \in {"current_desktop", "active_window", "unshade", "desktop", "geometry"}
           /\ r.kind \in {"current_desktop", "desktop"} => r.desk \in Int
           /\ r.kind # "current_desktop" => r.window \in Windows
           /\ r.kind = "geometry" => r.x \in Int /\ r.y \in Int
BY DEF UserRequest

\* A permutation of a set of windows is a list of windows.
LEMMA ListsOfWindows ==
    ASSUME NEW S \in SUBSET Windows, NEW list \in SetToSeqs(S)
    PROVE  list \in Seq(Windows)
<1>1. IsFiniteSet(S)
  BY WindowManagerAssumption, FS_Subset
<1>2. Cardinality(S) \in Nat
  BY <1>1, FS_CardinalityType
<1>3. list \in [1 .. Cardinality(S) -> S]
  BY DEF SetToSeqs
<1>4. list \in [1 .. Cardinality(S) -> Windows]
  BY <1>3
<1> QED
  BY <1>2, <1>4

\* Another number of desktops leaves typed properties behind.
LEMMA WithDesktopsTypes ==
    ASSUME DisplayTypeOK, NEW nr \in Nat, NEW new \in RootProperties,
           WithDesktops(nr, new)
    PROVE  /\ root' \in RootProperties
           /\ clients' \in [Windows -> Client \cup {NoClient}]
<1>1. \A d \in Int : LastDesk(d, nr) \in Int
  BY DEF LastDesk
<1>2. root' = [new EXCEPT !.nr = nr, !.desk = LastDesk(new.desk, nr)]
  BY DEF WithDesktops
<1>3. \A w \in Windows : clients[w] # NoClient
        => [clients[w] EXCEPT !.desk = LastDesk(clients[w].desk, nr)] \in Client
  <2>1. TAKE w \in Windows
  <2>2. HAVE clients[w] # NoClient
  <2>3. clients[w] \in Client
    BY <2>2 DEF DisplayTypeOK
  <2> QED
    BY <1>1, <2>3 DEF Client
<1> QED
  BY <1>1, <1>2, <1>3 DEF WithDesktops, RootProperties

\* Setting a window's client record to a typed one.
LEMMA ChangeClientTypes ==
    ASSUME DisplayTypeOK, NEW kind, NEW w \in Windows, NEW c \in Client \cup {NoClient},
           ChangeClient(kind, w, c)
    PROVE  /\ clients' \in [Windows -> Client \cup {NoClient}]
           /\ changes' \in Nat
           /\ UNCHANGED <<root, own, requests, sent, inputs, held>>
BY DEF DisplayTypeOK, ChangeClient, Spontaneous

\* Setting the root properties to typed ones.
LEMMA ChangeRootTypes ==
    ASSUME DisplayTypeOK, NEW kind, NEW new \in RootProperties,
           ChangeRoot(kind, new), UNCHANGED clients
    PROVE  DisplayTypeOK' /\ held' = held
BY DEF DisplayTypeOK, ChangeRoot, Spontaneous, Announce, Notification

\* Whatever the window manager, the server or the user does, the display holds
\* typed values, and no button changes without the pager being told.
THEOREM EnvironmentKeepsTypes ==
    ASSUME DisplayTypeOK, WindowManagerNext
    PROVE  DisplayTypeOK' /\ held' = held
<1>1. CASE SwitchDesktop
  <2>1. PICK d \in 0 .. root.nr - 1 : ChangeRoot("desk", [root EXCEPT !.desk = d])
    BY <1>1 DEF SwitchDesktop
  <2>2. [root EXCEPT !.desk = d] \in RootProperties
    <3>1. d \in Int
      BY DEF DisplayTypeOK, RootProperties
    <3> QED
      BY <3>1 DEF DisplayTypeOK, RootProperties
  <2> QED
    BY <1>1, <2>1, <2>2, ChangeRootTypes DEF SwitchDesktop
<1>2. CASE FocusWindow
  <2>1. PICK w \in Windows \cup {NoWindow} : ChangeRoot("focus", [root EXCEPT !.active = w])
    BY <1>2 DEF FocusWindow
  <2>2. [root EXCEPT !.active = w] \in RootProperties
    BY DEF DisplayTypeOK, RootProperties
  <2> QED
    BY <1>2, <2>1, <2>2, ChangeRootTypes DEF FocusWindow
<1>3. CASE ToggleShowingDesktop
  <2>1. [root EXCEPT !.showing = ~ root.showing] \in RootProperties
    BY DEF DisplayTypeOK, RootProperties
  <2> QED
    BY <1>3, <2>1, ChangeRootTypes DEF ToggleShowingDesktop
<1>4. CASE PublishList
  <2>1. PICK S \in SUBSET {w \in Windows : clients[w] # NoClient} :
          \E list \in SetToSeqs(S) : ChangeRoot("list", [root EXCEPT !.list = list])
    BY <1>4 DEF PublishList
  <2>2. PICK list \in SetToSeqs(S) : ChangeRoot("list", [root EXCEPT !.list = list])
    BY <2>1
  <2>3. list \in Seq(Windows)
    BY <2>2, ListsOfWindows
  <2>4. [root EXCEPT !.list = list] \in RootProperties
    BY <2>3 DEF DisplayTypeOK, RootProperties
  <2> QED
    BY <1>4, <2>2, <2>4, ChangeRootTypes DEF PublishList
<1>5. CASE ChangeLayout
  <2>1. PICK l \in Layouts :
          /\ Spontaneous("layout")
          /\ WithDesktops(l.nr, [root EXCEPT !.layout = l.layout])
          /\ Announce("property")
          /\ UNCHANGED <<own, requests, sent, inputs, held>>
    BY <1>5 DEF ChangeLayout
  <2>2. l.nr \in Nat /\ l.layout \in [c : Nat, r : Nat]
    BY WindowManagerAssumption
  <2>3. [root EXCEPT !.layout = l.layout] \in RootProperties
    BY <2>2 DEF DisplayTypeOK, RootProperties
  <2>4. root' \in RootProperties /\ clients' \in [Windows -> Client \cup {NoClient}]
    BY <2>1, <2>2, <2>3, WithDesktopsTypes
  <2> QED
    BY <2>1, <2>4 DEF DisplayTypeOK, Spontaneous, Announce, Notification
<1>6. CASE Withdraw
  <2>1. [root EXCEPT !.present = FALSE] \in RootProperties
    BY DEF DisplayTypeOK, RootProperties
  <2> QED
    BY <1>6, <2>1 DEF Withdraw, DisplayTypeOK, Spontaneous, Announce, Notification
<1>7. CASE Return
  <2>1. [root EXCEPT !.present = TRUE] \in RootProperties
    BY DEF DisplayTypeOK, RootProperties
  <2> QED
    BY <1>7, <2>1 DEF Return, DisplayTypeOK, Announce, Notification
<1>8. CASE OpenWindow \/ CloseWindow \/ AlterWindow \/ MoveWindow
  <2>1. PICK kind \in {"open", "close", "alter", "move"}, w \in Windows,
             c \in Client \cup {NoClient} : ChangeClient(kind, w, c)
    BY <1>8, WindowManagerAssumption DEF OpenWindow, CloseWindow, AlterWindow, MoveWindow
  <2>2. /\ clients' \in [Windows -> Client \cup {NoClient}]
        /\ changes' \in Nat
        /\ UNCHANGED <<root, own, requests, sent, inputs, held>>
    BY <2>1, ChangeClientTypes
  <2>3. notify' \subseteq Notification
    BY <1>8 DEF OpenWindow, CloseWindow, AlterWindow, MoveWindow, Announce, DisplayTypeOK,
                Notification
  <2> QED
    BY <2>2, <2>3 DEF DisplayTypeOK
<1>9. CASE ResizeOwn
  <2>1. own' \in [x : Int, y : Int, w : Nat, h : Nat, strut : Strut]
    BY <1>9, WindowManagerAssumption DEF ResizeOwn, DisplayTypeOK
  <2> QED
    BY <1>9, <2>1 DEF ResizeOwn, DisplayTypeOK, Spontaneous, Announce, Notification
<1>10. CASE Damage
  BY <1>10 DEF Damage, DisplayTypeOK, Spontaneous, Announce, Notification
<1>11. CASE Refuse
  BY <1>11 DEF Refuse, DisplayTypeOK, Spontaneous
<1>12. CASE Grant
  <2>1. Head(requests) \in OwnRequest /\ requests' \in Seq(OwnRequest)
    BY <1>12 DEF Grant, DisplayTypeOK
  <2>2. UNCHANGED <<sent, inputs, held, changes>>
    BY <1>12 DEF Grant
  <2> DEFINE r == Head(requests)
  <2>3. CASE r.kind = "desktops" /\ UNCHANGED own
             /\ \/ UNCHANGED <<root, clients, notify>>
                \/ WithDesktops(Allowed(r.nr), root) /\ Announce("property")
    <3>1. Allowed(r.nr) \in Nat
      BY <2>1, <2>3, OwnRequestFields, WindowManagerAssumption DEF Allowed
    <3>2. root' \in RootProperties /\ clients' \in [Windows -> Client \cup {NoClient}]
      BY <2>1, <2>3, <3>1, WithDesktopsTypes DEF DisplayTypeOK
    <3> QED
      BY <2>1, <2>2, <2>3, <3>2 DEF DisplayTypeOK, Announce, Notification
  <2>4. ASSUME NEW new \in [x : Int, y : Int, w : Nat, h : Nat, strut : Strut],
               Configure(new)
        PROVE  DisplayTypeOK'
    BY <2>1, <2>2, <2>4 DEF DisplayTypeOK, Configure, Announce, Notification
  <2>5. CASE r.kind = "size" /\ Configure([own EXCEPT !.w = r.w, !.h = r.h])
    <3>1. [own EXCEPT !.w = r.w, !.h = r.h]
            \in [x : Int, y : Int, w : Nat, h : Nat, strut : Strut]
      BY <2>1, <2>5, OwnRequestFields DEF DisplayTypeOK
    <3> QED
      BY <2>2, <2>4, <2>5, <3>1
  <2>6. CASE r.kind = "position" /\ Configure([own EXCEPT !.x = r.x, !.y = r.y])
    <3>1. [own EXCEPT !.x = r.x, !.y = r.y]
            \in [x : Int, y : Int, w : Nat, h : Nat, strut : Strut]
      BY <2>1, <2>6, OwnRequestFields DEF DisplayTypeOK
    <3> QED
      BY <2>2, <2>4, <2>6, <3>1
  <2> QED
    BY <1>12, <2>2, <2>3, <2>5, <2>6 DEF Grant
<1>13. CASE Obey
  <2>1. Head(sent) \in UserRequest /\ sent' \in Seq(UserRequest)
    BY <1>13 DEF Obey, DisplayTypeOK
  <2>2. UNCHANGED <<own, requests, inputs, held, changes>>
    BY <1>13 DEF Obey
  <2> DEFINE r == Head(sent)
  <2>3. CASE UNCHANGED <<root, clients, notify>>
    BY <2>1, <2>2, <2>3 DEF DisplayTypeOK
  <2>4. CASE /\ r.kind \in {"current_desktop", "active_window"}
             /\ root' = IF r.kind = "current_desktop" THEN [root EXCEPT !.desk = r.desk]
                        ELSE [root EXCEPT !.active = r.window]
             /\ Announce("property")
             /\ UNCHANGED clients
    <3>1. root' \in RootProperties
      BY <2>1, <2>4, UserRequestFields DEF DisplayTypeOK, RootProperties
    <3> QED
      BY <2>1, <2>2, <2>4, <3>1 DEF DisplayTypeOK, Announce, Notification
  <2>5. CASE /\ Valid(r) /\ r.kind \in {"desktop", "unshade", "geometry"}
             /\ clients' = [clients EXCEPT ![r.window] = Changed(r)]
             /\ IF r.kind = "geometry" THEN Announce("configure") ELSE UNCHANGED notify
             /\ UNCHANGED root
    <3>1. r.window \in Windows /\ clients[r.window] \in Client
      BY <2>1, <2>5, UserRequestFields DEF DisplayTypeOK, Valid
    <3>2. Changed(r) \in Client
      BY <2>1, <2>5, <3>1, UserRequestFields DEF Changed, Client
    <3>3. clients' \in [Windows -> Client \cup {NoClient}]
      BY <2>5, <3>2 DEF DisplayTypeOK
    <3> QED
      BY <2>1, <2>2, <2>5, <3>3 DEF DisplayTypeOK, Announce, Notification
  <2> QED
    BY <1>13, <2>2, <2>3, <2>4, <2>5 DEF Obey
<1>14. CASE UserInput
  BY <1>14 DEF UserInput, DisplayTypeOK
<1> QED
  BY <1>1, <1>2, <1>3, <1>4, <1>5, <1>6, <1>7, <1>8, <1>9, <1>10, <1>11, <1>12, <1>13, <1>14
  DEF WindowManagerNext, Answer


-----------------------------------------------------------------------------
(* The functions of Geometry and DesktopLayout on typed arguments *)

LEMMA CalcSizeTypes ==
    ASSUME NEW cols \in Nat \ {0}, NEW rows \in Nat \ {0}
    PROVE  calc_w_h(cols, rows) \in [w : Nat, h : Nat]
<1> DEFINE a == root_h * rows
           b == gw * a
           d == root_w * cols
<1>1. a \in Nat /\ d \in Nat \ {0}
  BY GeometryAssumption, ProductTypes
<1>2. b \in Nat
  <2> HIDE DEF a
  <2> QED
    BY <1>1, GeometryAssumption, ProductTypes
<1>3. calc_w_h(cols, rows) = [w |-> gw, h |-> IF gh = 0 THEN b \div d ELSE gh]
  BY DEF calc_w_h
<1> HIDE DEF b, d
<1>4. b \div d \in Nat
  BY <1>1, <1>2, QuotientType
<1> QED
  BY <1>3, <1>4, GeometryAssumption

LEMMA ConfiguredTypes ==
    ASSUME NEW g \in PagerGeometry, NEW size, size.w \in Nat, size.h \in Nat
    PROVE  Configured(g, size) \in PagerGeometry
<1> DEFINE desk == desk_size(g.cols, g.rows, size.w, size.h)
           pos  == calc_x_y(size.w, size.h)
<1>1. desk.w \in Nat /\ desk.h \in Nat
  BY DeskSizeNat DEF PagerGeometry
<1>2. pos.x \in Int /\ pos.y \in Int
  BY GeometryAssumption DEF calc_x_y
<1>3. Configured(g, size) = [g EXCEPT !.w = size.w, !.h = size.h, !.x = pos.x, !.y = pos.y,
                               !.desk_w = desk.w, !.desk_h = desk.h, !.attached = TRUE]
  BY DEF Configured
<1> HIDE DEF desk, pos
<1> QED
  BY <1>1, <1>2, <1>3 DEF PagerGeometry

LEMMA StrutTypes ==
    ASSUME NEW g \in PagerGeometry, NEW old \in Strut
    PROVE  update_strut(g, old) \in Strut
BY DEF update_strut, Strut, PagerGeometry

LEMMA GridReadTypes ==
    ASSUME TypeOK
    PROVE  GridRead \in [c : Nat \ {0}, r : Nat \ {0}]
<1>1. GridNow \in [c : Nat \ {0}, r : Nat \ {0}]
  BY DEF TypeOK, GridNow, PagerGeometry
<1>2. HasLayout => Grid(root.nr, root.layout) \in [c : Nat \ {0}, r : Nat \ {0}]
  BY GridTypes DEF HasLayout, TypeOK, DisplayTypeOK, RootProperties
<1> QED
  BY <1>1, <1>2 DEF GridRead

\* Where the pointer is, in root coordinates.
LEMMA CoordsTypes ==
    ASSUME NEW g \in PagerGeometry, ~ NoCells(g), NEW p \in Int \X Int
    PROVE  coords_to_root(g, p) \in [rx : Int, ry : Int, desk : Int]
<1> DEFINE col == CDiv(p[1], g.desk_w + 1)
           row == CDiv(p[2], g.desk_h + 1)
<1>1. g.desk_w \in Nat \ {0} /\ g.desk_h \in Nat \ {0} /\ g.cols \in Int
  BY DEF PagerGeometry, NoCells
<1>2. col \in Int /\ row \in Int
  <2>1. g.desk_w + 1 \in Nat \ {0} /\ g.desk_h + 1 \in Nat \ {0}
    BY <1>1
  <2>2. p[1] \in Int /\ p[2] \in Int
    OBVIOUS
  <2> QED
    BY <2>1, <2>2, CDivType
<1> HIDE DEF col, row
<1> DEFINE x == p[1] - col * (g.desk_w + 1)
           y == p[2] - row * (g.desk_h + 1)
<1>3. x \in Int /\ y \in Int
  BY <1>1, <1>2, IntegerProduct
<1> HIDE DEF x, y
<1> DEFINE u == x * root_w
           v == y * root_h
<1>4. u \in Int /\ v \in Int
  BY <1>3, GeometryAssumption, IntegerProduct
<1> HIDE DEF u, v
<1>6. CDiv(u, g.desk_w) \in Int /\ CDiv(v, g.desk_h) \in Int
  BY <1>1, <1>4, CDivType
<1>5. row * g.cols + col \in Int
  BY <1>1, <1>2
<1>7. coords_to_root(g, p) = [rx |-> CDiv(u, g.desk_w), ry |-> CDiv(v, g.desk_h),
                              desk |-> row * g.cols + col]
  BY DEF coords_to_root, col, row, x, y, u, v
<1> QED
  BY <1>5, <1>6, <1>7

\* The search for a remembered window finds it or nothing.
LEMMA GetWindowIndexFinds ==
    ASSUME windows \in Seq(ClientWindow), NEW window
    PROVE  /\ get_window_index(window) \in 0 .. Len(windows)
           /\ get_window_index(window) # 0
                => windows[get_window_index(window)].window = window
<1> DEFINE I == {i \in 1 .. Len(windows) : windows[i].window = window}
<1>1. get_window_index(window) = IF I # {} THEN Min(I) ELSE 0
  BY DEF get_window_index, SelectInSeq
<1>2. Len(windows) \in Nat
  OBVIOUS
<1>3. CASE I = {}
  <2>1. get_window_index(window) = 0
    BY <1>1, <1>3
  <2> QED
    BY <2>1, <1>2
<1>4. CASE I # {}
  <2>1. Min(I) \in I
    <3>1. I \subseteq 1 .. Len(windows)
      OBVIOUS
    <3> HIDE DEF I
    <3> QED
      BY <1>2, <1>4, <3>1, MinMaxOfIndices
  <2>2. get_window_index(window) \in I
    BY <1>1, <1>4, <2>1
  <2> QED
    BY <2>2, <1>2
<1> QED
  BY <1>3, <1>4

-----------------------------------------------------------------------------
(* The inductive invariant: typed state, indices in bounds.  The typing of  *)
(* the window remembered for a refresh needs the bounds before it, and the  *)
(* bounds after a refresh need the remembered window to be typed.           *)

IInv == TypeOK /\ IndexInRange /\ ScanRemembers

LEMMA InitInv == Init => IInv
<1> SUFFICES ASSUME Init PROVE IInv
  OBVIOUS
<1>1. PICK l \in Layouts, wins \in SUBSET Windows :
        /\ l.nr > 0 /\ ~ properties_set_by_idiot(l.nr, l.layout)
        /\ \E list \in SetToSeqs(wins) :
              root = [present |-> TRUE, nr |-> l.nr, layout |-> l.layout, desk |-> 0,
                      active |-> NoWindow, showing |-> FALSE, list |-> list]
        /\ clients \in {f \in [Windows -> Clients \cup {NoClient}] :
                          \A w \in Windows : f[w] # NoClient <=> w \in wins}
        /\ geo = FirstGeometry(l.layout)
  BY DEF Init
<1>2. l.nr \in Nat /\ l.layout \in [c : Nat \ {0}, r : Nat \ {0}]
  BY <1>1, WindowManagerAssumption DEF properties_set_by_idiot
<1>3. root \in RootProperties
  <2>1. PICK list \in SetToSeqs(wins) :
          root = [present |-> TRUE, nr |-> l.nr, layout |-> l.layout, desk |-> 0,
                  active |-> NoWindow, showing |-> FALSE, list |-> list]
    BY <1>1
  <2>2. list \in Seq(Windows)
    BY <2>1, ListsOfWindows
  <2> QED
    BY <1>2, <2>1, <2>2 DEF RootProperties
<1>4. clients \in [Windows -> Client \cup {NoClient}]
  BY <1>1, WindowManagerAssumption
<1>5. geo \in PagerGeometry
  <2> DEFINE size == calc_w_h(l.layout.c, l.layout.r)
             g == [cols |-> l.layout.c, rows |-> l.layout.r, w |-> size.w, h |-> size.h,
                   x |-> 0, y |-> 0, desk_w |-> 0, desk_h |-> 0, attached |-> FALSE]
  <2>1. size \in [w : Nat, h : Nat]
    BY <1>2, CalcSizeTypes
  <2>2. geo = Configured(g, size)
    BY <1>1 DEF FirstGeometry
  <2> HIDE DEF size
  <2>3. g \in PagerGeometry
    BY <1>2, <2>1 DEF PagerGeometry
  <2> HIDE DEF g
  <2> QED
    BY <2>1, <2>2, <2>3, ConfiguredTypes
<1>6. own \in [x : Int, y : Int, w : Nat, h : Nat, strut : Strut]
  <2>1. NoStrut \in Strut
    BY DEF NoStrut, Strut
  <2>2. update_strut(geo, NoStrut) \in Strut
    BY <1>5, <2>1, StrutTypes
  <2>3. own = [x |-> geo.x, y |-> geo.y, w |-> geo.w, h |-> geo.h,
               strut |-> update_strut(geo, NoStrut)]
    BY DEF Init
  <2> QED
    BY <1>5, <2>2, <2>3 DEF PagerGeometry
<1>7. DisplayTypeOK /\ held \subseteq Buttons
  BY <1>3, <1>4, <1>6, WindowManagerAssumption DEF Init, DisplayTypeOK, Notification
<1>8. TypeOK
  BY <1>5, <1>7 DEF Init, TypeOK, NoScan
<1> QED
  BY <1>8 DEF Init, IInv, IndexInRange, ScanRemembers

\* The window at an index in bounds.
LEMMA WindowAtTypes ==
    ASSUME windows \in Seq(ClientWindow), NEW idx \in Nat, idx <= Len(windows)
    PROVE  /\ WindowAt(idx) \in Windows \cup {NoWindow}
           /\ idx = 0 <=> WindowAt(idx) = NoWindow
<1>1. idx # 0 => windows[idx] \in ClientWindow
  OBVIOUS
<1> QED
  BY <1>1, WindowManagerAssumption DEF WindowAt, ClientWindow

\* Handling nothing.
LEMMA SkipInv ==
    ASSUME IInv, NEW from, NEW flag, NEW to \in {"layout", "update", "popup", "next"},
           from # "scan", Skip(from, flag, to)
    PROVE  IInv'
<1>1. /\ UNCHANGED display
      /\ UNCHANGED <<scan, windows, active, geo, mouse, popup, needs>>
      /\ pc # "scan" /\ pc' = to
  BY DEF Skip
<1>2. DisplayTypeOK' /\ held' = held
  BY <1>1 DEF IInv, TypeOK, DisplayTypeOK, display
<1>3. TypeOK'
  BY <1>1, <1>2 DEF IInv, TypeOK
<1> QED
  BY <1>1, <1>3 DEF IInv, IndexInRange, ScanRemembers

LEMMA ConfigureInv == IInv /\ pager_configure => IInv'
<1> SUFFICES ASSUME IInv, pager_configure PROVE IInv'
  OBVIOUS
<1>1. geo' \in PagerGeometry
  BY ConfiguredTypes DEF IInv, TypeOK, DisplayTypeOK, pager_configure
<1>2. own' \in [x : Int, y : Int, w : Nat, h : Nat, strut : Strut]
  <2>1. update_strut(geo', own.strut) \in Strut
    BY <1>1, StrutTypes DEF IInv, TypeOK, DisplayTypeOK
  <2> QED
    BY <2>1 DEF IInv, TypeOK, DisplayTypeOK, pager_configure
<1>3. requests' \in Seq(OwnRequest)
  <2>1. set_own_position(geo'.x, geo'.y) \in OwnRequest
    BY <1>1 DEF set_own_position, OwnRequest, PagerGeometry
  <2> QED
    BY <2>1 DEF IInv, TypeOK, DisplayTypeOK, pager_configure
<1>4. DisplayTypeOK'
  BY <1>2, <1>3 DEF IInv, TypeOK, DisplayTypeOK, pager_configure
<1>5. TypeOK'
  BY <1>1, <1>4 DEF IInv, TypeOK, pager_configure
<1> QED
  BY <1>5 DEF IInv, IndexInRange, ScanRemembers, pager_configure

\* Overruling properties that disagree keeps the types of what it writes.
LEMMA OverruleTypes ==
    ASSUME TypeOK, x_set_desktop_layout
    PROVE  root' \in RootProperties /\ notify' \subseteq Notification
<1>1. root \in RootProperties /\ notify \subseteq Notification
  BY DEF TypeOK, DisplayTypeOK
<1>2. GridRead \in [c : Nat \ {0}, r : Nat \ {0}]
  BY GridReadTypes
<1>3. [root EXCEPT !.layout = GridRead] \in RootProperties
  BY <1>1, <1>2 DEF RootProperties
<1>4. \/ root' = [root EXCEPT !.layout = GridRead] /\ notify' = notify \cup {"property"}
      \/ UNCHANGED <<root, notify>>
  BY DEF x_set_desktop_layout, Announce
<1> QED
  BY <1>1, <1>3, <1>4 DEF Notification

LEMMA DesktopsRequestTypes ==
    ASSUME TypeOK
    PROVE  DesktopsRequest \in Seq(OwnRequest)
<1>1. GridRead \in [c : Nat \ {0}, r : Nat \ {0}]
  BY GridReadTypes
<1>2. GridRead.c * GridRead.r \in Nat
  BY <1>1, ProductTypes
<1>3. [kind |-> "desktops", nr |-> GridRead.c * GridRead.r] \in OwnRequest
  BY <1>2 DEF OwnRequest
<1> QED
  BY <1>3 DEF DesktopsRequest

LEMMA LayoutInv == IInv /\ update_desktop_count => IInv'
<1> SUFFICES ASSUME IInv, update_desktop_count PROVE IInv'
  OBVIOUS
<1>1. ReadLayout
  BY DEF update_desktop_count, KeepGrid, ChangeGrid, NoRoomForGrid
<1>2. GridRead \in [c : Nat \ {0}, r : Nat \ {0}]
  BY GridReadTypes DEF IInv
<1>3. root' \in RootProperties /\ notify' \subseteq Notification
  BY <1>1, OverruleTypes DEF ReadLayout, IInv
<1>4. Relaid \in PagerGeometry
  <2>1. calc_w_h(GridRead.c, GridRead.r) \in [w : Nat, h : Nat]
    BY <1>2, CalcSizeTypes
  <2> QED
    BY <1>2, <2>1 DEF Relaid, IInv, TypeOK, PagerGeometry
<1>5. requests' \in Seq(OwnRequest)
  <2>1. DesktopsRequest \in Seq(OwnRequest)
    BY DesktopsRequestTypes DEF IInv
  <2>2. <<set_own_size(Relaid.w, Relaid.h)>> \in Seq(OwnRequest)
    BY <1>4 DEF set_own_size, OwnRequest, PagerGeometry
  <2>3. requests \in Seq(OwnRequest)
    BY DEF IInv, TypeOK, DisplayTypeOK
  <2> DEFINE A == DesktopsRequest
             B == <<set_own_size(Relaid.w, Relaid.h)>>
  <2>4. requests' = requests \o A \/ requests' = requests \o A \o B
    BY DEF update_desktop_count, KeepGrid, ChangeGrid, NoRoomForGrid
  <2> HIDE DEF A, B
  <2>5. requests \o A \in Seq(OwnRequest)
    BY <2>1, <2>3 DEF A
  <2>6. requests \o A \o B \in Seq(OwnRequest)
    BY <2>2, <2>5 DEF B
  <2> QED
    BY <2>4, <2>5, <2>6
<1>6. DisplayTypeOK'
  BY <1>1, <1>3, <1>5 DEF ReadLayout, IInv, TypeOK, DisplayTypeOK
<1>7. geo' \in PagerGeometry /\ pc' \in {"list", "dead"}
      /\ needs' \in [configure : BOOLEAN, update : BOOLEAN, properties : BOOLEAN,
                     popup : BOOLEAN]
  BY <1>4 DEF update_desktop_count, KeepGrid, ChangeGrid, NoRoomForGrid, IInv, TypeOK
<1>8. TypeOK'
  BY <1>1, <1>6, <1>7 DEF ReadLayout, IInv, TypeOK
<1> QED
  BY <1>1, <1>7, <1>8 DEF ReadLayout, IInv, IndexInRange, ScanRemembers

LEMMA ListMissingInv == IInv /\ ClientListMissing => IInv'
<1> SUFFICES ASSUME IInv, ClientListMissing PROVE IInv'
  OBVIOUS
<1>1. DisplayTypeOK' /\ held' = held
  BY DEF IInv, TypeOK, DisplayTypeOK, display, ClientListMissing
<1>2. TypeOK'
  BY <1>1 DEF IInv, TypeOK, ClientListMissing
<1> QED
  BY <1>2 DEF IInv, IndexInRange, ScanRemembers, ClientListMissing

LEMMA FetchInv == IInv /\ FetchClientList => IInv'
<1> SUFFICES ASSUME IInv, FetchClientList PROVE IInv'
  OBVIOUS
<1>1. /\ mouse.idx \in Nat /\ mouse.idx <= Len(windows)
      /\ popup.idx \in Nat /\ popup.idx <= Len(windows)
      /\ windows \in Seq(ClientWindow)
  BY DEF IInv, TypeOK, IndexInRange, FetchClientList
<1>2. /\ WindowAt(mouse.idx) \in Windows \cup {NoWindow}
      /\ mouse.idx = 0 <=> WindowAt(mouse.idx) = NoWindow
      /\ WindowAt(popup.idx) \in Windows \cup {NoWindow}
      /\ popup.idx = 0 <=> WindowAt(popup.idx) = NoWindow
  BY <1>1, WindowAtTypes
<1>3. scan' = [todo |-> root.list, move |-> WindowAt(mouse.idx), popup |-> WindowAt(popup.idx)]
  BY DEF FetchClientList, x_get_client_list
<1>4. root.list \in Seq(Windows)
  BY DEF IInv, TypeOK, DisplayTypeOK, RootProperties
<1>5. TypeOK'
  <2>1. scan' \in [todo : Seq(Windows), move : Windows \cup {NoWindow},
                   popup : Windows \cup {NoWindow}]
    BY <1>2, <1>3, <1>4
  <2>2. DisplayTypeOK' /\ held' \subseteq Buttons
    BY DEF FetchClientList, IInv, TypeOK, DisplayTypeOK, display
  <2>3. needs' \in [configure : BOOLEAN, update : BOOLEAN, properties : BOOLEAN,
                    popup : BOOLEAN]
    BY DEF FetchClientList, IInv, TypeOK
  <2>4. windows' \in Seq(ClientWindow)
    BY DEF FetchClientList
  <2> QED
    BY <2>1, <2>2, <2>3, <2>4 DEF FetchClientList, IInv, TypeOK
<1> QED
  BY <1>2, <1>3, <1>5 DEF FetchClientList, IInv, IndexInRange, ScanRemembers

LEMMA ScanInv == IInv /\ ScanWindow => IInv'
<1> SUFFICES ASSUME IInv, ScanWindow PROVE IInv'
  OBVIOUS
<1> DEFINE w == Head(scan.todo)
<1>1. w \in Windows /\ Tail(scan.todo) \in Seq(Windows)
  BY DEF IInv, TypeOK, ScanWindow
<1>2. windows' \in Seq(ClientWindow)
  <2>1. ~ Unreadable(w) => [window |-> w, client |-> clients[w]] \in ClientWindow
    BY <1>1 DEF Unreadable, IInv, TypeOK, DisplayTypeOK, ClientWindow
  <2>2. windows \in Seq(ClientWindow)
    BY DEF IInv, TypeOK
  <2> QED
    BY <2>1, <2>2 DEF ScanWindow
<1>3. scan' = [scan EXCEPT !.todo = Tail(scan.todo)]
  BY DEF ScanWindow
<1>4. TypeOK'
  BY <1>1, <1>2, <1>3 DEF ScanWindow, IInv, TypeOK, DisplayTypeOK, display
<1> QED
  BY <1>3, <1>4 DEF ScanWindow, IInv, TypeOK, IndexInRange, ScanRemembers

\* After a refresh an index is that of the remembered window, or none.
LEMMA RemappedTypes ==
    ASSUME windows \in Seq(ClientWindow), NEW idx \in Nat, NEW window,
           idx = 0 <=> window = NoWindow
    PROVE  /\ Remapped(idx, window) \in 0 .. Len(windows)
           /\ Remapped(idx, window) # 0
                => window # NoWindow /\ windows[Remapped(idx, window)].window = window
<1>1. Len(windows) \in Nat
  OBVIOUS
<1> QED
  BY <1>1, GetWindowIndexFinds DEF Remapped

LEMMA FinishInv == IInv /\ FinishScan => IInv'
<1> SUFFICES ASSUME IInv, FinishScan PROVE IInv'
  OBVIOUS
<1>1. /\ mouse.idx \in Nat /\ popup.idx \in Nat /\ windows \in Seq(ClientWindow)
      /\ mouse.idx = 0 <=> scan.move = NoWindow
      /\ popup.idx = 0 <=> scan.popup = NoWindow
  BY DEF IInv, TypeOK, ScanRemembers, FinishScan
<1>2. /\ Remapped(mouse.idx, scan.move) \in 0 .. Len(windows)
      /\ Remapped(popup.idx, scan.popup) \in 0 .. Len(windows)
  BY <1>1, RemappedTypes
<1>3. /\ mouse' = [mouse EXCEPT !.idx = Remapped(mouse.idx, scan.move)]
      /\ popup' = [popup EXCEPT !.idx = Remapped(popup.idx, scan.popup)]
      /\ windows' = windows /\ pc' = "update"
  BY DEF FinishScan
<1>4. active' \in [desk : Int, win : Windows \cup {NoWindow}]
  BY DEF FinishScan, ActiveNow, IInv, TypeOK, DisplayTypeOK, RootProperties
<1>5. NoScan \in [todo : Seq(Windows), move : Windows \cup {NoWindow},
                   popup : Windows \cup {NoWindow}]
  BY DEF NoScan
<1>6. TypeOK'
  <2>0. Remapped(mouse.idx, scan.move) \in Nat /\ Remapped(popup.idx, scan.popup) \in Nat
    BY <1>2
  <2>1. mouse' \in [idx : Nat, window_x : Int, window_y : Int, button : Nat,
                    click : Int \X Int, dragging : BOOLEAN]
    <3>1. mouse \in [idx : Nat, window_x : Int, window_y : Int, button : Nat,
                     click : Int \X Int, dragging : BOOLEAN]
      BY DEF IInv, TypeOK
    <3> QED
      BY <2>0, <1>3, <3>1
  <2>2. popup' \in [idx : Nat, visible : BOOLEAN, shown : Windows \cup {NoWindow}]
    <3>1. popup \in [idx : Nat, visible : BOOLEAN, shown : Windows \cup {NoWindow}]
      BY DEF IInv, TypeOK
    <3> QED
      BY <2>0, <1>3, <3>1
  <2>3. DisplayTypeOK' /\ held' \subseteq Buttons
    BY DEF FinishScan, IInv, TypeOK, DisplayTypeOK, display
  <2> QED
    BY <1>3, <1>4, <1>5, <2>1, <2>2, <2>3 DEF FinishScan, IInv, TypeOK
<1> QED
  BY <1>2, <1>3, <1>6 DEF IInv, TypeOK, IndexInRange, ScanRemembers

LEMMA UpdateInv == IInv /\ pager_update => IInv'
<1> SUFFICES ASSUME IInv, pager_update PROVE IInv'
  OBVIOUS
<1>1. DisplayTypeOK' /\ held' = held
  BY DEF IInv, TypeOK, DisplayTypeOK, display, pager_update
<1>2. TypeOK'
  BY <1>1 DEF IInv, TypeOK, pager_update
<1> QED
  BY <1>2 DEF IInv, IndexInRange, ScanRemembers, pager_update

LEMMA PopupInv == IInv /\ pager_update_popup => IInv'
<1> SUFFICES ASSUME IInv, pager_update_popup PROVE IInv'
  OBVIOUS
<1>1. popup' \in [idx : Nat, visible : BOOLEAN, shown : Windows \cup {NoWindow}]
      /\ popup'.idx = popup.idx
  <2>1. popup.idx # 0 => windows[popup.idx] \in ClientWindow
    BY DEF IInv, TypeOK, IndexInRange, pager_update_popup
  <2> QED
    BY <2>1 DEF IInv, TypeOK, ClientWindow, pager_update_popup
<1>2. DisplayTypeOK' /\ held' = held
  BY DEF IInv, TypeOK, DisplayTypeOK, display, pager_update_popup
<1>3. TypeOK'
  BY <1>1, <1>2 DEF pager_update_popup, IInv, TypeOK
<1> QED
  BY <1>1, <1>3 DEF pager_update_popup, IInv, IndexInRange, ScanRemembers

LEMMA HandleEventsInv == IInv /\ pager_handle_events => IInv'
<1> SUFFICES ASSUME IInv, pager_handle_events PROVE IInv'
  OBVIOUS
<1>1. CASE Skip("configure", needs.configure, "layout")
  BY <1>1, SkipInv
<1>2. CASE Skip("layout", needs.properties, "update")
  BY <1>2, SkipInv
<1>3. CASE Skip("update", needs.update, "popup")
  BY <1>3, SkipInv
<1>4. CASE Skip("popup", needs.popup, "next")
  BY <1>4, SkipInv
<1> QED
  BY <1>1, <1>2, <1>3, <1>4, ConfigureInv, LayoutInv, ListMissingInv, FetchInv, ScanInv,
     FinishInv, UpdateInv, PopupInv
  DEF pager_handle_events

-----------------------------------------------------------------------------
(* The event handlers *)

\* Taking a user event keeps the display typed if the handler's requests are.
LEMMA TakeInputTypes ==
    ASSUME TypeOK, NEW reqs \in Seq(UserRequest), TakeInput(reqs),
           notify' \subseteq Notification
    PROVE  DisplayTypeOK'
<1>1. inputs' \in Nat
  BY DEF TypeOK, DisplayTypeOK, TakeInput
<1>2. sent' \in Seq(UserRequest)
  BY DEF TypeOK, DisplayTypeOK, TakeInput, Sent
<1> QED
  BY <1>1, <1>2 DEF TypeOK, DisplayTypeOK, TakeInput

\* The handler's part of the state.
LEMMA HandlerInv ==
    ASSUME IInv, NEW reqs \in Seq(UserRequest), TakeInput(reqs),
           notify' \subseteq Notification, held' \subseteq Buttons,
           windows' \in Seq(ClientWindow), Len(windows') = Len(windows),
           mouse' \in [idx : Nat, window_x : Int, window_y : Int, button : Nat,
                       click : Int \X Int, dragging : BOOLEAN],
           popup' \in [idx : Nat, visible : BOOLEAN, shown : Windows \cup {NoWindow}],
           needs' \in [configure : BOOLEAN, update : BOOLEAN, properties : BOOLEAN,
                       popup : BOOLEAN],
           mouse'.idx <= Len(windows), popup'.idx <= Len(windows),
           pc' \in {"next", "configure", "dead"}
    PROVE  IInv'
<1>1. DisplayTypeOK'
  BY TakeInputTypes DEF IInv
<1>2. UNCHANGED <<scan, active, geo>>
  BY DEF TakeInput
<1>3. TypeOK'
  BY <1>1, <1>2 DEF IInv, TypeOK
<1> QED
  BY <1>3 DEF IInv, IndexInRange, ScanRemembers

LEMMA NotificationInv == IInv /\ HandleNotification => IInv'
<1> SUFFICES ASSUME IInv, HandleNotification PROVE IInv'
  OBVIOUS
<1>1. PICK kind \in notify : notify' = notify \ {kind} /\ needs' = Flags(kind)
  BY DEF HandleNotification
<1>2. needs' \in [configure : BOOLEAN, update : BOOLEAN, properties : BOOLEAN,
                  popup : BOOLEAN]
  BY <1>1 DEF Flags, Notification, IInv, TypeOK, DisplayTypeOK
<1>3. DisplayTypeOK'
  BY <1>1 DEF HandleNotification, IInv, TypeOK, DisplayTypeOK
<1>4. pc' \in {"next", "configure"}
  BY DEF HandleNotification, AfterEvent
<1>5. TypeOK'
  BY <1>2, <1>3, <1>4 DEF HandleNotification, IInv, TypeOK
<1> QED
  BY <1>4, <1>5 DEF HandleNotification, IInv, IndexInRange, ScanRemembers

\* A press of any button, over a window, the background or nothing at all.
LEMMA PressInv == IInv /\ pager_button_press => IInv'
<1> SUFFICES ASSUME IInv, pager_button_press PROVE IInv'
  OBVIOUS
<1> DEFINE at(p)  == coords_to_root(geo, p)
           idx(p) == get_window_idx(windows, geo, at(p))
<1>1. PICK b \in Buttons, p \in Points :
        /\ Press(b, p) /\ TakeInput(<<>>)
        /\ StartsGesture(b) => ~ NoCells(geo)
        /\ held' = held \cup {b}
        /\ popup' = popup_hide
        /\ mouse' = IF ~ StartsGesture(b) THEN mouse
                    ELSE IF idx(p) = 0
                    THEN [mouse EXCEPT !.button = b, !.dragging = FALSE,
                                       !.click = p, !.idx = 0]
                    ELSE [idx |-> idx(p), button |-> b, dragging |-> FALSE, click |-> p,
                          window_x |-> at(p).rx - windows[idx(p)].client.x,
                          window_y |-> at(p).ry - windows[idx(p)].client.y]
        /\ UNCHANGED <<windows, notify, needs>>
        /\ AfterEvent
  BY DEF pager_button_press
<1>2. b \in Nat /\ p \in Int \X Int
  BY PagerAssumption
<1>3. /\ mouse \in [idx : Nat, window_x : Int, window_y : Int, button : Nat,
                    click : Int \X Int, dragging : BOOLEAN]
      /\ mouse.idx <= Len(windows) /\ popup.idx <= Len(windows)
      /\ popup \in [idx : Nat, visible : BOOLEAN, shown : Windows \cup {NoWindow}]
      /\ windows \in Seq(ClientWindow) /\ geo \in PagerGeometry
  BY <1>1 DEF IInv, TypeOK, IndexInRange, TakeInput
<1>4. mouse' \in [idx : Nat, window_x : Int, window_y : Int, button : Nat,
                  click : Int \X Int, dragging : BOOLEAN] /\ mouse'.idx <= Len(windows)
  <2>1. CASE ~ StartsGesture(b)
    BY <1>1, <1>3, <2>1
  <2>2. CASE StartsGesture(b) /\ idx(p) = 0
    <3>1. mouse' = [mouse EXCEPT !.button = b, !.dragging = FALSE, !.click = p, !.idx = 0]
      BY <1>1, <2>2
    <3>2. /\ mouse'.idx = 0 /\ mouse'.button = b /\ mouse'.dragging = FALSE
          /\ mouse'.click = p /\ mouse'.window_x = mouse.window_x
          /\ mouse'.window_y = mouse.window_y
      BY <1>3, <3>1
    <3>3. mouse' \in [idx : Nat, window_x : Int, window_y : Int, button : Nat,
                      click : Int \X Int, dragging : BOOLEAN]
      <4> HIDE DEF idx, at
      <4> QED
        BY <1>2, <1>3, <3>1
    <3> QED
      BY <1>3, <3>2, <3>3
  <2>3. CASE StartsGesture(b) /\ idx(p) # 0
    <3>1. at(p).rx \in Int /\ at(p).ry \in Int
      BY <1>1, <1>2, <1>3, <2>3, CoordsTypes
    <3>2. idx(p) \in 0 .. Len(windows)
      BY <1>3, GetWindowIdxInRange
    <3>3. mouse' = [idx |-> idx(p), button |-> b, dragging |-> FALSE, click |-> p,
                    window_x |-> at(p).rx - windows[idx(p)].client.x,
                    window_y |-> at(p).ry - windows[idx(p)].client.y]
      BY <1>1, <2>3
    <3> HIDE DEF idx, at
    <3>4. windows[idx(p)] \in ClientWindow
      BY <1>3, <2>3, <3>2
    <3>5. windows[idx(p)].client.x \in Int /\ windows[idx(p)].client.y \in Int
      BY <3>4 DEF ClientWindow, Client
    <3>6. /\ at(p).rx - windows[idx(p)].client.x \in Int
          /\ at(p).ry - windows[idx(p)].client.y \in Int
      BY <3>1, <3>5
    <3>7. idx(p) \in Nat /\ idx(p) <= Len(windows)
      BY <1>3, <3>2
    <3> QED
      BY <1>2, <3>3, <3>6, <3>7
  <2> QED
    BY <2>1, <2>2, <2>3
<1>5. popup' \in [idx : Nat, visible : BOOLEAN, shown : Windows \cup {NoWindow}]
      /\ popup'.idx <= Len(windows)
  BY <1>1, <1>3 DEF popup_hide
<1>6. /\ notify' \subseteq Notification /\ held' \subseteq Buttons
      /\ windows' \in Seq(ClientWindow) /\ Len(windows') = Len(windows)
      /\ needs' \in [configure : BOOLEAN, update : BOOLEAN, properties : BOOLEAN,
                     popup : BOOLEAN]
      /\ pc' \in {"next", "configure", "dead"}
  <2>1. UNCHANGED <<windows, notify, needs>> /\ held' = held \cup {b} /\ AfterEvent
    BY <1>1
  <2> QED
    BY <2>1 DEF IInv, TypeOK, DisplayTypeOK, AfterEvent
<1>7. TakeInput(<<>>)
  BY <1>1
<1>8. <<>> \in Seq(UserRequest)
  OBVIOUS
<1> QED
  BY <1>4, <1>5, <1>6, <1>7, <1>8, HandlerInv

\* A release sends what the window manager accepts.
LEMMA ReleaseRequestTypes ==
    ASSUME IInv, pc # "scan", NEW b, NEW desk \in Int
    PROVE  ReleaseRequests(b, desk) \in Seq(UserRequest)
<1>1. x_set_current_desktop(desk) \in UserRequest
  BY DEF x_set_current_desktop, UserRequest
<1>2. mouse.idx # 0 => windows[mouse.idx] \in ClientWindow
  BY DEF IInv, TypeOK, IndexInRange
<1>3. mouse.idx # 0 => x_set_active_window(windows[mouse.idx].window) \in UserRequest
  BY <1>2 DEF x_set_active_window, UserRequest, ClientWindow
<1> QED
  BY <1>1, <1>3 DEF ReleaseRequests, IInv, TypeOK

LEMMA ReleaseInv == IInv /\ pager_button_release => IInv'
<1> SUFFICES ASSUME IInv, pager_button_release PROVE IInv'
  OBVIOUS
<1> DEFINE reqs(b, p) == IF mouse.button = b
                         THEN ReleaseRequests(b, coords_to_root(geo, p).desk) ELSE <<>>
<1>1. PICK b \in held, p \in Points :
        /\ mouse.button = b => ~ NoCells(geo)
        /\ TakeInput(reqs(b, p))
        /\ held' = held \ {b}
        /\ mouse' = IF mouse.button # b THEN mouse ELSE Released
        /\ UNCHANGED <<windows, notify, popup, needs>>
        /\ AfterEvent
  BY DEF pager_button_release
<1>2. pc = "next"
  BY <1>1 DEF TakeInput
<1>3. reqs(b, p) \in Seq(UserRequest)
  <2>1. CASE mouse.button = b
    <3>1. coords_to_root(geo, p) \in [rx : Int, ry : Int, desk : Int]
      BY <1>1, <2>1, PagerAssumption, CoordsTypes DEF IInv, TypeOK
    <3> QED
      BY <1>2, <2>1, <3>1, ReleaseRequestTypes
  <2>2. CASE mouse.button # b
    BY <2>2
  <2> QED
    BY <2>1, <2>2
<1>4. mouse' \in [idx : Nat, window_x : Int, window_y : Int, button : Nat,
                  click : Int \X Int, dragging : BOOLEAN] /\ mouse'.idx <= Len(windows)
  <2>1. mouse \in [idx : Nat, window_x : Int, window_y : Int, button : Nat,
                   click : Int \X Int, dragging : BOOLEAN] /\ mouse.idx <= Len(windows)
        /\ Len(windows) \in Nat
    BY <1>2 DEF IInv, TypeOK, IndexInRange
  <2>2. CASE mouse.button = b
    <3>1. mouse' = [mouse EXCEPT !.idx = 0, !.button = 0, !.dragging = FALSE]
      BY <1>1, <2>2 DEF Released
    <3>2. mouse'.idx = 0
      BY <2>1, <3>1
    <3>3. mouse' \in [idx : Nat, window_x : Int, window_y : Int, button : Nat,
                      click : Int \X Int, dragging : BOOLEAN]
      BY <2>1, <3>1
    <3> QED
      BY <2>1, <3>2, <3>3
  <2>3. CASE mouse.button # b
    <3>1. mouse' = mouse
      BY <1>1, <2>3
    <3> QED
      BY <2>1, <3>1
  <2> QED
    BY <2>2, <2>3
<1>5. popup' = popup /\ popup'.idx <= Len(windows)
  BY <1>1, <1>2 DEF IInv, IndexInRange
<1> HIDE DEF reqs
<1>6. /\ notify' \subseteq Notification /\ held' \subseteq Buttons
      /\ windows' \in Seq(ClientWindow) /\ Len(windows') = Len(windows)
      /\ popup' \in [idx : Nat, visible : BOOLEAN, shown : Windows \cup {NoWindow}]
      /\ needs' \in [configure : BOOLEAN, update : BOOLEAN, properties : BOOLEAN,
                     popup : BOOLEAN]
      /\ pc' \in {"next", "configure", "dead"}
  BY <1>1, <1>5 DEF IInv, TypeOK, DisplayTypeOK, AfterEvent
<1> QED
  BY <1>1, <1>3, <1>4, <1>5, <1>6, HandlerInv

\* The popup comes up, goes or stays; the window under the pointer is one of
\* windows[].
LEMMA HoverInv == IInv /\ Hover => IInv'
<1> SUFFICES ASSUME IInv, Hover PROVE IInv'
  OBVIOUS
<1> DEFINE idx(p) == get_window_idx(windows, geo, coords_to_root(geo, p))
<1>1. PICK p \in Points :
        /\ TakeInput(<<>>)
        /\ \/ popup' = popup_hide /\ UNCHANGED <<notify, needs>>
           \/ UNCHANGED <<popup, notify, needs>>
           \/ /\ popup' = popup_show(idx(p))
              /\ \/ /\ \E kinds \in PopupEvents : notify' = notify \cup kinds
                    /\ needs' = [needs EXCEPT !.popup = FALSE]
                 \/ UNCHANGED <<notify, needs>>
        /\ UNCHANGED <<windows, held, mouse>>
        /\ AfterEvent
  BY DEF Hover
<1>2. /\ mouse.idx <= Len(windows) /\ popup.idx <= Len(windows)
      /\ mouse \in [idx : Nat, window_x : Int, window_y : Int, button : Nat,
                    click : Int \X Int, dragging : BOOLEAN]
      /\ popup \in [idx : Nat, visible : BOOLEAN, shown : Windows \cup {NoWindow}]
      /\ needs \in [configure : BOOLEAN, update : BOOLEAN, properties : BOOLEAN,
                    popup : BOOLEAN]
      /\ windows \in Seq(ClientWindow) /\ notify \subseteq Notification
  BY <1>1 DEF IInv, TypeOK, DisplayTypeOK, IndexInRange, TakeInput
<1>3. idx(p) \in Nat /\ idx(p) <= Len(windows)
  BY <1>2, GetWindowIdxInRange
<1> HIDE DEF idx
<1>4. popup_show(idx(p)) \in [idx : Nat, visible : BOOLEAN, shown : Windows \cup {NoWindow}]
  BY <1>3, PagerAssumption DEF popup_show
<1>5. popup' \in [idx : Nat, visible : BOOLEAN, shown : Windows \cup {NoWindow}]
      /\ popup'.idx <= Len(windows)
  <2>1. CASE popup' = popup_hide
    BY <1>2, <2>1 DEF popup_hide
  <2>2. CASE popup' = popup
    BY <1>2, <2>2
  <2>3. CASE popup' = popup_show(idx(p))
    <3>1. popup'.idx = idx(p)
      BY <2>3 DEF popup_show
    <3> QED
      BY <1>3, <1>4, <2>3, <3>1
  <2> QED
    BY <1>1, <2>1, <2>2, <2>3
<1>6. /\ notify' \subseteq Notification
      /\ needs' \in [configure : BOOLEAN, update : BOOLEAN, properties : BOOLEAN,
                     popup : BOOLEAN]
  <2>1. \A kinds \in PopupEvents : kinds \subseteq Notification
    BY DEF PopupEvents, Notification
  <2>2. notify' = notify \/ \E kinds \in PopupEvents : notify' = notify \cup kinds
    BY <1>1
  <2>3. notify' \subseteq Notification
    BY <1>2, <2>1, <2>2
  <2>4. needs' = needs \/ needs' = [needs EXCEPT !.popup = FALSE]
    BY <1>1
  <2> QED
    BY <1>2, <2>3, <2>4
<1>7. TakeInput(<<>>) /\ UNCHANGED <<windows, held, mouse>> /\ pc' \in {"next", "configure"}
  BY <1>1 DEF AfterEvent
<1>8. <<>> \in Seq(UserRequest)
  OBVIOUS
<1>9. held' \subseteq Buttons
  BY <1>7 DEF IInv, TypeOK
<1> QED
  BY <1>2, <1>5, <1>6, <1>7, <1>8, <1>9, HandlerInv

\* Handlers that change no index and no window.
LEMMA QuietInv ==
    ASSUME IInv, TakeInput(<<>>), UNCHANGED <<windows, notify, held, mouse, needs>>,
           popup' \in {popup, popup_hide}, pc' \in {"next", "configure", "dead"}
    PROVE  IInv'
<1>1. /\ mouse.idx <= Len(windows) /\ popup.idx <= Len(windows)
      /\ mouse \in [idx : Nat, window_x : Int, window_y : Int, button : Nat,
                    click : Int \X Int, dragging : BOOLEAN]
      /\ popup \in [idx : Nat, visible : BOOLEAN, shown : Windows \cup {NoWindow}]
      /\ needs \in [configure : BOOLEAN, update : BOOLEAN, properties : BOOLEAN,
                    popup : BOOLEAN]
      /\ windows \in Seq(ClientWindow) /\ notify \subseteq Notification
      /\ held \subseteq Buttons
  BY DEF IInv, TypeOK, DisplayTypeOK, IndexInRange, TakeInput
<1>2. popup' \in [idx : Nat, visible : BOOLEAN, shown : Windows \cup {NoWindow}]
      /\ popup'.idx <= Len(windows)
  BY <1>1 DEF popup_hide
<1>3. <<>> \in Seq(UserRequest)
  OBVIOUS
<1> QED
  BY <1>1, <1>2, <1>3, HandlerInv

LEMMA MotionInv == IInv /\ MotionWithoutEffect => IInv'
<1> SUFFICES ASSUME IInv, MotionWithoutEffect PROVE IInv'
  OBVIOUS
<1>1. /\ TakeInput(<<>>) /\ popup' = popup /\ pc' \in {"next", "configure"}
      /\ UNCHANGED <<windows, notify, held, mouse, needs>>
  BY DEF MotionWithoutEffect, AfterEvent
<1> QED
  BY <1>1, QuietInv

LEMMA LeaveInv == IInv /\ pager_leave => IInv'
<1> SUFFICES ASSUME IInv, pager_leave PROVE IInv'
  OBVIOUS
<1>1. /\ TakeInput(<<>>) /\ popup' = popup_hide /\ pc' \in {"next", "configure"}
      /\ UNCHANGED <<windows, notify, held, mouse, needs>>
  BY DEF pager_leave, AfterEvent
<1> QED
  BY <1>1, QuietInv

LEMMA DivideByZeroInv == IInv /\ DivideByZero => IInv'
<1> SUFFICES ASSUME IInv, DivideByZero PROVE IInv'
  OBVIOUS
<1>1. /\ TakeInput(<<>>) /\ popup' = popup /\ pc' = "dead"
      /\ UNCHANGED <<windows, notify, held, mouse, needs>>
  BY DEF DivideByZero
<1> QED
  BY <1>1, QuietInv

\* Wherever the pointer is, a dragged window has the properties of a client.
LEMMA OntoTypes ==
    ASSUME TypeOK, NEW c \in Client, NEW at \in [rx : Int, ry : Int, desk : Int]
    PROVE  Onto(c, at) \in Client
<1> DEFINE there == IF c.desk = Sticky THEN c ELSE [c EXCEPT !.desk = at.desk]
<1>1. there \in Client
  BY DEF Client
<1>2. at.rx - mouse.window_x \in Int /\ at.ry - mouse.window_y \in Int
  BY DEF TypeOK
<1>3. Onto(c, at) = IF mouse.button # 2 THEN there
                    ELSE [there EXCEPT !.x = at.rx - mouse.window_x,
                                       !.y = at.ry - mouse.window_y]
  BY DEF Onto
<1> HIDE DEF there
<1> QED
  BY <1>1, <1>2, <1>3 DEF Client

LEMMA DragRequestTypes ==
    ASSUME NEW win \in ClientWindow, NEW to \in Client
    PROVE  DragRequests(win, to) \in Seq(UserRequest)
<1>1. /\ x_window_set_desktop(win.window, to.desk) \in UserRequest
      /\ x_window_set_shaded(win.window) \in UserRequest
      /\ x_window_set_geometry(win.window, to.x, to.y) \in UserRequest
  BY DEF ClientWindow, Client, UserRequest, x_window_set_desktop, x_window_set_shaded,
         x_window_set_geometry
<1>2. ASSUME NEW r \in UserRequest, NEW b PROVE OnlyIf(b, r) \in Seq(UserRequest)
  BY DEF OnlyIf
<1> DEFINE A == OnlyIf(to.desk # win.client.desk, x_window_set_desktop(win.window, to.desk))
           B == OnlyIf(mouse.button = 2 /\ "shaded" \in win.client.states,
                       x_window_set_shaded(win.window))
           C == OnlyIf(mouse.button = 2, x_window_set_geometry(win.window, to.x, to.y))
<1>3. A \in Seq(UserRequest) /\ B \in Seq(UserRequest) /\ C \in Seq(UserRequest)
  BY <1>1, <1>2
<1>4. DragRequests(win, to) = A \o B \o C
  BY DEF DragRequests
<1> HIDE DEF A, B, C
<1> QED
  BY <1>3, <1>4

LEMMA DragInv == IInv /\ Drag => IInv'
<1> SUFFICES ASSUME IInv, Drag PROVE IInv'
  OBVIOUS
<1> DEFINE to(p) == Onto(windows[mouse.idx].client, coords_to_root(geo, p))
<1>1. PICK p \in Points :
        /\ TakeInput(DragRequests(windows[mouse.idx], to(p)))
        /\ windows' = [windows EXCEPT ![mouse.idx].client = to(p)]
  BY DEF Drag
<1>2. /\ mouse.idx # 0 /\ mouse.idx <= Len(windows) /\ popup.idx <= Len(windows)
      /\ mouse \in [idx : Nat, window_x : Int, window_y : Int, button : Nat,
                    click : Int \X Int, dragging : BOOLEAN]
      /\ popup \in [idx : Nat, visible : BOOLEAN, shown : Windows \cup {NoWindow}]
      /\ needs \in [configure : BOOLEAN, update : BOOLEAN, properties : BOOLEAN,
                    popup : BOOLEAN]
      /\ windows \in Seq(ClientWindow) /\ notify \subseteq Notification
      /\ held \subseteq Buttons /\ geo \in PagerGeometry
  <2>1. pc = "next" /\ mouse.idx # 0
    BY <1>1 DEF TakeInput, Drag
  <2> QED
    BY <2>1 DEF IInv, TypeOK, DisplayTypeOK, IndexInRange
<1>3. windows[mouse.idx] \in ClientWindow /\ windows[mouse.idx].client \in Client
  <2>1. mouse.idx \in 1 .. Len(windows)
    BY <1>2
  <2>2. windows[mouse.idx] \in ClientWindow
    BY <1>2, <2>1
  <2> QED
    BY <2>2 DEF ClientWindow
<1>4. to(p) \in Client
  <2>1. coords_to_root(geo, p) \in [rx : Int, ry : Int, desk : Int]
    BY <1>2, PagerAssumption, CoordsTypes DEF Drag
  <2> QED
    BY <1>3, <2>1, OntoTypes DEF IInv
<1> HIDE DEF to
<1>5. windows' \in Seq(ClientWindow) /\ Len(windows') = Len(windows)
  <2>1. [windows[mouse.idx] EXCEPT !.client = to(p)] \in ClientWindow
    BY <1>3, <1>4 DEF ClientWindow
  <2>2. windows' = [windows EXCEPT ![mouse.idx] =
                      [windows[mouse.idx] EXCEPT !.client = to(p)]]
    BY <1>1
  <2> QED
    BY <1>2, <2>1, <2>2
<1>6. DragRequests(windows[mouse.idx], to(p)) \in Seq(UserRequest)
  BY <1>3, <1>4, DragRequestTypes
<1>7. /\ mouse' = [mouse EXCEPT !.dragging = TRUE] /\ popup' = popup
      /\ UNCHANGED <<notify, held, needs>> /\ pc' \in {"next", "configure"}
  BY DEF Drag, AfterEvent
<1>8. mouse' \in [idx : Nat, window_x : Int, window_y : Int, button : Nat,
                  click : Int \X Int, dragging : BOOLEAN] /\ mouse'.idx <= Len(windows)
  <2>1. mouse'.idx = mouse.idx
    BY <1>2, <1>7
  <2>2. mouse' \in [idx : Nat, window_x : Int, window_y : Int, button : Nat,
                    click : Int \X Int, dragging : BOOLEAN]
    BY <1>2, <1>7
  <2> QED
    BY <1>2, <2>1, <2>2
<1> QED
  BY <1>1, <1>2, <1>5, <1>6, <1>7, <1>8, HandlerInv

-----------------------------------------------------------------------------
(* Every step preserves the invariant. *)

LEMMA EnvironmentInv == IInv /\ Environment => IInv'
<1> SUFFICES ASSUME IInv, Environment PROVE IInv'
  OBVIOUS
<1>1. DisplayTypeOK' /\ held' = held
  BY EnvironmentKeepsTypes DEF IInv, TypeOK, Environment
<1>2. UNCHANGED <<pc, scan, windows, active, geo, mouse, popup, needs, picture>>
  BY DEF Environment, process
<1> QED
  BY <1>1, <1>2 DEF IInv, TypeOK, IndexInRange, ScanRemembers

LEMMA NextInv == IInv /\ [Next]_vars => IInv'
<1> SUFFICES ASSUME IInv, [Next]_vars PROVE IInv'
  OBVIOUS
<1>1. CASE pager_handle_events
  BY <1>1, HandleEventsInv
<1>2. CASE handle_event
  BY <1>2, NotificationInv, PressInv, ReleaseInv, HoverInv, MotionInv, DragInv, LeaveInv,
     DivideByZeroInv
  DEF handle_event
<1>3. CASE Environment
  BY <1>3, EnvironmentInv
<1>4. CASE UNCHANGED vars
  BY <1>4 DEF vars, display, process, IInv, TypeOK, DisplayTypeOK, IndexInRange, ScanRemembers
<1> QED
  BY <1>1, <1>2, <1>3, <1>4 DEF Next, loop

THEOREM InductiveInvariant == Spec => []IInv
BY InitInv, NextInv, PTL DEF Spec

\* The state keeps its types, whatever the properties other programs set.
THEOREM TypeCorrect == Spec => []TypeOK
<1>1. IInv => TypeOK
  BY DEF IInv
<1> QED
  BY <1>1, InductiveInvariant, PTL

\* No refresh leaves an index of the mouse gesture or of the popup pointing
\* behind the end of windows[] (pager.c:348-410), for any number of windows.
THEOREM IndicesInRange == Spec => []IndexInRange
<1>1. IInv => IndexInRange
  BY DEF IInv
<1> QED
  BY <1>1, InductiveInvariant, PTL

\* A refresh under way remembers a window exactly for each index to remap
\* (pager.c:343-346).
THEOREM ScansRemember == Spec => []ScanRemembers
<1>1. IInv => ScanRemembers
  BY DEF IInv
<1> QED
  BY <1>1, InductiveInvariant, PTL

-----------------------------------------------------------------------------
(* What the pointer picks *)

\* There are k positions of the screen to a pixel, in both directions, and all
\* windows lie on their pixels.
RegularView ==
    \E k \in Nat \ {0} :
        Scaled(geo, k) /\ \A i \in DOMAIN windows : Regular(geo, k, windows[i].client)

\* A click means the window that is seen there, whatever windows there are and
\* whatever was done to them, as long as they lie on their pixels (pager.c:474-521,
\* 543-576).
THEOREM PicksSeen == Spec => [](RegularView => PicksWhatIsSeen)
<1>1. IInv /\ RegularView => PicksWhatIsSeen
  <2> SUFFICES ASSUME IInv, RegularView,
                      NEW desk \in 0 .. geo.cols * geo.rows - 1,
                      NEW x \in 0 .. geo.desk_w - 1, NEW y \in 0 .. geo.desk_h - 1
               PROVE  LET painted == Drawn(windows)
                          p   == PixelOfCell(geo, desk, <<x, y>>)
                          top == SelectLastInSeq(painted,
                                                 LAMBDA win : draw_window(geo, win.client, p))
                          idx == get_window_idx(windows, geo, coords_to_root(geo, p))
                      IN  \/ top = 0 /\ idx = 0
                          \/ top # 0 /\ idx # 0 /\ windows[idx] = painted[top]
    BY DEF PicksWhatIsSeen
  <2> DEFINE p       == PixelOfCell(geo, desk, <<x, y>>)
             at      == coords_to_root(geo, p)
             S       == {win \in ToSet(windows) : Paints(win.client)}
             R       == {win \in ToSet(windows) : draw_window(geo, win.client, p)}
             Q       == {win \in ToSet(windows) : Hit(geo, win.client, at)}
             painted == Kept(windows, S)
             top     == SelectLastInSeq(painted, LAMBDA win : draw_window(geo, win.client, p))
             idx     == get_window_idx(windows, geo, at)
  <2>1. /\ windows \in Seq(ClientWindow) /\ geo \in PagerGeometry
        /\ geo.cols \in Nat \ {0} /\ geo.desk_w \in Nat /\ geo.desk_h \in Nat
    BY DEF IInv, TypeOK, PagerGeometry
  <2>2. geo.desk_w \in Nat \ {0} /\ geo.desk_h \in Nat \ {0}
    BY <2>1
  <2>3. PICK k \in Nat \ {0} :
          Scaled(geo, k) /\ \A i \in DOMAIN windows : Regular(geo, k, windows[i].client)
    BY DEF RegularView
  <2>4. /\ windows \in Seq(ToSet(windows))
        /\ \A i \in 1 .. Len(windows) : windows[i] \in ToSet(windows)
    BY <2>1 DEF ToSet
  <2>5. ASSUME NEW i \in 1 .. Len(windows)
        PROVE  windows[i] \in Q <=> windows[i] \in S /\ windows[i] \in R
    <3>1. Regular(geo, k, windows[i].client)
      BY <2>1, <2>3
    <3>2. Hit(geo, windows[i].client, at)
            <=> Paints(windows[i].client) /\ draw_window(geo, windows[i].client, p)
      BY <2>1, <2>2, <2>3, <3>1, HitsWhatIsPainted
    <3> QED
      BY <2>4, <3>2
  <2>6. painted \in Seq(ToSet(windows))
    <3>1. SubSeq(windows, 1, Len(windows)) = windows /\ Len(windows) \in 0 .. Len(windows)
      BY <2>1
    <3>2. Kept(SubSeq(windows, 1, Len(windows)), S) \in Seq(ToSet(windows) \cap S)
      BY <2>4, <3>1, KeptTypes
    <3>3. painted \in Seq(ToSet(windows) \cap S)
      BY <3>1, <3>2, Zenon
    <3> HIDE DEF painted, S
    <3> QED
      BY <3>3
  <2>7. IsLast(windows, Q, idx)
    <3> DEFINE I == {i \in 1 .. Len(windows) : Hit(geo, windows[i].client, at)}
               J == {i \in 1 .. Len(windows) : windows[i] \in Q}
    <3>1. idx = IF I # {} THEN Max(I) ELSE 0
      BY DEF get_window_idx, SelectLastInSeq
    <3>2. I = J
      BY <2>4
    <3>3. IsLast(windows, Q, IF J # {} THEN Max(J) ELSE 0)
      BY <2>4, GreatestIsLast
    <3> QED
      BY <3>1, <3>2, <3>3, Zenon
  <2>8. IsLast(painted, R, top)
    <3> DEFINE I == {i \in 1 .. Len(painted) : draw_window(geo, painted[i].client, p)}
               J == {i \in 1 .. Len(painted) : painted[i] \in R}
    <3>1. top = IF I # {} THEN Max(I) ELSE 0
      BY DEF SelectLastInSeq
    <3>2. I = J
      <4>1. \A i \in 1 .. Len(painted) : painted[i] \in ToSet(windows)
        <5> HIDE DEF painted
        <5> QED
          BY <2>6
      <4> QED
        BY <4>1, Zenon
    <3>3. IsLast(painted, R, IF J # {} THEN Max(J) ELSE 0)
      BY <2>6, GreatestIsLast
    <3> QED
      BY <3>1, <3>2, <3>3, Zenon
  <2> HIDE DEF Q, R, S, top, idx, painted
  <2>9. SameLast(windows, Q, painted, R)
    <3>1. InBoth(windows, Q, S, R)
      BY <2>5 DEF InBoth
    <3> QED
      BY <2>4, <3>1, LastKept DEF painted
  <2>10. PICK i, j \in Nat : /\ IsLast(windows, Q, i) /\ IsLast(painted, R, j)
                             /\ i = 0 <=> j = 0
                             /\ i # 0 => windows[i] = painted[j]
    BY <2>9 DEF SameLast
  <2>11. i = idx /\ j = top
    BY <2>4, <2>6, <2>7, <2>8, <2>10, LastIsUnique
  <2>12. \/ top = 0 /\ idx = 0
         \/ top # 0 /\ idx # 0 /\ windows[idx] = painted[top]
    BY <2>10, <2>11
  <2> QED
    BY <2>12 DEF Drawn, top, idx, painted, S
<1> QED
  BY <1>1, InductiveInvariant, PTL

=============================================================================
