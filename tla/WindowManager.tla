--------------------------- MODULE WindowManager ---------------------------
(***************************************************************************)
(* The pager's environment: the X server, an EWMH window manager and the   *)
(* user.  None of it is in the repository; it is modelled from what the    *)
(* pager reads, asks for and selects events for.                           *)
(*                                                                         *)
(* The pager hears of a change only through root PropertyNotify and        *)
(* ConfigureNotify events (main.c selects PropertyChangeMask and           *)
(* SubstructureNotifyMask on the root window).  Handling one only sets     *)
(* flags, so pending ones are a set: their number and order say nothing.   *)
(* Changes of a client's own properties and the destruction of a client    *)
(* are silent (the code keeps XSelectInput on clients commented out).      *)
(***************************************************************************)
EXTENDS Integers, Sequences, SequencesExt, DesktopLayout

CONSTANTS
    Windows, NoWindow,   \* client windows; NoWindow for the window id 0
    Clients, NoClient,   \* properties a client may have; unreadable ones
    Layouts,             \* [nr, layout] pairs that other programs may set
    DesktopLimit,        \* the most desktops the window manager will have
    OwnSizes,            \* sizes the user may give the pager's window
    Kinds,               \* which kinds of change this instance explores
    MaxChanges,          \* bound: spontaneous changes per behaviour
    MaxInputs,           \* bound: user events waiting in the queue
    MaxRequests          \* bound: requests not yet answered

ClientType == {"desktop", "menu", "normal", "unknown"}
ClientState == {"shaded", "hidden", "skip_pager"}
Client == [desk : Int, x : Int, y : Int, w : Nat, h : Nat,
           type : ClientType, states : SUBSET ClientState]

ASSUME WindowManagerAssumption ==
    /\ IsFiniteSet(Windows) /\ NoWindow \notin Windows
    /\ Clients \subseteq Client /\ NoClient \notin Client
    /\ DesktopLimit \in Nat \ {0}
    /\ \A l \in Layouts : /\ l.nr \in 0 .. DesktopLimit
                          /\ l.layout \in [c : Nat, r : Nat]
    /\ \A s \in OwnSizes : s.w \in Nat \ {0} /\ s.h \in Nat \ {0}
    /\ MaxChanges \in Nat /\ MaxInputs \in Nat /\ MaxRequests \in Nat

VARIABLES
    root,       \* root window properties; present = FALSE: the WM withdrew them
    clients,    \* what a property read on each client window returns now
    own,        \* the pager's window on the server, with its strut property
    requests,   \* FIFO of the pager's requests about itself and the layout
    sent,       \* FIFO of the requests that user events made of the WM
    notify,     \* kinds of notification waiting in the pager's event queue
    inputs,     \* number of user events waiting in the pager's event queue
    held,       \* mouse buttons down, as of the last user event delivered
    changes     \* spontaneous changes left

\* The pager's requests about itself and the layout, and those that user events
\* make of the window manager.
OwnRequest == [kind : {"desktops"}, nr : Nat]
              \cup [kind : {"size"}, w : Nat, h : Nat]
              \cup [kind : {"position"}, x : Int, y : Int]
UserRequest == [kind : {"current_desktop"}, desk : Int]
               \cup [kind : {"active_window", "unshade"}, window : Windows]
               \cup [kind : {"desktop"}, window : Windows, desk : Int]
               \cup [kind : {"geometry"}, window : Windows, x : Int, y : Int]
RootProperties == [present : BOOLEAN, nr : Nat, layout : [c : Nat, r : Nat], desk : Int,
                   active : Windows \cup {NoWindow}, showing : BOOLEAN, list : Seq(Windows)]
Strut == [side : {"none", "top", "bottom", "left", "right"},
          size : Int, start : Int, end : Int]
Notification == {"expose", "expose_popup", "configure", "property"}

\* The display holds values of the types the protocol gives them.
DisplayTypeOK ==
    /\ root \in RootProperties
    /\ clients \in [Windows -> Client \cup {NoClient}]
    /\ own \in [x : Int, y : Int, w : Nat, h : Nat, strut : Strut]
    /\ requests \in Seq(OwnRequest) /\ sent \in Seq(UserRequest)
    /\ notify \subseteq Notification
    /\ inputs \in Nat /\ changes \in Nat

display == <<root, clients, own, requests, sent, notify, inputs, held, changes>>

Announce(kind) == notify' = notify \cup {kind}

\* One of the bounded number of changes nobody asked the pager about.
Spontaneous(kind) ==
    /\ kind \in Kinds
    /\ changes > 0
    /\ changes' = changes - 1

-----------------------------------------------------------------------------
(* Changes of root properties: every one is announced. *)

ChangeRoot(kind, new) ==
    /\ Spontaneous(kind)
    /\ root.present
    /\ new # root
    /\ root' = new
    /\ Announce("property")
    /\ UNCHANGED <<own, requests, sent, inputs, held>>

SwitchDesktop ==
    /\ \E d \in 0 .. root.nr - 1 : ChangeRoot("desk", [root EXCEPT !.desk = d])
    /\ UNCHANGED clients

FocusWindow ==
    /\ \E w \in Windows \cup {NoWindow} :
          ChangeRoot("focus", [root EXCEPT !.active = w])
    /\ UNCHANGED clients

ToggleShowingDesktop ==
    /\ ChangeRoot("showing", [root EXCEPT !.showing = ~ @])
    /\ UNCHANGED clients

\* A new client list: windows opened, closed or restacked.
PublishList ==
    /\ \E S \in SUBSET {w \in Windows : clients[w] # NoClient} :
          \E list \in SetToSeqs(S) : ChangeRoot("list", [root EXCEPT !.list = list])
    /\ UNCHANGED clients

\* With fewer desktops, the WM moves what was on the lost ones.
LastDesk(d, nr) == IF d < nr THEN d ELSE nr - 1

WithDesktops(nr, new) ==
    /\ root' = [new EXCEPT !.nr = nr, !.desk = LastDesk(@, nr)]
    /\ clients' = [w \in Windows |->
                     IF clients[w] = NoClient THEN NoClient
                     ELSE [clients[w] EXCEPT !.desk = LastDesk(@, nr)]]

ChangeLayout ==
    \E l \in Layouts :
        /\ Spontaneous("layout")
        /\ root.present
        /\ <<l.nr, l.layout>> # <<root.nr, root.layout>>
        /\ WithDesktops(l.nr, [root EXCEPT !.layout = l.layout])
        /\ Announce("property")
        /\ UNCHANGED <<own, requests, sent, inputs, held>>

\* The WM exits, deleting its properties and dropping unread requests ...
Withdraw ==
    /\ Spontaneous("restart")
    /\ root.present
    /\ root' = [root EXCEPT !.present = FALSE]
    /\ requests' = <<>> /\ sent' = <<>>
    /\ Announce("property")
    /\ UNCHANGED <<clients, own, inputs, held>>

\* ... and a WM comes back and publishes them again.
Return ==
    /\ ~ root.present
    /\ root' = [root EXCEPT !.present = TRUE]
    /\ Announce("property")
    /\ UNCHANGED <<clients, own, requests, sent, inputs, held, changes>>

-----------------------------------------------------------------------------
(* Changes of client windows: only a move or resize is announced. *)

ChangeClient(kind, w, c) ==
    /\ Spontaneous(kind)
    /\ clients[w] # c
    /\ clients' = [clients EXCEPT ![w] = c]
    /\ UNCHANGED <<root, own, requests, sent, inputs, held>>

OpenWindow ==
    /\ \E w \in Windows \ ToSet(root.list), c \in Clients :
          clients[w] = NoClient /\ ChangeClient("open", w, c)
    /\ UNCHANGED notify

CloseWindow ==
    /\ \E w \in Windows : ChangeClient("close", w, NoClient)
    /\ UNCHANGED notify

SamePlace(c, d) == <<c.x, c.y, c.w, c.h>> = <<d.x, d.y, d.w, d.h>>
SameKind(c, d) == <<c.desk, c.type, c.states>> = <<d.desk, d.type, d.states>>

MoveWindow ==
    /\ \E w \in Windows, c \in Clients :
          /\ clients[w] # NoClient /\ SameKind(c, clients[w])
          /\ ChangeClient("move", w, c)
    /\ Announce("configure")

\* Desktop, type or state of a listed client changes, or its properties
\* become readable after the client list named it: nobody is told.
AlterWindow ==
    /\ \E w \in Windows, c \in Clients :
          /\ \/ clients[w] # NoClient /\ SamePlace(c, clients[w])
             \/ clients[w] = NoClient /\ w \in ToSet(root.list)
          /\ ChangeClient("alter", w, c)
    /\ UNCHANGED notify

-----------------------------------------------------------------------------
(* The pager's own window, and the pager's requests *)

ResizeOwn ==
    /\ Spontaneous("resize")
    /\ \E s \in OwnSizes : /\ own' = [own EXCEPT !.w = s.w, !.h = s.h]
                           /\ own' # own
    /\ Announce("configure")
    /\ UNCHANGED <<root, clients, requests, sent, inputs, held>>

Damage ==
    /\ Spontaneous("damage")
    /\ \E kind \in {"expose", "expose_popup"} : Announce(kind)
    /\ UNCHANGED <<root, clients, own, requests, sent, inputs, held>>

\* Change the pager's window: without a difference there is no event.
Configure(new) ==
    /\ own' = new
    /\ IF new = own THEN UNCHANGED notify ELSE Announce("configure")
    /\ UNCHANGED <<root, clients>>

\* Of the desktops asked for, as many as the window manager allows.
Allowed(nr) == IF nr <= DesktopLimit THEN nr ELSE DesktopLimit

Grant ==
    /\ requests # <<>>
    /\ requests' = Tail(requests)
    /\ LET r == Head(requests)
       IN  \/ /\ r.kind = "desktops"
              /\ IF Allowed(r.nr) = root.nr THEN UNCHANGED <<root, clients, notify>>
                 ELSE WithDesktops(Allowed(r.nr), root) /\ Announce("property")
              /\ UNCHANGED own
           \/ /\ r.kind = "size"
              /\ Configure([own EXCEPT !.w = r.w, !.h = r.h])
           \/ /\ r.kind = "position"
              /\ Configure([own EXCEPT !.x = r.x, !.y = r.y])
    /\ UNCHANGED <<sent, inputs, held, changes>>

Refuse ==
    /\ Spontaneous("refuse")
    /\ requests # <<>>
    /\ requests' = Tail(requests)
    /\ UNCHANGED <<root, clients, own, sent, notify, inputs, held>>

\* A request about a closed window or a desktop that does not exist is ignored.
Valid(r) ==
    CASE r.kind = "current_desktop" -> r.desk \in 0 .. root.nr - 1
      [] r.kind = "desktop" -> clients[r.window] # NoClient /\ r.desk \in -1 .. root.nr - 1
      [] OTHER -> clients[r.window] # NoClient

\* What request r makes of the properties of its window.
Changed(r) ==
    CASE r.kind = "desktop"  -> [clients[r.window] EXCEPT !.desk = r.desk]
      [] r.kind = "unshade"  -> [clients[r.window] EXCEPT !.states = @ \ {"shaded"}]
      [] r.kind = "geometry" -> [clients[r.window] EXCEPT !.x = r.x, !.y = r.y]

\* A window manager that heeds pagers keeps their requests until it has carried
\* them out; of one that does not, only the latest are remembered.
Heeds == "obey" \in Kinds

Sent(reqs) ==
    /\ Heeds => Len(sent) + Len(reqs) <= MaxRequests
    /\ sent' = IF Heeds THEN sent \o reqs ELSE reqs

\* Carry out the oldest request a user event made.
Obey ==
    /\ Heeds
    /\ sent # <<>>
    /\ sent' = Tail(sent)
    /\ LET r == Head(sent)
       IN  \/ /\ ~ Valid(r)
              /\ UNCHANGED <<root, clients, notify>>
           \/ /\ Valid(r) /\ r.kind \in {"current_desktop", "active_window"}
              /\ root' = IF r.kind = "current_desktop" THEN [root EXCEPT !.desk = r.desk]
                         ELSE [root EXCEPT !.active = r.window]
              /\ Announce("property")
              /\ UNCHANGED clients
           \/ /\ Valid(r) /\ r.kind \in {"desktop", "unshade", "geometry"}
              /\ clients' = [clients EXCEPT ![r.window] = Changed(r)]
              /\ IF r.kind = "geometry" THEN Announce("configure") ELSE UNCHANGED notify
              /\ UNCHANGED root
    /\ UNCHANGED <<own, requests, inputs, held, changes>>

\* The user does something with the mouse over the pager.
UserInput ==
    /\ inputs < MaxInputs
    /\ inputs' = inputs + 1
    /\ UNCHANGED <<root, clients, own, requests, sent, notify, held, changes>>

Answer == Grant \/ Obey

WindowManagerNext ==
    \/ SwitchDesktop \/ FocusWindow \/ ToggleShowingDesktop
    \/ PublishList \/ ChangeLayout \/ Withdraw \/ Return
    \/ OpenWindow \/ CloseWindow \/ MoveWindow \/ AlterWindow
    \/ ResizeOwn \/ Damage \/ Refuse \/ Answer \/ UserInput

=============================================================================
