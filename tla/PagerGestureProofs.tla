------------------------- MODULE PagerGestureProofs -------------------------
(***************************************************************************)
(* What the pager promises about a mouse gesture and its popup, proved     *)
(* from the inductive invariant of PagerProofs: the first lemmas say which *)
(* steps touch the gesture at all, and each theorem argues about those     *)
(* steps only.  At the end, the pager implements Gesture: the initial      *)
(* states are initial states of Gesture, and every step is a step of a     *)
(* gesture, an answer to a request, or neither.                            *)
(***************************************************************************)
EXTENDS PagerGesture, PagerProofs

-----------------------------------------------------------------------------
(* The gesture *)

\* Only the end of a refresh, presses, releases and drags touch the gesture;
\* every other step leaves it and the window it is about alone.
LEMMA GestureSteps ==
    ASSUME IInv, [Next]_vars
    PROVE  \/ FinishScan \/ pager_button_press \/ pager_button_release \/ Drag
           \/ UNCHANGED <<mouse, held>> /\ Target' = Target
<1>1. CASE pager_handle_events
  <2>1. CASE FetchClientList
    BY <2>1 DEF FetchClientList, display, Target, WindowAt
  <2>2. CASE ScanWindow
    BY <2>2 DEF ScanWindow, display, Target, IInv, TypeOK
  <2>3. CASE FinishScan
    BY <2>3
  <2>4. CASE pager_configure \/ update_desktop_count
    BY <2>4 DEF pager_configure, update_desktop_count, KeepGrid, ChangeGrid, NoRoomForGrid,
                ReadLayout, Target, WindowAt
  <2>5. CASE ClientListMissing \/ pager_update \/ pager_update_popup
    BY <2>5 DEF ClientListMissing, pager_update, pager_update_popup, display, Target, WindowAt
  <2>6. CASE \/ Skip("configure", needs.configure, "layout")
             \/ Skip("layout", needs.properties, "update")
             \/ Skip("update", needs.update, "popup")
             \/ Skip("popup", needs.popup, "next")
    BY <2>6 DEF Skip, display, Target, WindowAt
  <2> QED
    BY <1>1, <2>1, <2>2, <2>3, <2>4, <2>5, <2>6 DEF pager_handle_events
<1>2. CASE handle_event
  <2>1. CASE HandleNotification
    BY <2>1 DEF HandleNotification, AfterEvent, Target, WindowAt
  <2>2. CASE Hover
    BY <2>2 DEF Hover, TakeInput, AfterEvent, Target, WindowAt
  <2>3. CASE MotionWithoutEffect \/ pager_leave \/ DivideByZero
    BY <2>3 DEF MotionWithoutEffect, pager_leave, DivideByZero, TakeInput, AfterEvent, Target,
                WindowAt
  <2> QED
    BY <1>2, <2>1, <2>2, <2>3 DEF handle_event
<1>3. CASE Environment
  <2>1. held' = held
    BY <1>3, EnvironmentKeepsTypes DEF Environment, IInv, TypeOK
  <2> QED
    BY <1>3, <2>1 DEF Environment, process, Target, WindowAt
<1>4. CASE UNCHANGED vars
  BY <1>4 DEF vars, display, process, Target, WindowAt
<1> QED
  BY <1>1, <1>2, <1>3, <1>4 DEF Next, loop

\* After a refresh the gesture is about the same window, or about none.
LEMMA FinishedGesture ==
    ASSUME IInv, FinishScan
    PROVE  /\ mouse' = [mouse EXCEPT !.idx = mouse'.idx] /\ held' = held
           /\ mouse.idx = 0 => mouse'.idx = 0
           /\ Target' \in {Target, NoWindow}
<1>1. /\ mouse \in [idx : Nat, window_x : Int, window_y : Int, button : Nat,
                    click : Int \X Int, dragging : BOOLEAN]
      /\ windows \in Seq(ClientWindow)
      /\ mouse.idx = 0 <=> scan.move = NoWindow
  BY DEF IInv, TypeOK, ScanRemembers, FinishScan
<1>2. /\ Remapped(mouse.idx, scan.move) # 0
           => /\ scan.move # NoWindow
              /\ windows[Remapped(mouse.idx, scan.move)].window = scan.move
  BY <1>1, RemappedTypes
<1>3. mouse' = [mouse EXCEPT !.idx = Remapped(mouse.idx, scan.move)]
      /\ windows' = windows /\ pc = "scan" /\ pc' = "update" /\ held' = held
  BY DEF FinishScan, display
<1>4. mouse'.idx = Remapped(mouse.idx, scan.move)
  BY <1>1, <1>3
<1>5. Target = scan.move
  BY <1>3 DEF Target
<1>6. Target' = IF mouse'.idx = 0 THEN NoWindow ELSE windows[mouse'.idx].window
  BY <1>3 DEF Target, WindowAt
<1> QED
  BY <1>1, <1>2, <1>3, <1>4, <1>5, <1>6

\* A gesture begins with its button and ends with it.
LEMMA HoldInductive == IInv /\ GestureUnderHeldButton /\ [Next]_vars => GestureUnderHeldButton'
<1> SUFFICES ASSUME IInv, GestureUnderHeldButton, [Next]_vars
             PROVE  GestureUnderHeldButton'
  OBVIOUS
<1>1. mouse \in [idx : Nat, window_x : Int, window_y : Int, button : Nat,
                 click : Int \X Int, dragging : BOOLEAN]
  BY DEF IInv, TypeOK
<1>2. CASE FinishScan
  <2>1. /\ mouse'.button = mouse.button /\ mouse'.dragging = mouse.dragging
        /\ mouse.idx = 0 => mouse'.idx = 0
        /\ held' = held
    BY <1>1, <1>2, FinishedGesture
  <2> QED
    BY <2>1 DEF GestureUnderHeldButton
<1>3. CASE pager_button_press
  <2>1. PICK b \in Buttons :
          /\ held' = held \cup {b}
          /\ mouse' = mouse \/ mouse'.button = b
    BY <1>1, <1>3 DEF pager_button_press
  <2> QED
    BY <2>1 DEF GestureUnderHeldButton
<1>4. CASE pager_button_release
  <2>1. PICK b \in held :
          /\ held' = held \ {b}
          /\ mouse' = IF mouse.button # b THEN mouse ELSE Released
    BY <1>4 DEF pager_button_release
  <2>2. CASE mouse.button # b
    BY <2>1, <2>2 DEF GestureUnderHeldButton
  <2>3. CASE mouse.button = b
    <3>1. mouse'.idx = 0 /\ mouse'.button = 0 /\ mouse'.dragging = FALSE
      BY <1>1, <2>1, <2>3 DEF Released
    <3> QED
      BY <3>1 DEF GestureUnderHeldButton
  <2> QED
    BY <2>2, <2>3
<1>5. CASE Drag
  <2>1. mouse.button # 0 /\ mouse'.button = mouse.button /\ held' = held
    BY <1>1, <1>5 DEF Drag
  <2> QED
    BY <2>1 DEF GestureUnderHeldButton
<1>6. CASE UNCHANGED <<mouse, held>>
  BY <1>6 DEF GestureUnderHeldButton
<1> QED
  BY <1>2, <1>3, <1>4, <1>5, <1>6, GestureSteps

\* A gesture is only ever under way for a button that is down, whatever
\* happens to the windows meanwhile (pager.c:1105-1148).
THEOREM GesturesHoldButtons == Spec => []GestureUnderHeldButton
<1>1. Init => GestureUnderHeldButton
  BY DEF Init, GestureUnderHeldButton
<1> QED
  BY <1>1, HoldInductive, InductiveInvariant, PTL DEF Spec

\* A step that does not end a gesture keeps its window, or loses it.
LEMMA StepKeepsTarget ==
    ASSUME IInv, [Next]_vars, mouse.button # 0, mouse'.button = mouse.button
    PROVE  Target' \in {Target, NoWindow}
<1>1. mouse \in [idx : Nat, window_x : Int, window_y : Int, button : Nat,
                 click : Int \X Int, dragging : BOOLEAN]
  BY DEF IInv, TypeOK
<1>2. CASE pager_button_press
  <2>1. UNCHANGED windows /\ pc = "next" /\ pc' # "scan"
    BY <1>2 DEF pager_button_press, TakeInput, AfterEvent
  <2>2. mouse' = mouse
    BY <1>2 DEF pager_button_press, StartsGesture
  <2> QED
    BY <2>1, <2>2 DEF Target, WindowAt
<1>3. CASE pager_button_release
  <2>1. PICK b \in held : mouse' = IF mouse.button # b THEN mouse ELSE Released
    BY <1>3 DEF pager_button_release
  <2>2. mouse.button # b
    <3>1. mouse.button = b => mouse'.button = 0
      BY <1>1, <2>1 DEF Released
    <3> QED
      BY <3>1
  <2>3. mouse' = mouse /\ UNCHANGED windows /\ pc = "next" /\ pc' # "scan"
    BY <1>3, <2>1, <2>2 DEF pager_button_release, TakeInput, AfterEvent
  <2> QED
    BY <2>3 DEF Target, WindowAt
<1>4. CASE Drag
  <2>1. PICK to : windows' = [windows EXCEPT ![mouse.idx].client = to]
    BY <1>4 DEF Drag
  <2>2. pc = "next" /\ pc' # "scan" /\ mouse.idx # 0 /\ mouse'.idx = mouse.idx
    BY <1>1, <1>4 DEF Drag, TakeInput, AfterEvent
  <2>3. mouse.idx \in 1 .. Len(windows) /\ windows \in Seq(ClientWindow)
    BY <1>1, <2>2 DEF IInv, TypeOK, IndexInRange
  <2>4. windows'[mouse.idx].window = windows[mouse.idx].window
    BY <2>1, <2>3 DEF ClientWindow
  <2> QED
    BY <2>2, <2>4 DEF Target, WindowAt
<1> QED
  BY <1>2, <1>3, <1>4, GestureSteps, FinishedGesture

\* While its button stays down, a gesture stays with its window or loses it,
\* however often refreshes rebuild windows[] (pager.c:343, 407).
THEOREM GesturesKeepWindow == Spec => DragKeepsWindow
<1>1. IInv /\ [Next]_vars
        => [mouse.button # 0 /\ mouse'.button = mouse.button
              => Target' \in {Target, NoWindow}]_vars
  BY StepKeepsTarget
<1> QED
  BY <1>1, InductiveInvariant, PTL DEF Spec, DragKeepsWindow

-----------------------------------------------------------------------------
(* The popup *)

\* The steps that neither finish a refresh nor are about the pointer leave a
\* popup where it is or put it away.
LEMMA OtherPopupSteps ==
    ASSUME IInv, [Next]_vars, ~ Hover, ~ FinishScan
    PROVE  popup'.idx = popup.idx /\ popup'.visible \in {popup.visible, FALSE}
<1>1. popup \in [idx : Nat, visible : BOOLEAN, shown : Windows \cup {NoWindow}]
  BY DEF IInv, TypeOK
<1>2. \/ popup' = popup \/ popup' = popup_hide
      \/ popup' = [popup EXCEPT !.shown = windows[popup.idx].window]
  <2>1. CASE pager_handle_events
    <3>1. CASE pager_update_popup
      BY <3>1 DEF pager_update_popup
    <3> QED
      BY <2>1, <3>1 DEF pager_handle_events, Skip, pager_configure, update_desktop_count,
         KeepGrid, ChangeGrid, NoRoomForGrid, ReadLayout, ClientListMissing, FetchClientList,
         ScanWindow, pager_update
  <2>2. CASE handle_event
    BY <2>2 DEF handle_event, HandleNotification, pager_button_press, pager_button_release,
       MotionWithoutEffect, Drag, pager_leave, DivideByZero
  <2>3. CASE Environment \/ UNCHANGED vars
    BY <2>3 DEF Environment, process, vars
  <2> QED
    BY <2>1, <2>2, <2>3 DEF Next, loop
<1> QED
  BY <1>1, <1>2 DEF popup_hide

\* Whatever begins a gesture hides the popup.
LEMMA HideInductive == IInv /\ NoPopupDuringGesture /\ [Next]_vars => NoPopupDuringGesture'
<1> SUFFICES ASSUME IInv, NoPopupDuringGesture, [Next]_vars
             PROVE  NoPopupDuringGesture'
  OBVIOUS
<1>1. /\ mouse \in [idx : Nat, window_x : Int, window_y : Int, button : Nat,
                    click : Int \X Int, dragging : BOOLEAN]
      /\ popup \in [idx : Nat, visible : BOOLEAN, shown : Windows \cup {NoWindow}]
  BY DEF IInv, TypeOK
<1>2. CASE pager_button_press
  <2>1. popup' = popup_hide
    BY <1>2 DEF pager_button_press
  <2>2. popup'.visible = FALSE
    BY <1>1, <2>1 DEF popup_hide
  <2> QED
    BY <2>2 DEF NoPopupDuringGesture
<1>3. CASE pager_button_release
  <2>1. popup' = popup /\ (mouse' = mouse \/ mouse'.button = 0)
    BY <1>1, <1>3 DEF pager_button_release, Released
  <2> QED
    BY <2>1 DEF NoPopupDuringGesture
<1>4. CASE Drag
  <2>1. popup' = popup /\ mouse'.button = mouse.button
    BY <1>1, <1>4 DEF Drag
  <2> QED
    BY <2>1 DEF NoPopupDuringGesture
<1>5. CASE FinishScan
  <2>1. popup' = [popup EXCEPT !.idx = Remapped(popup.idx, scan.popup)]
        /\ mouse'.button = mouse.button
    BY <1>1, <1>5, FinishedGesture DEF FinishScan
  <2>2. popup'.visible = popup.visible
    BY <1>1, <2>1
  <2> QED
    BY <2>1, <2>2 DEF NoPopupDuringGesture
<1>6. CASE Hover
  <2>1. mouse' = mouse /\ mouse.button = 0
    BY <1>6 DEF Hover
  <2> QED
    BY <2>1 DEF NoPopupDuringGesture
<1>7. CASE UNCHANGED <<mouse, held>> /\ ~ Hover /\ ~ FinishScan
  <2>1. popup'.visible \in {popup.visible, FALSE}
    BY <1>1, <1>7, OtherPopupSteps
  <2> QED
    BY <1>7, <2>1 DEF NoPopupDuringGesture
<1> QED
  BY <1>2, <1>3, <1>4, <1>5, <1>6, <1>7, GestureSteps

\* No popup comes up while a gesture is under way (pager.c:1105, 1156).
THEOREM GesturesHidePopup == Spec => []NoPopupDuringGesture
<1>1. Init => NoPopupDuringGesture
  BY DEF Init, NoPopupDuringGesture
<1> QED
  BY <1>1, HideInductive, InductiveInvariant, PTL DEF Spec

\* The window the popup stands for, remembered by id during a refresh.
PopupTarget == IF pc = "scan" THEN scan.popup ELSE WindowAt(popup.idx)

\* PopupTellsTruth, strengthened to hold during a refresh too, and when the
\* window is gone: a popup with a title stands for the window of that title, or
\* for none any more.
PopupStandsForShown ==
    popup.visible /\ popup.shown # NoWindow => PopupTarget \in {popup.shown, NoWindow}

\* Only the pointer and the end of a refresh change which window that is.
LEMMA PopupTargetSteps ==
    ASSUME IInv, [Next]_vars, ~ Hover, ~ FinishScan
    PROVE  PopupTarget' = PopupTarget
<1>1. popup'.idx = popup.idx
  BY OtherPopupSteps
<1>2. CASE FetchClientList
  BY <1>2 DEF FetchClientList, display, PopupTarget, WindowAt
<1>3. CASE ScanWindow
  BY <1>3 DEF ScanWindow, display, PopupTarget, IInv, TypeOK
<1>4. CASE Drag
  <2>1. PICK to : windows' = [windows EXCEPT ![mouse.idx].client = to]
    BY <1>4 DEF Drag
  <2>2. /\ pc = "next" /\ pc' # "scan"
        /\ mouse.idx \in 1 .. Len(windows) /\ windows \in Seq(ClientWindow)
        /\ popup.idx \in 0 .. Len(windows)
    BY <1>4 DEF Drag, TakeInput, AfterEvent, IInv, TypeOK, IndexInRange
  <2>3. \A i \in 1 .. Len(windows) : windows'[i].window = windows[i].window
    BY <2>1, <2>2 DEF ClientWindow
  <2> QED
    BY <1>1, <2>2, <2>3 DEF PopupTarget, WindowAt
<1>5. CASE pc # "scan" /\ pc' # "scan" /\ windows' = windows
  BY <1>1, <1>5 DEF PopupTarget, WindowAt
<1>6. CASE pager_handle_events /\ ~ FetchClientList /\ ~ ScanWindow
  <2>1. pc # "scan" /\ windows' = windows
    BY <1>6 DEF pager_handle_events, Skip, pager_configure, update_desktop_count, KeepGrid,
       ChangeGrid, NoRoomForGrid, ReadLayout, ClientListMissing, pager_update,
       pager_update_popup
  <2>2. pc' # "scan"
    BY <1>6 DEF pager_handle_events, Skip, pager_configure, update_desktop_count, KeepGrid,
       ChangeGrid, NoRoomForGrid, ReadLayout, ClientListMissing, pager_update,
       pager_update_popup
  <2> QED
    BY <1>5, <2>1, <2>2
<1>7. CASE handle_event /\ ~ Drag
  <2>1. pc # "scan" /\ windows' = windows
    BY <1>7 DEF handle_event, HandleNotification, pager_button_press, pager_button_release,
       MotionWithoutEffect, pager_leave, DivideByZero, TakeInput
  <2>2. pc' # "scan"
    BY <1>7 DEF handle_event, HandleNotification, pager_button_press, pager_button_release,
       MotionWithoutEffect, pager_leave, DivideByZero, AfterEvent
  <2> QED
    BY <1>5, <2>1, <2>2
<1>8. CASE Environment \/ UNCHANGED vars
  BY <1>8 DEF Environment, process, vars, PopupTarget, WindowAt
<1> QED
  BY <1>2, <1>3, <1>4, <1>6, <1>7, <1>8 DEF Next, loop

\* A refresh finds the window of a popup again, or nothing.
LEMMA PopupInductive == IInv /\ PopupStandsForShown /\ [Next]_vars => PopupStandsForShown'
<1> SUFFICES ASSUME IInv, PopupStandsForShown, [Next]_vars
             PROVE  PopupStandsForShown'
  OBVIOUS
<1>1. popup \in [idx : Nat, visible : BOOLEAN, shown : Windows \cup {NoWindow}]
  BY DEF IInv, TypeOK
<1>2. CASE Hover
  <2>1. popup' = popup_hide \/ popup' = popup \/ \E i : popup' = popup_show(i)
    BY <1>2 DEF Hover
  <2>2. popup' # popup => popup'.visible = FALSE \/ popup'.shown = NoWindow
    <3>1. popup_hide.visible = FALSE
      BY <1>1 DEF popup_hide
    <3>2. \A i : popup_show(i).shown = NoWindow
      BY DEF popup_show
    <3> QED
      BY <2>1, <3>1, <3>2
  <2>3. windows' = windows /\ pc = "next" /\ pc' # "scan"
    BY <1>2 DEF Hover, TakeInput, AfterEvent
  <2> QED
    BY <2>2, <2>3 DEF PopupStandsForShown, PopupTarget, WindowAt
<1>3. CASE FinishScan
  <2>1. /\ popup' = [popup EXCEPT !.idx = Remapped(popup.idx, scan.popup)]
        /\ windows' = windows /\ pc = "scan" /\ pc' = "update"
    BY <1>3 DEF FinishScan
  <2>2. /\ popup'.idx = Remapped(popup.idx, scan.popup)
        /\ popup'.visible = popup.visible /\ popup'.shown = popup.shown
    BY <1>1, <2>1
  <2>3. windows \in Seq(ClientWindow) /\ (popup.idx = 0 <=> scan.popup = NoWindow)
    BY <2>1 DEF IInv, TypeOK, ScanRemembers
  <2>4. Remapped(popup.idx, scan.popup) # 0
          => windows[Remapped(popup.idx, scan.popup)].window = scan.popup
    BY <1>1, <2>3, RemappedTypes
  <2>5. PopupTarget = scan.popup /\ PopupTarget' \in {scan.popup, NoWindow}
    BY <2>1, <2>2, <2>4 DEF PopupTarget, WindowAt
  <2> QED
    BY <2>2, <2>5 DEF PopupStandsForShown
<1>4. CASE pager_update_popup
  <2>1. /\ popup' = IF popup.visible /\ popup.idx # 0
                    THEN [popup EXCEPT !.shown = windows[popup.idx].window] ELSE popup
        /\ pc = "popup" /\ pc' = "next" /\ windows' = windows
    BY <1>4 DEF pager_update_popup
  <2>2. CASE popup.visible /\ popup.idx # 0
    <3>1. popup'.idx = popup.idx /\ popup'.shown = windows[popup.idx].window
      BY <1>1, <2>1, <2>2
    <3> QED
      BY <2>1, <2>2, <3>1 DEF PopupStandsForShown, PopupTarget, WindowAt
  <2>3. CASE ~ (popup.visible /\ popup.idx # 0)
    BY <2>1, <2>3 DEF PopupStandsForShown, PopupTarget, WindowAt
  <2> QED
    BY <2>2, <2>3
<1>5. CASE ~ Hover /\ ~ FinishScan /\ ~ pager_update_popup
  <2>1. popup' = popup \/ popup' = popup_hide
    <3>1. CASE pager_handle_events
      BY <1>5, <3>1 DEF pager_handle_events, Skip, pager_configure, update_desktop_count,
         KeepGrid, ChangeGrid, NoRoomForGrid, ReadLayout, ClientListMissing,
         FetchClientList, ScanWindow, pager_update
    <3>2. CASE handle_event
      BY <1>5, <3>2 DEF handle_event, HandleNotification, pager_button_press,
         pager_button_release, MotionWithoutEffect, Drag, pager_leave, DivideByZero
    <3>3. CASE Environment \/ UNCHANGED vars
      BY <3>3 DEF Environment, process, vars
    <3> QED
      BY <3>1, <3>2, <3>3 DEF Next, loop
  <2>2. popup' = popup \/ popup'.visible = FALSE
    BY <1>1, <2>1 DEF popup_hide
  <2>3. PopupTarget' = PopupTarget
    BY <1>5, PopupTargetSteps
  <2> QED
    BY <2>2, <2>3 DEF PopupStandsForShown
<1> QED
  BY <1>2, <1>3, <1>4, <1>5

\* The window of a title is not the one that is none.
LEMMA TitleFollows == IInv /\ PopupStandsForShown => PopupTellsTruth
<1> SUFFICES ASSUME IInv, PopupStandsForShown, pc # "scan", popup.visible,
                    popup.shown # NoWindow, popup.idx # 0
             PROVE  windows[popup.idx].window = popup.shown
  BY DEF PopupTellsTruth
<1>1. windows[popup.idx] \in ClientWindow
  BY DEF IInv, TypeOK, IndexInRange
<1>2. windows[popup.idx].window # NoWindow
  BY <1>1, WindowManagerAssumption DEF ClientWindow
<1> QED
  BY <1>2 DEF PopupStandsForShown, PopupTarget, WindowAt

\* A popup that shows a title shows that of the window it stands for, wherever
\* refreshes move the window (pager.c:345, 409).
THEOREM PopupsTellTruth == Spec => []PopupTellsTruth
<1>1. Init => PopupStandsForShown
  BY DEF Init, PopupStandsForShown
<1> QED
  BY <1>1, PopupInductive, TitleFollows, InductiveInvariant, PTL DEF Spec

\* A popup without a title has an Expose coming, or has had it and is to be
\* painted by the next round of pager_handle_events; and the pager does not wait
\* for an event before that round.
TitleOwed ==
    popup.visible /\ popup.idx # 0 /\ popup.shown = NoWindow
        => "expose_popup" \in notify \/ needs.popup

RoundComes == pc = "next" /\ needs.popup => notify # {} \/ inputs > 0

\* Outside the loop of the pager, events are only ever added to its queue.
LEMMA EventsAdded ==
    ASSUME IInv, Environment
    PROVE  notify \subseteq notify' /\ inputs' >= inputs /\ inputs \in Nat
<1>1. inputs \in Nat
  BY DEF IInv, TypeOK, DisplayTypeOK
<1>2. notify' = notify \/ \E kind : notify' = notify \cup {kind}
  BY DEF Environment, WindowManagerNext, SwitchDesktop, FocusWindow,
     ToggleShowingDesktop, PublishList, ChangeRoot, ChangeLayout, Withdraw, Return,
     OpenWindow, CloseWindow, MoveWindow, AlterWindow, ChangeClient, ResizeOwn, Damage,
     Refuse, Answer, Grant, Obey, UserInput, Announce, Configure
<1>3. inputs' = inputs \/ inputs' = inputs + 1
  BY DEF Environment, WindowManagerNext, SwitchDesktop, FocusWindow,
     ToggleShowingDesktop, PublishList, ChangeRoot, ChangeLayout, Withdraw, Return,
     OpenWindow, CloseWindow, MoveWindow, AlterWindow, ChangeClient, ResizeOwn, Damage,
     Refuse, Answer, Grant, Obey, UserInput
<1> QED
  BY <1>1, <1>2, <1>3

\* The steps of a refresh leave the Expose in the queue, and all but the last one
\* the flag and the popup, except that its window may be lost.
LEMMA RefreshKeepsPopup ==
    ASSUME IInv, pager_handle_events, ~ pager_update_popup
    PROVE  /\ notify \subseteq notify' /\ needs'.popup = needs.popup
           /\ popup'.visible = popup.visible /\ popup'.shown = popup.shown
           /\ popup.idx = 0 => popup'.idx = 0
           /\ pc' = "next" => ~ needs.popup
<1>1. /\ needs \in [configure : BOOLEAN, update : BOOLEAN, properties : BOOLEAN,
                    popup : BOOLEAN]
      /\ popup \in [idx : Nat, visible : BOOLEAN, shown : Windows \cup {NoWindow}]
  BY DEF IInv, TypeOK
<1>2. CASE FinishScan
  <2>1. /\ popup' = [popup EXCEPT !.idx = Remapped(popup.idx, scan.popup)]
        /\ pc = "scan" /\ pc' = "update" /\ notify' = notify /\ needs' = needs
    BY <1>2 DEF FinishScan, display
  <2>2. popup.idx = 0 => Remapped(popup.idx, scan.popup) = 0
    BY <2>1 DEF IInv, ScanRemembers, Remapped
  <2> QED
    BY <1>1, <2>1, <2>2
<1>3. CASE ReadLayout
  <2>1. notify \subseteq notify' /\ popup' = popup
    BY <1>3 DEF ReadLayout, x_set_desktop_layout, Announce
  <2>2. needs' = needs \/ needs' = [needs EXCEPT !.configure = TRUE]
    BY <1>3, ~ pager_update_popup
    DEF pager_handle_events, Skip, pager_configure, update_desktop_count, KeepGrid,
        ChangeGrid, NoRoomForGrid, ReadLayout, ClientListMissing, FetchClientList,
        ScanWindow, FinishScan, pager_update
  <2>3. pc' # "next"
    BY <1>3, ~ pager_update_popup
    DEF pager_handle_events, Skip, pager_configure, update_desktop_count, KeepGrid,
        ChangeGrid, NoRoomForGrid, ReadLayout, ClientListMissing, FetchClientList,
        ScanWindow, FinishScan, pager_update
  <2> QED
    BY <1>1, <2>1, <2>2, <2>3
<1>4. CASE pager_configure \/ FetchClientList \/ ScanWindow \/ ClientListMissing \/ pager_update
  BY <1>1, <1>4 DEF pager_configure, FetchClientList, ScanWindow, ClientListMissing,
     pager_update, display
<1>5. CASE \/ Skip("configure", needs.configure, "layout")
           \/ Skip("layout", needs.properties, "update")
           \/ Skip("update", needs.update, "popup")
           \/ Skip("popup", needs.popup, "next")
  BY <1>1, <1>5 DEF Skip, display
<1> QED
  BY <1>2, <1>3, <1>4, <1>5 DEF pager_handle_events, update_desktop_count, KeepGrid,
     ChangeGrid, NoRoomForGrid

\* A popup that comes up has its Expose coming, and only painting it, or hiding
\* it, uses that up.
LEMMA TitleInductive ==
    IInv /\ TitleOwed /\ RoundComes /\ [Next]_vars => TitleOwed' /\ RoundComes'
<1> SUFFICES ASSUME IInv, TitleOwed, RoundComes, [Next]_vars
             PROVE  TitleOwed' /\ RoundComes'
  OBVIOUS
<1>1. /\ needs \in [configure : BOOLEAN, update : BOOLEAN, properties : BOOLEAN,
                    popup : BOOLEAN]
      /\ popup \in [idx : Nat, visible : BOOLEAN, shown : Windows \cup {NoWindow}]
      /\ notify \subseteq Notification
  BY DEF IInv, TypeOK, DisplayTypeOK
<1>2. popup_hide.visible = FALSE
  BY <1>1 DEF popup_hide
<1>3. CASE pager_update_popup
  <2>1. /\ popup' = IF popup.visible /\ popup.idx # 0
                    THEN [popup EXCEPT !.shown = windows[popup.idx].window] ELSE popup
        /\ needs'.popup = FALSE /\ pc = "popup"
    BY <1>1, <1>3 DEF pager_update_popup
  <2>2. popup.idx # 0 => windows[popup.idx].window # NoWindow
    <3>1. popup.idx # 0 => windows[popup.idx] \in ClientWindow
      BY <1>1, <2>1 DEF IInv, TypeOK, IndexInRange
    <3> QED
      BY <3>1, WindowManagerAssumption DEF ClientWindow
  <2>3. ~ (popup'.visible /\ popup'.idx # 0 /\ popup'.shown = NoWindow)
    BY <1>1, <2>1, <2>2
  <2> QED
    BY <2>1, <2>3 DEF TitleOwed, RoundComes
<1>4. CASE pager_handle_events /\ ~ pager_update_popup
  BY <1>1, <1>4, RefreshKeepsPopup DEF TitleOwed, RoundComes
<1>5. CASE handle_event
  <2>1. RoundComes'
    BY <1>5 DEF handle_event, HandleNotification, pager_button_press,
       pager_button_release, Hover, MotionWithoutEffect, Drag, pager_leave, DivideByZero,
       AfterEvent, XPending, RoundComes
  <2>2. CASE HandleNotification
    <3>1. PICK kind \in notify : notify' = notify \ {kind} /\ needs' = Flags(kind)
      BY <2>2 DEF HandleNotification
    <3>2. popup' = popup
      BY <2>2 DEF HandleNotification
    <3>3. kind \in {"expose", "expose_popup", "configure", "property"}
      BY <1>1, <3>1 DEF Notification
    <3>4. CASE kind = "expose_popup"
      <4>1. needs'.popup = TRUE
        BY <1>1, <3>1, <3>4 DEF Flags
      <4> QED
        BY <2>1, <4>1 DEF TitleOwed
    <3>5. CASE kind # "expose_popup"
      <4>1. needs'.popup = needs.popup
        BY <1>1, <3>1, <3>3, <3>5 DEF Flags
      <4> QED
        BY <2>1, <3>1, <3>2, <3>5, <4>1 DEF TitleOwed
    <3> QED
      BY <3>4, <3>5
  <2>3. CASE Hover
    <3>1. \/ popup' = popup_hide
          \/ popup' = popup /\ UNCHANGED <<notify, needs>>
          \/ \E i : /\ popup' = popup_show(i)
                    /\ show_popups => \E kinds \in PopupEvents : notify' = notify \cup kinds
      BY <2>3 DEF Hover
    <3>2. CASE \E i : /\ popup' = popup_show(i)
                      /\ show_popups => \E kinds \in PopupEvents : notify' = notify \cup kinds
      <4>1. popup'.visible = show_popups
        BY <3>2 DEF popup_show
      <4>2. show_popups => "expose_popup" \in notify'
        BY <3>2 DEF PopupEvents
      <4> QED
        BY <2>1, <4>1, <4>2 DEF TitleOwed
    <3> QED
      BY <1>2, <2>1, <3>1, <3>2 DEF TitleOwed
  <2>4. CASE ~ HandleNotification /\ ~ Hover
    <3>1. UNCHANGED <<notify, needs>> /\ (popup' = popup \/ popup' = popup_hide)
      BY <1>5, <2>4 DEF handle_event, pager_button_press, pager_button_release,
         MotionWithoutEffect, Drag, pager_leave, DivideByZero
    <3> QED
      BY <1>2, <2>1, <3>1 DEF TitleOwed
  <2> QED
    BY <2>2, <2>3, <2>4
<1>6. CASE Environment
  <2>1. /\ notify \subseteq notify' /\ inputs' >= inputs /\ inputs \in Nat /\ inputs' \in Nat
        /\ UNCHANGED <<pc, popup, needs>>
    BY <1>6, EventsAdded, EnvironmentKeepsTypes DEF Environment, process, IInv, TypeOK,
       DisplayTypeOK
  <2> QED
    BY <2>1 DEF TitleOwed, RoundComes
<1>7. CASE UNCHANGED vars
  BY <1>7 DEF vars, display, process, TitleOwed, RoundComes
<1> QED
  BY <1>3, <1>4, <1>5, <1>6, <1>7 DEF Next, loop

\* So there is none without a title when the pager blocks.
LEMMA NoneBlank == IInv /\ PopupStandsForShown /\ TitleOwed /\ RoundComes => PopupTitled
<1> SUFFICES ASSUME IInv, PopupStandsForShown, TitleOwed, RoundComes,
                    Idle, popup.visible, popup.idx # 0
             PROVE  popup.shown = windows[popup.idx].window
  BY DEF PopupTitled
<1>1. popup.shown # NoWindow
  BY DEF TitleOwed, RoundComes, Idle
<1> QED
  BY <1>1, TitleFollows DEF PopupTellsTruth, Idle

\* Whenever the pager blocks, a popup that is up over a window of the copy shows
\* that window's title (pager.c:656-664, 734-739, 979-985).
THEOREM PopupsTitled == Spec => []PopupTitled
<1>1. Init => PopupStandsForShown /\ TitleOwed /\ RoundComes
  BY DEF Init, PopupStandsForShown, TitleOwed, RoundComes
<1> QED
  BY <1>1, NoneBlank, PopupInductive, TitleInductive, InductiveInvariant, PTL DEF Spec

-----------------------------------------------------------------------------
(* The refinement of Gesture *)

\* Requests only ever leave `sent' outside the handlers of user events.
LEMMA SentSteps ==
    ASSUME IInv, [Next]_vars, ~ handle_event
    PROVE  ToSet(sent') \subseteq ToSet(sent)
<1>1. sent \in Seq(UserRequest)
  BY DEF IInv, TypeOK, DisplayTypeOK
<1>2. sent' = sent \/ sent' = <<>> \/ (sent # <<>> /\ sent' = Tail(sent))
  <2>1. CASE pager_handle_events
    BY <2>1 DEF pager_handle_events, Skip, pager_configure, update_desktop_count, KeepGrid,
       ChangeGrid, NoRoomForGrid, ReadLayout, ClientListMissing, FetchClientList, ScanWindow,
       FinishScan, pager_update, pager_update_popup, display
  <2>2. CASE Environment
    BY <2>2 DEF Environment, WindowManagerNext, SwitchDesktop, FocusWindow,
       ToggleShowingDesktop, PublishList, ChangeRoot, ChangeLayout, Withdraw, Return,
       OpenWindow, CloseWindow, MoveWindow, AlterWindow, ChangeClient, ResizeOwn, Damage,
       Refuse, Answer, Grant, Obey, UserInput
  <2>3. CASE UNCHANGED vars
    BY <2>3 DEF vars, display
  <2> QED
    BY <2>1, <2>2, <2>3 DEF Next, loop
<1>3. sent # <<>> => \A i \in 1 .. Len(Tail(sent)) : Tail(sent)[i] = sent[i + 1]
                                                  /\ i + 1 \in 1 .. Len(sent)
  BY <1>1
<1> QED
  BY <1>1, <1>2, <1>3 DEF ToSet

\* What a concatenation holds.
LEMMA ConcatenationSet ==
    ASSUME NEW T, NEW s \in Seq(T), NEW t \in Seq(T)
    PROVE  ToSet(s \o t) = ToSet(s) \cup ToSet(t)
<1> DEFINE all == s \o t
<1>1. /\ DOMAIN all = 1 .. Len(all) /\ DOMAIN s = 1 .. Len(s) /\ DOMAIN t = 1 .. Len(t)
      /\ Len(s) \in Nat /\ Len(t) \in Nat /\ Len(all) = Len(s) + Len(t)
      /\ \A i \in 1 .. Len(all) : all[i] = IF i <= Len(s) THEN s[i] ELSE t[i - Len(s)]
  OBVIOUS
<1> HIDE DEF all
<1>2. \A i \in 1 .. Len(t) : all[i + Len(s)] = t[i] /\ i + Len(s) \in 1 .. Len(all)
  BY <1>1
<1>3. \A i \in 1 .. Len(s) : all[i] = s[i] /\ i \in 1 .. Len(all)
  BY <1>1
<1>4. \A i \in 1 .. Len(all) : \/ i \in 1 .. Len(s) /\ all[i] = s[i]
                               \/ i - Len(s) \in 1 .. Len(t) /\ all[i] = t[i - Len(s)]
  BY <1>1
<1>5. ToSet(s) \subseteq ToSet(all) /\ ToSet(t) \subseteq ToSet(all)
  <2>1. ToSet(s) \subseteq ToSet(all)
    BY <1>1, <1>3 DEF ToSet
  <2>2. ToSet(t) \subseteq ToSet(all)
    BY <1>1, <1>2 DEF ToSet
  <2> QED
    BY <2>1, <2>2
<1>6. ToSet(all) \subseteq ToSet(s) \cup ToSet(t)
  BY <1>1, <1>4 DEF ToSet
<1> QED
  BY <1>5, <1>6 DEF all

LEMMA SingletonSet ==
    ASSUME NEW r
    PROVE  ToSet(<<r>>) = {r}
BY DEF ToSet

\* A handler adds what it asks for to the requests that wait.
LEMMA SentAdds ==
    ASSUME IInv, NEW reqs \in Seq(UserRequest), Sent(reqs)
    PROVE  /\ ToSet(reqs) \subseteq ToSet(sent')
           /\ ToSet(sent') \subseteq ToSet(sent) \cup ToSet(reqs)
<1>1. sent \in Seq(UserRequest)
  BY DEF IInv, TypeOK, DisplayTypeOK
<1>2. CASE sent' = reqs
  BY <1>2 DEF ToSet
<1>3. CASE sent' = sent \o reqs
  BY <1>1, <1>3, ConcatenationSet
<1>4. sent' = reqs \/ sent' = sent \o reqs
  BY DEF Sent
<1> QED
  BY <1>2, <1>3, <1>4

-----------------------------------------------------------------------------
(* The steps *)

MouseType == [idx : Nat, window_x : Int, window_y : Int, button : Nat, click : Int \X Int,
              dragging : BOOLEAN]

\* Without a gesture there is no window.
LEMMA NoGestureNoWindow ==
    ASSUME IInv, GestureUnderHeldButton, mouse.button = 0
    PROVE  mouse.idx = 0 /\ Target = NoWindow
<1>1. 0 \notin held
  BY PagerAssumption DEF IInv, TypeOK
<1>2. mouse.idx = 0
  BY <1>1 DEF GestureUnderHeldButton
<1> QED
  BY <1>2 DEF IInv, ScanRemembers, Target, WindowAt

LEMMA TargetTypes ==
    ASSUME IInv
    PROVE  /\ Target \in Windows \cup {NoWindow}
           /\ pc # "scan" => (mouse.idx # 0 <=> Target # NoWindow)
<1>1. CASE pc = "scan"
  BY <1>1 DEF IInv, TypeOK, Target
<1>2. CASE pc # "scan"
  <2>1. mouse.idx \in Nat /\ mouse.idx <= Len(windows) /\ windows \in Seq(ClientWindow)
    BY <1>2 DEF IInv, TypeOK, IndexInRange
  <2> QED
    BY <1>2, <2>1, WindowAtTypes DEF Target
<1> QED
  BY <1>1, <1>2

\* A refresh ends: the window is found again, or lost.
LEMMA FinishIsLoss ==
    ASSUME IInv, FinishScan
    PROVE  G!LoseWindow \/ G!Answer
<1>1. mouse \in MouseType
  BY DEF IInv, TypeOK, MouseType
<1>2. mouse' = [mouse EXCEPT !.idx = mouse'.idx] /\ Target' \in {Target, NoWindow}
  BY FinishedGesture
<1>3. UNCHANGED <<mouse.button, mouse.dragging>>
  BY <1>1, <1>2 DEF MouseType
<1>4. sent' = sent
  BY DEF FinishScan, display
<1> QED
  BY <1>2, <1>3, <1>4 DEF G!LoseWindow, G!Answer, G!AsksOnly, G!gesture

\* A press starts a gesture or is ignored.
LEMMA PressIsPress ==
    ASSUME IInv, pager_button_press
    PROVE  G!Press \/ G!Answer
<1>1. PICK b \in Buttons, p \in Points :
        LET at  == coords_to_root(geo, p)
            idx == get_window_idx(windows, geo, at)
        IN  /\ TakeInput(<<>>)
            /\ UNCHANGED windows /\ pc = "next" /\ pc' # "scan"
            /\ mouse' = IF ~ StartsGesture(b) THEN mouse
                        ELSE IF idx = 0
                        THEN [mouse EXCEPT !.button = b, !.dragging = FALSE,
                                           !.click = p, !.idx = 0]
                        ELSE [idx |-> idx, button |-> b, dragging |-> FALSE, click |-> p,
                              window_x |-> at.rx - windows[idx].client.x,
                              window_y |-> at.ry - windows[idx].client.y]
  BY DEF pager_button_press, TakeInput, AfterEvent
<1>2. mouse \in MouseType
  BY DEF IInv, TypeOK, MouseType
<1>3. ToSet(sent') \subseteq ToSet(sent)
  <2>1. Sent(<<>>)
    BY <1>1 DEF TakeInput
  <2>2. <<>> \in Seq(UserRequest) /\ ToSet(<<>>) = {}
    BY DEF ToSet
  <2> QED
    BY <2>1, <2>2, SentAdds
<1>4. CASE ~ StartsGesture(b)
  <2>1. mouse' = mouse /\ Target' = Target
    BY <1>1, <1>4 DEF Target, WindowAt
  <2> QED
    BY <1>3, <2>1 DEF G!Answer, G!gesture
<1>5. CASE StartsGesture(b)
  <2>1. mouse.button = 0 /\ b \in {1, 2}
    BY <1>5 DEF StartsGesture
  <2>2. mouse'.button = b /\ mouse'.dragging = FALSE
    BY <1>1, <1>2, <1>5 DEF MouseType
  <2>3. Target' \in Windows \cup {NoWindow}
    <3>1. IInv'
      BY PressInv
    <3>2. windows' \in Seq(ClientWindow) /\ mouse'.idx \in Nat /\ mouse'.idx <= Len(windows')
      BY <1>1, <3>1 DEF IInv, TypeOK, IndexInRange
    <3>3. mouse'.idx # 0 => windows'[mouse'.idx] \in ClientWindow
      BY <3>2
    <3>4. Target' = IF mouse'.idx = 0 THEN NoWindow ELSE windows'[mouse'.idx].window
      BY <1>1 DEF Target, WindowAt
    <3> QED
      BY <3>3, <3>4 DEF ClientWindow
  <2> QED
    BY <1>3, <2>1, <2>2, <2>3 DEF G!Press, G!AsksOnly
<1> QED
  BY <1>4, <1>5

\* The release of another button is ignored.  The one that ends the gesture asks
\* for what Gesture says.
LEMMA ReleaseIsRelease ==
    ASSUME IInv, GestureUnderHeldButton, pager_button_release
    PROVE  G!Release \/ G!Answer
<1> DEFINE reqs(b, p) == IF mouse.button = b
                         THEN ReleaseRequests(b, coords_to_root(geo, p).desk) ELSE <<>>
<1>1. PICK b \in held, p \in Points :
        /\ mouse.button = b => ~ NoCells(geo)
        /\ TakeInput(reqs(b, p))
        /\ mouse' = IF mouse.button # b THEN mouse ELSE Released
  BY DEF pager_button_release
<1>2. UNCHANGED windows /\ pc = "next" /\ pc' # "scan"
  BY DEF pager_button_release, TakeInput, AfterEvent
<1>3. mouse \in MouseType /\ geo \in PagerGeometry /\ windows \in Seq(ClientWindow)
      /\ b \in Nat \ {0} /\ p \in Int \X Int
      /\ mouse.idx \in 0 .. Len(windows)
  BY <1>1, <1>2, PagerAssumption DEF IInv, TypeOK, MouseType, IndexInRange
<1>4. Sent(reqs(b, p))
  BY <1>1 DEF TakeInput
<1>5. CASE mouse.button # b
  <2>1. mouse' = mouse /\ Target' = Target
    BY <1>1, <1>2, <1>5 DEF Target, WindowAt
  <2>2. reqs(b, p) = <<>> /\ <<>> \in Seq(UserRequest) /\ ToSet(<<>>) = {}
    BY <1>5 DEF ToSet
  <2> HIDE DEF reqs
  <2>3. ToSet(sent') \subseteq ToSet(sent)
    BY <1>4, <2>2, SentAdds
  <2> QED
    BY <2>1, <2>3 DEF G!Answer, G!gesture
<1>6. CASE mouse.button = b
  <2>1. mouse'.button = 0 /\ mouse'.idx = 0 /\ mouse'.dragging = FALSE
    BY <1>1, <1>3, <1>6 DEF Released, MouseType
  <2>2. Target' = NoWindow
    BY <1>2, <2>1 DEF Target, WindowAt
  <2>3. mouse.idx # 0 <=> Target # NoWindow
    BY <1>2, TargetTypes
  <2>4. mouse.idx # 0 => Target = windows[mouse.idx].window /\ Target \in Windows
    <3>1. mouse.idx # 0 => windows[mouse.idx] \in ClientWindow
      BY <1>3
    <3> QED
      BY <1>2, <3>1 DEF Target, WindowAt, ClientWindow
  <2> DEFINE desk == coords_to_root(geo, p).desk
             switch == x_set_current_desktop(desk)
             activate == x_set_active_window(Target)
  <2>5. desk \in Int
    BY <1>1, <1>3, <1>6, CoordsTypes
  <2> HIDE DEF desk
  <2>6. /\ switch \in UserRequest /\ switch.kind = "current_desktop"
        /\ activate.kind = "active_window" /\ activate.window = Target
        /\ mouse.idx # 0 => activate \in UserRequest
    BY <2>4, <2>5 DEF UserRequest, x_set_current_desktop, x_set_active_window
  <2>7. reqs(b, p) = CASE b # 1 \/ (mouse.idx # 0 /\ mouse.dragging) -> <<>>
                       [] b = 1 /\ mouse.idx = 0 -> <<switch>>
                       [] b = 1 /\ mouse.idx # 0 /\ ~ mouse.dragging -> <<switch, activate>>
    BY <1>6, <2>4 DEF ReleaseRequests, desk
  <2> HIDE DEF reqs, switch, activate
  <2>8. CASE b # 1 \/ (mouse.idx # 0 /\ mouse.dragging)
    <3>1. reqs(b, p) = <<>> /\ <<>> \in Seq(UserRequest) /\ ToSet(<<>>) = {}
      BY <2>7, <2>8 DEF ToSet
    <3>2. ToSet(sent') \subseteq ToSet(sent)
      BY <1>4, <3>1, SentAdds
    <3> QED
      BY <1>3, <1>6, <2>1, <2>2, <2>3, <2>8, <3>2 DEF G!Release, G!AsksOnly
  <2>9. CASE b = 1 /\ mouse.idx = 0
    <3>1. reqs(b, p) = <<switch>> /\ <<switch>> \in Seq(UserRequest)
      BY <2>6, <2>7, <2>9
    <3>2. ToSet(<<switch>>) = {switch}
      BY DEF ToSet
    <3>3. switch \in ToSet(sent') /\ ToSet(sent') \ ToSet(sent) \subseteq {switch}
      BY <1>4, <3>1, <3>2, SentAdds
    <3>4. G!AsksOnly({"current_desktop"}) /\ G!Asks("current_desktop")
      BY <2>6, <3>3 DEF G!AsksOnly, G!Asks
    <3>5. Target = NoWindow
      BY <2>3, <2>9
    <3>6. {k \in {"current_desktop"} : TRUE} \cup {k \in {"active_window"} : FALSE}
            = {"current_desktop"}
      OBVIOUS
    <3> QED
      BY <1>6, <2>1, <2>2, <2>9, <3>4, <3>5, <3>6 DEF G!Release
  <2>10. CASE b = 1 /\ mouse.idx # 0 /\ ~ mouse.dragging
    <3>1. reqs(b, p) = <<switch, activate>> /\ <<switch, activate>> \in Seq(UserRequest)
      BY <2>6, <2>7, <2>10
    <3>2. ToSet(<<switch, activate>>) = {switch, activate}
      BY DEF ToSet
    <3>3. /\ {switch, activate} \subseteq ToSet(sent')
          /\ ToSet(sent') \ ToSet(sent) \subseteq {switch, activate}
      BY <1>4, <3>1, <3>2, SentAdds
    <3>4. /\ G!AsksOnly({"current_desktop", "active_window"})
          /\ G!Asks("current_desktop") /\ G!Asks("active_window")
      BY <2>6, <3>3 DEF G!AsksOnly, G!Asks
    <3>5. Target # NoWindow
      BY <2>3, <2>10
    <3>6. {k \in {"current_desktop"} : TRUE} \cup {k \in {"active_window"} : TRUE}
            = {"current_desktop", "active_window"}
      OBVIOUS
    <3> QED
      BY <1>6, <2>1, <2>2, <2>10, <3>4, <3>5, <3>6 DEF G!Release
  <2> QED
    BY <2>8, <2>9, <2>10
<1> QED
  BY <1>5, <1>6

\* A drag asks for its own window only, and never loses it.
LEMMA DragIsDrag ==
    ASSUME IInv, Drag
    PROVE  G!DragWindow
<1> DEFINE to(p) == Onto(windows[mouse.idx].client, coords_to_root(geo, p))
           reqs(p) == DragRequests(windows[mouse.idx], to(p))
<1>1. PICK p \in Points :
        /\ TakeInput(reqs(p))
        /\ windows' = [windows EXCEPT ![mouse.idx].client = to(p)]
  BY DEF Drag
<1>2. /\ mouse \in MouseType /\ windows \in Seq(ClientWindow) /\ geo \in PagerGeometry
      /\ mouse.idx \in 1 .. Len(windows) /\ p \in Int \X Int /\ ~ NoCells(geo)
      /\ mouse.button # 0 /\ pc = "next" /\ pc' # "scan"
  BY <1>1, PagerAssumption DEF Drag, TakeInput, AfterEvent, IInv, TypeOK, IndexInRange, MouseType
<1>3. /\ mouse'.idx = mouse.idx /\ mouse'.button = mouse.button /\ mouse'.dragging = TRUE
  BY <1>2 DEF Drag, MouseType
<1>4. Target = windows[mouse.idx].window /\ Target \in Windows
  <2>1. windows[mouse.idx] \in ClientWindow /\ mouse.idx # 0
    BY <1>2
  <2> QED
    BY <1>2, <2>1 DEF Target, WindowAt, ClientWindow
<1>5. Target' = Target
  <2>1. windows'[mouse.idx].window = windows[mouse.idx].window
    BY <1>1, <1>2 DEF ClientWindow
  <2> QED
    BY <1>2, <1>3, <1>4, <2>1 DEF Target, WindowAt
<1>6. windows[mouse.idx] \in ClientWindow /\ to(p) \in Client
  <2>1. coords_to_root(geo, p) \in [rx : Int, ry : Int, desk : Int]
    BY <1>2, CoordsTypes
  <2>2. windows[mouse.idx] \in ClientWindow
    BY <1>2
  <2>3. windows[mouse.idx].client \in Client
    BY <2>2 DEF ClientWindow
  <2> QED
    BY <1>2, <2>1, <2>2, <2>3, OntoTypes DEF IInv
<1> HIDE DEF to
<1>7. reqs(p) \in Seq(UserRequest)
  BY <1>6, DragRequestTypes
<1> DEFINE desktop == x_window_set_desktop(Target, to(p).desk)
           unshade == x_window_set_shaded(Target)
           geometry == x_window_set_geometry(Target, to(p).x, to(p).y)
<1>8. {desktop, unshade, geometry} \subseteq UserRequest
  BY <1>4, <1>6 DEF UserRequest, Client, x_window_set_desktop, x_window_set_shaded,
     x_window_set_geometry
<1>9. /\ ToSet(reqs(p)) \subseteq {desktop, unshade, geometry}
      /\ mouse.button # 2 => ToSet(reqs(p)) \subseteq {desktop}
      /\ mouse.button = 2 => geometry \in ToSet(reqs(p))
  <2> DEFINE A == OnlyIf(to(p).desk # windows[mouse.idx].client.desk, desktop)
             B == OnlyIf(mouse.button = 2 /\ "shaded" \in windows[mouse.idx].client.states,
                         unshade)
             C == OnlyIf(mouse.button = 2, geometry)
  <2>1. reqs(p) = A \o B \o C
    BY <1>4 DEF DragRequests
  <2>2. /\ A = <<>> \/ A = <<desktop>>
        /\ B = <<>> \/ (mouse.button = 2 /\ B = <<unshade>>)
        /\ C = IF mouse.button = 2 THEN <<geometry>> ELSE <<>>
    BY DEF OnlyIf
  <2> HIDE DEF A, B, C, reqs, desktop, unshade, geometry
  <2>3. A \in Seq(UserRequest) /\ B \in Seq(UserRequest) /\ C \in Seq(UserRequest)
    <3>1. /\ <<desktop>> \in Seq(UserRequest) /\ <<unshade>> \in Seq(UserRequest)
          /\ <<geometry>> \in Seq(UserRequest) /\ <<>> \in Seq(UserRequest)
      BY <1>8
    <3> QED
      BY <2>2, <3>1, Zenon
  <2> DEFINE AB == A \o B
  <2>4. AB \in Seq(UserRequest) /\ ToSet(AB) = ToSet(A) \cup ToSet(B)
    BY <2>3, ConcatenationSet
  <2> HIDE DEF AB
  <2>5. ToSet(AB \o C) = ToSet(AB) \cup ToSet(C)
    BY <2>3, <2>4, ConcatenationSet
  <2>6. ToSet(reqs(p)) = ToSet(A) \cup ToSet(B) \cup ToSet(C)
    BY <2>1, <2>4, <2>5 DEF AB
  <2>7. ToSet(<<>>) = {}
    BY DEF ToSet
  <2>8. /\ ToSet(A) \subseteq {desktop} /\ ToSet(B) \subseteq {unshade}
        /\ mouse.button # 2 => ToSet(B) = {} /\ ToSet(C) = {}
        /\ mouse.button = 2 => ToSet(C) = {geometry}
    BY <2>2, <2>7, SingletonSet
  <2> QED
    BY <2>6, <2>8
<1>10. /\ ToSet(reqs(p)) \subseteq ToSet(sent')
      /\ ToSet(sent') \subseteq ToSet(sent) \cup ToSet(reqs(p))
  BY <1>1, <1>7, SentAdds DEF TakeInput
<1>11. /\ desktop.kind = "desktop" /\ desktop.window = Target
       /\ unshade.kind = "unshade" /\ unshade.window = Target
       /\ geometry.kind = "geometry" /\ geometry.window = Target
  BY DEF x_window_set_desktop, x_window_set_shaded, x_window_set_geometry
<1> HIDE DEF reqs, desktop, unshade, geometry
<1>12. G!AsksOnly({"desktop"} \cup IF mouse.button = 2 THEN {"unshade", "geometry"} ELSE {})
  BY <1>9, <1>10, <1>11 DEF G!AsksOnly
<1>13. mouse.button = 2 => G!Asks("geometry")
  BY <1>9, <1>10, <1>11 DEF G!Asks
<1>14. Target # NoWindow
  BY <1>4, WindowManagerAssumption
<1> QED
  BY <1>2, <1>3, <1>5, <1>12, <1>13, <1>14 DEF G!DragWindow

\* Without requests and a button there is no gesture.
LEMMA NoGesture ==
    ASSUME sent = <<>>, mouse.idx = 0, mouse.button = 0, mouse.dragging = FALSE, pc # "scan"
    PROVE  G!Init
<1>1. ToSet(<<>>) = {}
  BY DEF ToSet
<1> QED
  BY <1>1 DEF G!Init, Target, WindowAt

\* Each step of the pager is one of Gesture, or changes nothing there.
LEMMA StepIsGesture ==
    ASSUME IInv, GestureUnderHeldButton, [Next]_vars
    PROVE  [G!Next]_G!vars
<1>1. CASE FinishScan
  BY <1>1, FinishIsLoss DEF G!Next
<1>2. CASE pager_button_press
  BY <1>2, PressIsPress DEF G!Next
<1>3. CASE pager_button_release
  BY <1>3, ReleaseIsRelease DEF G!Next
<1>4. CASE Drag
  BY <1>4, DragIsDrag DEF G!Next
<1>5. CASE /\ UNCHANGED <<mouse, held>> /\ Target' = Target
           /\ ~ pager_button_press /\ ~ pager_button_release /\ ~ Drag
  <2>1. ToSet(sent') \subseteq ToSet(sent)
    <3>1. CASE HandleNotification
      BY <3>1 DEF HandleNotification
    <3>2. CASE Hover \/ MotionWithoutEffect \/ pager_leave \/ DivideByZero
      <4>1. Sent(<<>>)
        BY <3>2 DEF Hover, MotionWithoutEffect, pager_leave, DivideByZero, TakeInput
      <4>2. <<>> \in Seq(UserRequest) /\ ToSet(<<>>) = {}
        BY DEF ToSet
      <4> QED
        BY <4>1, <4>2, SentAdds
    <3> QED
      BY <1>5, <3>1, <3>2, SentSteps DEF handle_event
  <2> QED
    BY <1>5, <2>1 DEF G!Next, G!Answer, G!gesture
<1> QED
  BY <1>1, <1>2, <1>3, <1>4, <1>5, GestureSteps

\* The gestures the pager carries out are those of Gesture, for every number of
\* windows and every behaviour of the window manager (pager.c:1101-1219).
THEOREM GesturesImplemented == Spec => GestureImplemented
<1>1. Init => G!Init
  BY NoGesture DEF Init
<1>2. IInv /\ GestureUnderHeldButton /\ [Next]_vars => [G!Next]_G!vars
  BY StepIsGesture
<1> QED
  BY <1>1, <1>2, InductiveInvariant, GesturesHoldButtons, PTL
  DEF GestureImplemented, G!Spec, Spec

=============================================================================
