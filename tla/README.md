# netwmpager: specification and proofs

netwmpager is a desktop pager for X11: a small window that shows the virtual
desktops as a grid of cells, the windows on them as rectangles, and lets the
user switch desktops, activate windows and drag windows between desktops.  It is
one single-threaded C process, but what it does is all interleaving: its picture
of the desktop is a copy of state that belongs to the X server and the window
manager (WM), brought up to date request by request while both change it, and
the user points at that copy.  This directory models that.

Line numbers are those of the source files next to this directory (`src/`).

## 1. Inventory

| Component | State | Operations | Module |
|---|---|---|---|
| Event loop (`main.c:50-115`) | event queue, `running` | `loop`, `handle_event` | `Pager` |
| Refresh (`pager.c:232-414, 578-682, 979-1009`) | `needs_*` flags, `windows[]`, `active_*`, grid and size, pixmap | `pager_configure`, `update_desktop_count`, `pager_update_properties`, `pager_update`, `pager_update_popup`, three flag-setting handlers | `Pager` |
| Mouse gestures, popup (`pager.c:694-748, 1101-1224`) | `struct mouse`, `popup_idx`, `popup_visible` | press, release, motion, enter, leave | `Pager`; what they promise: `Gesture`, `PagerGesture` |
| Geometry, hit testing (`pager.c:189-308, 474-576`) | none (fields of `struct pager`) | sizes, positions, strut, pixel to desktop, window under the pointer, rectangle of a window | `Geometry` |
| Desktop layout (`x.c:372-444`) | two root properties | read, derive, overrule | `DesktopLayout`, `Pager` |
| EWMH reads and messages (`x.c`) | none | property reads, client messages | `Pager`, `WindowManager` |
| X server, WM, user (external) | root properties, clients, the pager's window, pending requests and notifications, buttons held | everything that happens on its own, and answers | `WindowManager` |
| Start (`pager.c:767-953, 1074-1099`) | the locals of `pager_new` | wait for a WM, choose the grid, create, select events, show | `Startup` |
| Configuration (`sconf.c`, `main.c:155-259`) | option list, settings | parse a line, replace an option, typed questions, corrections, free | `ConfigFile`, `Config`, `OptionList` |
| Linked lists (`list.h`) | links inside the entries | `list_add_tail`, `list_del`, loops | `List` |
| Command line (`opt.c`, `main.c:145-153, 261-290`) | argument vector, display name | `options_parse`, `option_handler`, `main` up to `x_init` | `CommandLine` |
| Drawing, fonts, icons (`pager.c:157-174, 416-524, 1022-1047`) | pixmap | output only | `Image` of `Pager` says what is shown |
| Files, memory (`file.c`, `xmalloc.c`) | - | library code | not modelled, see section 7 |

How they interact.  `main` loads the configuration, parses its arguments,
connects, creates and shows the pager and enters `loop`: handle events until the
queue is empty, then let `pager_handle_events` act on the flags the events set,
then block.  Handlers of Expose, ConfigureNotify and PropertyNotify only set
flags; handlers of the mouse work directly on the copy and send messages to the
WM.  `pager_handle_events` reads the server synchronously (`XSynchronize` is
on), so the display can change between any two of its requests, and every change
of the root window is announced by an event that will be handled in a later
round.  So it can during `pager_new`, before anything is announced.

What is hard, and what must be true in spite of it:

* **Indices into an array that is rebuilt** (`pager.c:343-410`).  The window
  being dragged and the window of the popup are indices of `windows[]`, which
  every refresh frees and fills again, shorter or in another order:
  `IndexInRange`, `ScanRemembers`, `DragKeepsWindow`, `PopupTellsTruth`, and
  altogether `GestureImplemented`: a gesture is one with a window, not an index.
* **A copy read in pieces** (`pager.c:325-414`): layout, list, each window,
  current desktop and active window are read one after the other:
  `Settles`, `HighlightTrue`.
* **A grid whose cell size is computed a round later** (`pager.c:306`):
  `GridFreshOrOwed`, `LayoutSettles`, `GridCurrentWhenIdle`, `StrutCoversPager`.
* **Feedback through the WM**: the pager overrules root properties and is told
  of it (`x.c:438`); it changes its copy ahead of the WM (`pager.c:1195`):
  `LayoutSettles`, `ExchangeEnds`, `CopyAgreesOnPlace`.
* **A start that races the WM's** (`pager.c:795-822, 951`): the WM comes up,
  publishes its properties one by one, goes away, drops requests, and changes the
  desktop before the pager listens: `StartEnds`, `WaitsItsTime`,
  `ConfiguredGridKept`, `ConfiguredGridGranted`, `SettlesFromStart`.
* **Gestures across several buttons and refreshes** (`pager.c:1101-1149`):
  `GestureUnderHeldButton`, `NoPopupDuringGesture`.
* **A popup drawn an event later** (`pager.c:656-664, 734-739`): its title waits for
  the Expose of its mapping, and putting it up causes a refresh itself: `PopupTitled`.
* **Memory that is linked, replaced and freed** (`sconf.c:58-73, 262-293`):
  `ListSound`, `NamesUnique`, `ConfigImplemented`.
* **Two computations of one thing** (`pager.c:474-521, 543-576`): what is painted at a
  pixel and what a click there picks: `PicksWhatIsSeen`.
* **Arithmetic at its limits**: pixels outside the grid, cells of size zero,
  a derived height of zero, conversions of numbers of the configuration file:
  `DesktopInRange`, `DeadOnlyWithoutRoom`, `Alive`, `SettingsSane`, `OpacityInRange`.
* **Two things that end the program early** (`main.c:267-268`): the configuration
  is loaded before the arguments are looked at, and each may end the program:
  `AnswersAsked`, `HelpWithoutConfig`.

`PROJECT.json` lists every hazard at its line with the properties that cover it,
and says why where none does.

## 2. Plan

Done, in this order, the behaviour that matters most first:

1. `Geometry`, `DesktopLayout`: the pure functions.
2. `WindowManager`: the environment.
3. `Pager` EXTENDS `Geometry, WindowManager`: the process, composed with it.
   `MCPager` and its configurations.
4. `GeometryProofs`, `PagerProofs` (types, indices, what the pointer picks, and the
   environment), `PagerRefreshProofs` (grid, strut, highlights, copy, picture).
5. `Config`: the configuration with its options in a sequence.
6. `Gesture`, an abstract specification of what a mouse gesture promises,
   implemented by `Pager` (`PagerGesture`); `PagerGestureProofs` (gestures, popup).
7. `Startup` EXTENDS `Pager`: `pager_new` and `pager_show`, handing over to the
   event loop; `StartupProofs`.
8. A WM that limits its desktops (`DesktopLimit` of `WindowManager`), for which
   the exchange over the layout may not end (`ExchangeEnds`); the strut of a
   pager that is laid out again (`StrutCoversPager`).
9. `List`: `list.h` at pointer level; `OptionList`: the configuration with its
   options in linked memory, implementing `Config`; `ListProofs`,
   `OptionListProofs`.
10. `CommandLine` EXTENDS `OptionList`: `main` up to the connection;
    `CommandLineProofs`.

Left: the reads of one client as separate steps, for the window that is
destroyed between them (`main.c:137`).

## 3. The model

### `Pager` and `WindowManager`

One TLA+ step of the process is one exchange with the server or one event.  `pc`
names the step to come:

```
configure -> layout -> list -> scan ... scan -> update -> popup -> next ... next -+
    ^                    |                        ^                               |
    |                    +-- no client list ------+                               |
    +--------------------------- queue empty ------------------------------------+
```

| TLA+ | C |
|---|---|
| `pager_configure` | `pager_configure`: read own size, insist on the position, cell size, new background, strut |
| `KeepGrid`, `ChangeGrid`, `NoRoomForGrid` | `update_desktop_count` with `x_get_desktop_layout` and `x_set_desktop_layout` inside |
| `ClientListMissing`, `FetchClientList`, `ScanWindow`, `FinishScan` | `pager_update_properties`, one step per window |
| `pager_update`, `pager_update_popup` | the same |
| `HandleNotification` | `pager_expose_event`, `pager_configure_notify`, `pager_property_notify` |
| `pager_button_press`, `pager_button_release`, `pager_leave` | the same |
| `Hover`, `MotionWithoutEffect`, `Drag` | the branches of `pager_motion` (which is `pager_enter`, too) |
| `DivideByZero` | `pager_coords_to_root` when a cell has no pixel |
| `AfterEvent` | the condition of the loop in `main.c:108-113` |

| Variable | C |
|---|---|
| `windows` | `windows[0 .. nr_windows-1]`, each `[window, client]` |
| `geo` | `cols, rows, x, y, w, h, desk_w, desk_h`; `attached`: the window's background is the current pixmap |
| `mouse` | `struct mouse`; `idx` is `window_idx + 1`, `button` 0 is -1 |
| `popup` | `popup_idx + 1`, `popup_visible`, `shown`: whose title the popup window displays |
| `needs` | the four `needs_*` flags |
| `scan` | the locals of `pager_update_properties`: windows left, `move_win`, `popup_win` |
| `picture` | what the X server shows in the pager's window |
| `root`, `clients`, `own` | root properties, client properties, the pager's window |
| `requests`, `sent` | messages to the WM the WM has not acted on: about the pager and the layout, and from gestures |
| `notify`, `inputs` | the event queue |
| `held` | mouse buttons down |

The WM changes the root properties and the clients at will, one change a step,
and answers requests; `Kinds` selects which changes an instance explores. It may
refuse, withdraw its properties (and drop requests) and come back.  Changes of
the root window and moves of clients are announced; other changes of a client
are not, because nothing selects them (`pager.c:399`).

Abstractions, and why they do no harm:

* Notifications are a set, not a queue: their handlers set flags, so that their
  number and order make no difference.  What a user event says (button, pixel) is
  chosen when it is handled; it can therefore not be older than the buttons
  held.
* Reading the number of desktops and the layout is one step, and so is reading
  one client (type, states, desktop, geometry); the title, which falls back to
  "?", is not read at all. A window without `_NET_WM_STATE` counts as unreadable,
  like a closed one (`pager.c:371`).
* `x_window_set_geometry` on a window that is gone is a request the WM ignores.
  The pager's own window is always readable.
* The scale of coordinates is an exact quotient, not a double; instances use
  root sizes that are multiples of the cell size, where both agree.  Products
  do not overflow an `int`.
* The title of a popup becomes visible only when its Expose is handled, because
  what is drawn before the window is mapped is lost.  The popup is a child of the
  root window, whose children's moves the pager has selected (`pager.c:951`), so
  that `popup_show` also announces a ConfigureNotify, and thereby a
  `pager_configure` and a full refresh, unless the popup stays where and as large
  as it was (`PopupEvents`).
* Popup placement, fonts, colours, `w_extra` and `h_extra` (which only pad the
  last column and row of the picture) are left out.  `x_window_get_geometry` is
  taken to return root coordinates, as the comment `x.c:673` has it; it translates
  the window's place in its parent instead of 0, 0 (`x.c:680`), which is the same
  only for a window at the origin of its parent.
* `MaxChanges`, `MaxInputs` and `MaxRequests` bound what the environment does and
  how much waits; the guards that use them name them.

### `Gesture` and `PagerGesture`

`Gesture` is what a user expects of the mouse: a press of button 1 or 2 begins a
gesture, over a window or the background; drags move that window; the release
ends it, and the WM is asked for what the gesture is for, about that window,
and for nothing else.  A gesture may lose its window, and never gets another.
There are no indices, refreshes or pixels in it.  `PagerGesture` maps the pager
to it:

| `Gesture` | `Pager` |
|---|---|
| `button`, `dragging` | the fields of `mouse` |
| `target` | `Target`: the window at `mouse.idx`, or `scan.move` while `windows` is rebuilt |
| `asked` | the set of requests in `sent` |

### `Startup`

`Startup` extends `Pager` by what comes before `loop`.  `stage` is where
`pager_new` or `pager_show` is:

```
check --> probe --> choose --> create --> select --> show --> loop
 ^  |      | |        ^ |        |
 |  +------|-|--------+ |        |
 +- wait --+ +--------> gone <---+
```

| TLA+ | C |
|---|---|
| `x_is_netwm_compatible_wm_running`, `FindGrid`, `Wait`, `GiveUp` | the waiting loop `pager.c:796-813` |
| `ChooseFound`, `ChooseRead`, `NoGrid`, `ChooseOption` | where the grid comes from, `pager.c:815-835` |
| `CreateWindow`, `CreateFails` | size, place and `XCreateWindow` |
| `XSelectInput` | the end of `pager_new`: until here nothing is announced |
| `ShowConfigured`, `ShowPainted` | `pager_show` |
| `Running` | `Next` of `Pager`, once `stage = "loop"` |

Meanwhile `Desktop` lets the display change as in `WindowManager`, and
`AnnounceWM` lets a WM announce itself before its properties are there: the
check of `x_is_netwm_compatible_wm_running` looks for one property only.  The
end states of the start are more than `Init` of `Pager` (the properties may
disagree, a notification may be underway); `StartEntersLoop` shows that they
satisfy its invariants all the same.

### `Config`, `List` and `OptionList`

`ConfigFile` says what a file is: a sequence of lines (blank, broken,
assignment), and what `load_config` makes of a value.  Numbers are counted in
halves, and nan is a number of its own.  What C leaves undefined (converting a
number to `int` that does not fit) has no effect on the model, since no `int` it
may yield equals the number it came from.

`Config` has the options in a sequence.  `handle_line` reads a line and puts an
option at the end in place of the one of the same name; `GetOption` is one
question of `load_config`, of its 22, with the correction that follows it.

`List` has `list.h` as functions from memory to memory: `next` and `prev` of
every node and of the head.  `Entries` is what a loop of `list_for_each_entry`
visits.  `OptionList` is the program as it is: options in allocated nodes, linked
by `List`, found by following pointers, freed when they are replaced and at the
end.  Which free node an allocation gets is left open.  `names` are the options whose
name, a piece of memory of its own, is allocated: `add_option` frees it with the
option, and `sconf_free` does not, so that all names of the last options are left
behind (`sconf.c:50-56, 262-271`).  It implements `Config`
under `head <- Listed`, the options at the nodes that a loop visits.

### `CommandLine`

`main` up to `x_init`: first `load_config` (`ConfigNext` of `OptionList`), then
`options_parse`, whose handler answers and exits or remembers the display.
A configuration that cannot be loaded ends the program before any argument is
looked at.
A word is a sequence of pieces, so that one name can be the beginning of
another; `Matching` is the search for abbreviated names.

## 4. What is checked

All runs are in `PROJECT.json`, with one mutant of the code for each property:
a plausible bug that the run finds.

| Run | Instance | Properties | Shows |
|---|---|---|---|
| `pointer` | 2 windows, rolled up, 2 buttons, popups that move, a pixel on either desktop, 2 changes: closing, another list, damage | `TypeOK`, `IndexInRange`, `ScanRemembers`, `GestureUnderHeldButton`, `PopupTellsTruth`, `PopupTitled`, `NoPopupDuringGesture`, `DragKeepsWindow`, `GestureImplemented` | a gesture survives refreshes, or loses its window, and asks for what it is for; the popup belongs to its window and does not stay blank |
| `settle` | 2 windows, 8 kinds of change, 2 of them, fair | `HighlightTrue`, `PictureTrue`, `PicksWhatIsSeen`, `Settles` | whenever the pager blocks its picture is the truth, and so it becomes in the end; pointer and picture mean the same window, also of two that overlap |
| `layout` | 6 layouts, 5 of which disagree, 3 changes, a WM with at most 3 desktops, fair | `Alive`, `LayoutSettles`, `ExchangeEnds` | the exchange with the WM ends if it has as many desktops as the layout has cells, and only then |
| `tiny` | grids of 2, 6 and 40 columns, sizes down to 2 x 2, refusals, clicks that are obeyed | `GridFreshOrOwed`, `DeadOnlyWithoutRoom`, `StrutCoversPager` | when exactly the process dies; the strut follows the pager |
| `obedient` | 1 shaded window, button 2, a WM that obeys, 2 changes: closing, opening, another list | `CopyAgreesOnPlace` | optimistic changes come true |
| `start` | 1 window, 2 changes (also restarts and refusals), `WM_WAIT` of 2, grids of the WM's, one of them too wide, and 3 x 1, cut to 2 x 1, fair | `StartTypeOK`, `ConfiguredGridKept`, `StartEnds`, `WaitsItsTime`, `ConfiguredGridGranted`, `SettlesFromStart` | the pager starts under any WM, waits as long as it should, gets its grid and finds what nobody announced |
| `config` | all files of up to 3 of 21 lines in memory for 3 options; an empty, missing or broken file with arguments, up to 4 of 11 words | `ListSound`, `NamesUnique`, `SettingsFollowFile`, `SettingsSane`, `ConfigImplemented`, `ConnectsAsAsked`, `AnswersAsked` | links and options in memory are kept in order, settings are what the file says, arguments do what they should |

Why the bounds are enough.  Two windows can change places, one can vanish while
the other takes its index, and the list can become empty: everything that can
happen to one index.  Two changes let the display change during a refresh and
again during the refresh that the first change caused.  One user event in the
queue at a time suffices, as its content is chosen when it is handled.  Pixels
are one for each cell, and in `drag_off_grid` one left of the pager; a motion at the
pixel of the press is the one below the drag threshold.  Three layout changes let a second one arrive while the
pager is overruling the first.  A limit of 3 desktops lies between the layouts
of the run; at 2 x 2 the WM cannot follow, the pager overrules what it has
just written itself, and neither stops (`ExchangeEnds`).  A wait of 2 seconds
lets a WM come up before it, during it and never; the configured grid that is too wide is
cut to `MaxCells`, which stands for 32, and enters the loop; the WM's, which nobody
limits, cannot be created.  Three lines let a name be
assigned, assigned again with another type, and something else come between;
with three nodes, the one in the middle of the list is replaced and its memory used
again.  Four words let two displays be named, or an option follow one.
`VIEW` identifies states that
differ only in what no later step and no checked property reads (the fields of a
finished gesture, the picture where it is not checked).  In `pointer` it also
hides `sent`, of which a WM that does not heed pagers remembers only the latest
requests; of `GestureImplemented` that leaves out steps which repeat exactly
the requests before them, and the theorem of section 5 covers those.  `SYMMETRY`
exchanges windows or memory, in runs without liveness properties only.  Deadlock
checking is off where the system may come to rest: without user input
(`settle`, `layout`, `start`), after death (`tiny`), and when `main` is through
(`config`).

Fairness (`FairSpec`).  The process runs whenever it can (`WF(loop)`): it is a
process of the operating system, and nothing blocks it but an empty queue.  Its
queue is a FIFO, so that user events cannot overtake a notification forever
(`WF(HandleNotification)`).  The WM answers requests eventually
(`WF(Answer)`), which a live WM does.  Nothing else is fair: users and other
programs may stop at any time.  `FairStartSpec` says the same of the start: its
steps, of which sleeping is one, are taken (`WF(Start)`), and then the loop and
the WM are as fair as before.  That a WM comes up is not assumed; where a
property needs it, its premise says so (`ListCurrent` or `root.present` for
ever from some time on).  That the queue is empty now and then is not assumed either,
nor does the code ensure it (`main.c:108-113`): `PopupTitled`, `HighlightTrue` and
`PictureTrue` are about the moments at which it is (`Idle`).

### Where the code and what is said of it part

| Run | Property | Source |
|---|---|---|
| `drag_off_grid` | `DesktopInRange`: a window is sent to a desktop 0-N or to all, says `x.h:228` | `pager.c:1193` sends what the pixel converts to, also off the pager |
| `stale_grid` | `GridCurrentWhenIdle`: geometry is calculated when the layout changes, says `pager.c:95-96` | `pager.c:306` only sets the flag, after it was looked at in this round |
| `help_without_config` | `HelpWithoutConfig`: "-help: display this help and exit", say `doc/netwmpager.1:20-21` and `main.c:182`, and `README.md:62` sends everybody there | `main.c:267` loads the configuration first and exits if there is none or a line of it is broken |
| `opacity_nan` | `OpacityInRange`: "opacity must be between 0.0 and 1.0", says `main.c:220`, and `x.h:243` of the function that takes it | `main.c:219` lets nan pass, and `x.c:759` converts it to an unsigned integer, which C leaves undefined |
| `wm_desktops` | `DesktopsLeftToWM`: with -1 the WM's values are used, say `config-example:4` and `x.c:398` | `x.c:438` asks for another number of desktops |

## 5. What is proved

For every number of windows, every option, size and layout, every file and list of
options, and any environment within the bounds' names (they are arbitrary
numbers), from the assumptions on the constants alone: `GeometryAssumption`,
`WindowManagerAssumption` and `PagerAssumption`, for the start also
`StartupAssumption`, for the configuration `ConfigAssumption`, `ListAssumption` and
`OptionListAssumption`, and for the arguments
`CommandLineAssumption`.

| Theorem | Module | States |
|---|---|---|
| `TypeCorrect` | `PagerProofs` | `Spec => []TypeOK` |
| `IndicesInRange` | `PagerProofs` | `Spec => []IndexInRange` |
| `ScansRemember` | `PagerProofs` | `Spec => []ScanRemembers` |
| `PicksSeen` | `PagerProofs` | `Spec => [](RegularView => PicksWhatIsSeen)` |
| `EnvironmentKeepsTypes` | `PagerProofs` | every step of the environment keeps `DisplayTypeOK` |
| `GesturesHoldButtons` | `PagerGestureProofs` | `Spec => []GestureUnderHeldButton` |
| `GesturesKeepWindow` | `PagerGestureProofs` | `Spec => DragKeepsWindow` |
| `GesturesHidePopup` | `PagerGestureProofs` | `Spec => []NoPopupDuringGesture` |
| `PopupsTellTruth` | `PagerGestureProofs` | `Spec => []PopupTellsTruth` |
| `PopupsTitled` | `PagerGestureProofs` | `Spec => []PopupTitled` |
| `GesturesImplemented` | `PagerGestureProofs` | `Spec => GestureImplemented` |
| `GridsFreshOrOwed` | `PagerRefreshProofs` | `Spec => []GridFreshOrOwed` |
| `StrutsCoverPager` | `PagerRefreshProofs` | `Spec => []StrutCoversPager` |
| `DeathNeedsNoRoom` | `PagerRefreshProofs` | `Spec => []DeadOnlyWithoutRoom` |
| `StaysAlive` | `PagerRefreshProofs` | `Roomy => (Spec => []Alive)` |
| `HighlightsTrue` | `PagerRefreshProofs` | `Spec => []HighlightTrue` |
| `CopyAgrees` | `PagerRefreshProofs` | `Faithful => (Spec => []CopyAgreesOnPlace)` |
| `PicturesTrue` | `PagerRefreshProofs` | `"alter" \notin Kinds => (Spec /\ []~ mouse.dragging => []PictureTrue)` |
| `StartTypeCorrect` | `StartupProofs` | `StartSpec => []StartTypeOK` |
| `StartEntersLoop` | `StartupProofs` | `StartSpec => [](IndexInRange /\ ScanRemembers)` |
| `ConfiguredGridStays` | `StartupProofs` | `StartSpec => []ConfiguredGridKept`, unless other programs change the layout |
| `WaitsAsLongAsSaid` | `StartupProofs` | `StartSpec => WaitsItsTime` |
| `SafeFromTheStart` | `StartupProofs` | `StartSpec => [](...)`: `HighlightTrue`, `GridFreshOrOwed`, `StrutCoversPager`, `DeadOnlyWithoutRoom`, `GestureUnderHeldButton`, `NoPopupDuringGesture`, `PopupTellsTruth`, `PopupTitled` |
| `GesturesFromTheStart` | `StartupProofs` | `StartSpec => GestureImplemented /\ DragKeepsWindow` |
| `PicturesFromTheStart` | `StartupProofs` | as `PicturesTrue`, of `StartSpec` |
| `TailAdded`, `EntryDeleted`, `LoopVisits` | `ListProofs` | what the operations of `list.h` make of a ring, and what a loop over it visits |
| `OptionsInMemory` | `OptionListProofs` | `Spec => []ListSound` |
| `OneOptionPerName` | `OptionListProofs` | `Spec => []NamesUnique` |
| `OptionListImplementsConfig` | `OptionListProofs` | `Spec => ConfigImplemented` |
| `SettingsStaySane` | `OptionListProofs` | `Spec => []SettingsSane` |
| `OpacityOfNumbers` | `OptionListProofs` | `NumbersOnly => (Spec => []OpacityInRange)` |
| `SettingsAsWritten` | `OptionListProofs` | `Spec => []SettingsFollowFile` |
| `Connects` | `CommandLineProofs` | `MainSpec => []ConnectsAsAsked` |
| `Answers` | `CommandLineProofs` | `MainSpec => []AnswersAsked` |
| `SettingsOfMain` | `CommandLineProofs` | the six properties of `OptionListProofs`, of `MainSpec` |
| `CellsFit` | `GeometryProofs` | cells and the lines between them fit the window |
| `PixelOfGridOnDesktop` | `GeometryProofs` | a pixel of the grid is on a desktop of the grid |
| `GridHoldsDesktops` | `GeometryProofs` | a derived grid has a cell for every desktop, and no row too many |
| `GridSettles` | `GeometryProofs` | the layout the pager writes, with the desktops it asks for, gives the same grid |

The argument.  The inductive invariant of `PagerProofs` is

```
IInv == TypeOK /\ IndexInRange /\ ScanRemembers
```

`IndexInRange` alone is not inductive: it says nothing while `pc = "scan"`, when
`windows` is half built and the indices still are those of the old array.  At the
end of the scan `Remapped` keeps an index for which no window was remembered, so
that one needs `ScanRemembers`: no window is remembered only if the index was
none.  That in turn needs the index to have been in bounds when the scan began
and the type of `windows`, so that the window at a valid index is never
`NoWindow` (`WindowAtTypes`).  `TypeOK` is needed throughout, and needs
`IndexInRange` itself: a press or a drag reads `windows[idx]`.  There is one
lemma for each group of actions (`ScanInv`, `HoverInv`, `DragInv`, ...), and
`EnvironmentInv` rests on `EnvironmentKeepsTypes`.

The theorems of `PagerGestureProofs` and `PagerRefreshProofs` start from `IInv`, and
from a lemma each that says which few steps touch the gesture (`GestureSteps`), the
popup (`OtherPopupSteps`) and the grid (`OtherGridSteps`).  `GesturesKeepWindow` needs
that the window a scan remembers and the window at the index are one notion,
`Target`, which no step of the scan but the last changes, and the last only to
`NoWindow` (`get_window_index` finds the very window, or nothing).

`PopupsTellTruth` is about the popup's index outside a scan, so it is strengthened
in the same way: `PopupStandsForShown` says that the popup's window, remembered or
at the index, is the one shown whenever a popup is shown.  `PopupsTitled` adds that a
popup without a title has the Expose of its mapping in the queue or its flag set
(`TitleOwed`), and that the pager does not wait for an event with that flag set and an
empty queue (`RoundComes`): the refresh that a popup causes by its own ConfigureNotify,
or any other, takes neither away.  `DeathNeedsNoRoom` needs
`GridFreshOrOwed` besides `IInv`: the process ends where the height of the window
becomes zero or in a division by the size of a cell, and what it divides by is the
size the present grid and window give, unless a new one is still owed.

`StaysAlive` says where that cannot happen.  `Roomy` is about the constants: in a
window of any size that one of the grids asks for or a user chooses, cells of any of
the grids have a pixel, since for a moment the window has the size of the grid before.
It holds of the instance of `layout`, where TLC checks `Alive`, and not of `tiny`, where
the process dies.  `RoomInv` is inductive: the grid, the layouts in the root
property and the requests underway lead to these grids and sizes only
(`RootKnown`, `SizeKnown`, `KnownRequest`).

`PicksSeen` compares two computations.  `pager_update` scales the window
down and `get_window_idx` scales the pixel up, and each has a least size of its own
(`AtLeast`).  Where there are k positions of the screen to a pixel and the window
lies on whole pixels (`RegularView`), both are the same box of pixels (`Boxes`,
`BoxesAgree`), so that a window is hit exactly where it is painted
(`HitsWhatIsPainted`).  That the last window painted is the first one found from the
end, although the painting skips others, is `LastKept`, from the lemmas about `Kept`,
the recursive function that says which elements of a sequence remain.
TLC confirms `RegularView` in every state of the instance of `settle`.  Without it the two do
round differently, by a pixel.

`CellsFit` and `PixelOfGridOnDesktop` put the finding `drag_off_grid` in its
place: as long as the pixel is inside the grid's cells and lines, the desktop is
in range.

`HighlightsTrue` rests on `HighlightInv`: whatever the copy or the picture lacks is
owed by an event underway, by a flag, or by the end of the scan under way; and a
flag that this round of `pager_handle_events` has already passed by was set by an
event that is not the last, so that the pager will not block before another
round.  The environment announces every change of the root window
(`RootAnnounced`); no handler of user events takes a flag away (`InputSteps`).

`PicturesTrue` says the same of windows, their places and their order.  The copy
is rebuilt window by window while the windows change, so `CopyInv` says: unless a
change has been announced or a refresh is owed, what was read so far is what a reading of the
first n windows of the list would give now (`ReadTo`, `Copied`).  Each step of
the scan reads one more (`CopiedStep`); each change of a window announces itself
(`CopyEnvironment`), which is why silent changes (`"alter"`) are excluded, and so
does each new list, without which the scan would read on in the old one.
`PictureInv` says that the picture is that of the copy, or will be painted again.
Drags change the copy ahead of the WM and are excluded here; `CopyAgrees` is about them.

`CopyAgrees` assumes `Faithful`: the WM heeds requests and does not restart, and no
window changes unannounced.  TLC shows that neither can be left out: a restart
drops requests, and a window that takes the id of a closed one while that is still
on the list is noticed by nobody.  Then (`PlaceInv`) every window of the copy is closed, is where
the WM has it, or a flag, a notification or a request underway makes up for it.
A drag moves the copy and sends the request in one handler (`PlaceDrag`,
`DragAsksForPlace`); the WM that takes the request announces the move or finds the
window closed (`PlaceSteps`).  A window may close and open elsewhere under the
same id, but it does not open while it is on the client list: hence the second
part of the invariant, that the copy has windows of the list or a new list has
been announced (`ListAnnounced`).

`GesturesImplemented` needs, of each step of the pager, what it does to `Target`:
a scan keeps it, the end of a scan keeps it or loses it, a drag and a release
are about it (`IInv` makes the index valid where the window at it is read).

`StartupProofs` has the invariant `StartInv`: `IInv` and the types of the start,
with the fields of the geometry as far as the start has come.  `GridChosen` is for
`ConfiguredGridStays`: once the grid comes from the file, every later reading of the layout
gives the same grid, because the pager itself wrote the layout, and only it does.
`WaitInv` is for `WaitsAsLongAsSaid`: without a grid the pager chooses only under a WM
that had announced itself, and then, by the premise, its desktops are there.

What holds from `Init` of `Pager` holds from the real start, too, but not because
the start ends in `Init`: properties may disagree and may have changed before
the pager listened.  `Early` says what saves it: until the loop is entered, everything
counts as unread, and no gesture has begun.  With it, each step of the start keeps the
invariants of the loop (`OfLoop`, `CopyInv`, `PictureInv`), in most cases because
what they promise is owed (`needs`).

A ring is a `List` whose links lead from each entry to the next and back
(`Ring`).  `TailAdded` and `EntryDeleted` are the loop-free part.  `LoopVisits`
needs induction over the rounds of the loop; the library's induction theorems
take an operator, so `IntervalInduction` goes by the cardinality of the set of
rounds that come out right.  `OptionListImplementsConfig` combines them: the
list has the entries of a sequence whose options are `Config`'s `head`, before and after
`add_option`, `GetOption` and `sconf_free`; which node an assignment gets does not
matter.

`SettingsAsWritten` has two invariants after each other.  While the file is
parsed, the option of a name is what the last assignment in the lines read so
far makes; while `load_config` asks, each question answered has set its variable to
what the file means, each question to come will still find its option, though
an earlier question may have turned its type from `int` to float, because no two
questions are about one name.  `SettingsOfMain` carries all of it over to the
program: parsing arguments leaves the configuration alone, so `MainSpec` implements
`Spec` of `OptionList`.

`SettingsStaySane` and `OpacityOfNumbers` follow from one invariant, `Sane`, under
which the opacity is in its range or nan.  `NumbersOnly` says that no line of the
file has nan for a number; it is what the finding `opacity_nan` lacks, so that nan is
the only way out of the range.

`Connects` and `Answers` rest on `CommandInv`: what was parsed so far is n pairs of
-display and a name (`Parsing`), and where the parser stopped the rest is none, "--" or
begins with a word that is no option (`Stopped`).  An abbreviated name means one option
to the parser exactly if it means that one to the reader (`MatchingMeans`), and pairs
can be told from the front in one way only (`OnePlace`).  `Answers` is about options that
were parsed: of a configuration that cannot be loaded it says nothing, and the finding
`help_without_config` says what happens then.

## 6. Model-checked only

Liveness, which is beyond the prover: `Settles`, `LayoutSettles`, `ExchangeEnds`,
`StartEnds`, `ConfiguredGridGranted`, `SettlesFromStart`.  Of `LayoutSettles`, `GridSettles` proves the arithmetic.  And the five disagreements of
section 4, which are counterexamples.  All invariants and action properties of the
passing runs are proved; five of them under a hypothesis that holds of the instance TLC
checks: `Alive` (`Roomy`), `CopyAgreesOnPlace` (`Faithful`), `PicksWhatIsSeen`
(`RegularView`), `ConfiguredGridKept` (the layout is the pager's alone) and `PictureTrue`
(nothing is dragged, nothing changes silently).

## 7. Not modelled

* Where `popup_show` puts the popup.
* What is picked where nothing is painted: menus (`pager.c:553, 637`) and, while the
  desktop is shown, all windows (`pager.c:632`).  `PicksWhatIsSeen` leaves these out, and
  cells of another shape than the screen, in which the least height of the
  area that picks a window is not that of its rectangle (`pager.c:569, 496`).
* A window destroyed inside `XGetWindowAttributes` ends the process with a
  BadDrawable error (`main.c:137`); the read of one client is one step.
* Fonts, colours, icons, pixels: output only.  The layer and the opacity are
  attributes the start sets once.
* Characters of the configuration file, and the memory of strings other than the
  names of options, which goes with the option.
* The operations of `list.h` that nothing uses; `file.c`, which nothing calls;
  `xmalloc.c`, which ends the process when memory runs out; setters of `x.c` the pager
  never calls; the build system.
