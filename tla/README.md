# Specifications of wlmaker

TLA+ specifications of the wlmaker compositor: its desktop of workspaces and
windows, the elements that pointer and keyboard find their way through, its
menus, toplevels that answer configure events, its session lock, its idle monitor
with the hot corners, its outputs with the panels placed on them, the monitor of
its child processes -- and of the dock apps that come with it. TLC checks small instances of them, and TLAPS proves the most
important properties for all values of the constants. Source paths below are
relative to the repository's `src/` directory, those that begin with `apps/` to
its root.

## How the program works, and what is hard about it

wlmaker is one process with one event loop (libwayland's). Every event runs one
handler to its end: there are no threads, and there is no state that is read
before and used after a wait. What makes it hard is the *order of events* of
parties that know nothing of each other -- clients that map, commit, unmap and
die, the user's keys and pointer, outputs that are plugged in and out, timers --
and the *reentrancy* of handlers, which call each other through signals,
container callbacks and an FSM. A failed `BS_ASSERT` ends the compositor and
with it every session. Only the attributes of outputs are persisted, by
an action of the user's; the other crashes that matter are those of clients.

| Component | State it keeps | Operations and events | Interacts with | Properties that make it correct |
|---|---|---|---|---|
| Workspaces (`toolkit/workspace.c`, `fsm.c`) | list of windows, two containers, activated and formerly activated window, pointer FSM with the grabbed window, `enabled` | enable, map, unmap, activate, next, previous, raise, to fullscreen, begin move and resize, button, leave | windows (set_activated, set_workspace), desktop (events), containers | windows linked once in the list and in one container; activation only where enabled, and restored; nothing remembered of unmapped windows; a grab ends with what it grabs |
| Windows (`toolkit/window.c`) | workspace, activated, fullscreen, maximized, shaded, resize edges, organic box, menu (and title, decoration) | set_activated, requests, commits, button, menu | workspace, content's events | flag agrees with the workspace's idea; the window takes the state that was asked for, at the size and edge that belong to it |
| Desktop (`toolkit/desktop.c`) | list of workspaces, current one, `locked`, lock element, curtain, order of elements | add, remove and destroy workspaces, switch, lock, unlock, unreference | workspaces, lock manager, idle monitor (unlock event) | lock has one holder that alone lifts it; the current workspace exists and, unlocked, is enabled; curtain above workspaces |
| Actions, task list, window menu (`action.c`, `server.c`, `tl_menu.c`) | `task_list_enabled` | key bindings, menu items, release of the task list's modifier | desktop, workspaces, idle monitor | legal at any time, in any state |
| XDG toplevels (`xdg_toplevel.c`) | surface, pending properties, serial of the last size set | map, unmap, commit, requests | windows, workspaces, client | a window is mapped once, and unmapped from where it is; no request is forgotten on its way to the client |
| Containers and elements (`toolkit/container.c`, `element.c`, `root.c`) | list of elements, pointer focus, pointer grab, pressed element, keyboard focus of each container; visible and pointer inside of each element | add, remove, raise, show and hide, motion, button, grab, keyboard focus | all elements | element removed from its own container; the pointer's focus is the topmost element under it; a grab leads to an element that is shown; keys reach the activated window |
| Session lock manager (`lock_mgr.c`) | locks; per lock its outputs with a surface, whether committed | new lock, new surface, commit, destroy of surface, unlock, destroy, layout change | desktop lock, output tracker, surfaces | locked is reported when each output is covered, to one client; eventually |
| Output tracker (`toolkit/output_tracker.c`) | tree of outputs | layout change: create, update, destroy | lock manager, backgrounds, layers | exactly the layout's outputs |
| Surfaces (`toolkit/surface.c`) | `activated`, size | set_activated, map, commit, pointer events | seat's keyboard and pointer focus | activated means focus |
| Idle monitor (`idle.c`) | timer, `timer_expired`, `inhibits`, `locked`, listener of the unlock event | input, timer, inhibitors, actions, unlock event | desktop, lock program | never locks when inhibited or used; always locks in the end; counter balances |
| Hot corners (`corner.c`) | current corner, triggered, timer | pointer position, layout change, timer | actions, idle monitor | Enter and Leave alternate, for the right corner |
| Subprocess monitor (`util/subprocess_monitor.c`) | list of handles with callbacks and pipes | entrust, cede, reap | launchers, idle monitor, root menu | each process that ends is reaped; its callback once, never after cede |
| Launchers, dock, icons (`launcher.c`, `dock.c`, `clip.c`, `icon_manager.c`) | handles of the launched instances; layer and output of dock and clip | start, terminate, destroy; layout change, workspace change, theme and tiles | subprocess monitor, layers, desktop, output layout | handles agree with the monitor's; dock and clip are shown on an output of the current workspace |
| Layer shell (`layer_shell.c`, `layer_panel.c`, `toolkit/layer.c`, `panel.c`) | panels per layer and output, their positioning, extents of outputs | new surface, commit, map, unmap, destroy, layout change, workspace destroyed | layers of a workspace, output tracker, clients | a panel is linked on one layer of its output, and placed in what that is now; it stays as long as its output and its workspace |
| Menus and popups (`toolkit/menu.c`, `menu_item.c`, `root_menu.c`, `tl_menu.c`, `action_item.c`, `xdg_popup.c`) | open flag, mode, items, highlighted item; per item state, enabled, submenu, pointer inside | open, close, highlight, trigger, keys, items added and removed | windows, workspaces, actions, pop-up containers | one item of a menu highlighted; a submenu is open with its item; a menu that is open belongs to a window that is there |
| Outputs (`backend/*.c`) | remembered and configured attributes of outputs, layout, state file | new output, output gone, test and apply, magnify, save | wlroots, clients, output tracker | what is remembered of an output is what it has, also when a configuration is applied in part |
| Input devices (`input/*.c`) | devices, key repeat, modifiers | key, modifiers, motion | actions, root element | bindings see each key once |
| Client library (`wlclient/*.c`) | two buffers, frame callback, icon | ready, released, frame done, configure | compositor | never draws into a busy buffer, shows the latest |
| Dock apps (`apps/*.c`) | ring of samples, pixels, scale and history | timer, configure | client library | the graph shows its samples |
| wlmdock, configuration, drawing | -- | -- | -- | out of scope, see below |

`PROJECT.json` lists every component with its files, and the hazards, each at
the line of code where it bites.

## Modules

| Module | Models |
|---|---|
| `Lists` | the linked lists (libbase's `bs_dllist_t`) as sequences |
| `DesktopLock` | abstract: what the desktop promises about its lock |
| `Desktop` | workspaces, windows, desktop, bound actions, task list, toplevels |
| `DesktopProperties` | types, invariants and action properties of `Desktop`, its refinement of `DesktopLock` |
| `MCDesktop` | instances of the desktop for TLC |
| `Elements` | the tree of elements: pointer focus, pointer grab, buttons, keyboard focus |
| `WindowElements` | `Elements` composed with windows, their menus and popups in a workspace |
| `MCWindowElements` | two windows with a menu and a popup |
| `Menus` | menus, items and submenus: opening, highlighting, keys |
| `DesktopMenus` | `Menus` composed with the root menu, its window, the window menu, workspaces and actions |
| `MCDesktopMenus` | two workspaces, a window with its menu, the root menu |
| `XdgToplevel` | size and state of one toplevel between user, window, wlroots and client |
| `MCXdgToplevel` | a bounded number of requests and resizes |
| `SessionLock` | session locks with output tracker, desktop lock and keyboard focus; its properties, its refinement of `DesktopLock` |
| `MCSessionLock` | instances of the session locks for TLC |
| `IdleMonitor` | the idle monitor's handlers and actions |
| `HotCorner` | hot corners composed with the idle monitor, and the properties of both |
| `Supervision` | abstract: what the subprocess monitor promises those who entrust processes to it |
| `SubprocessMonitor` | the monitor with launchers, nested generators and ceded processes; refines `Supervision` |
| `MCSubprocessMonitor` | three handles, a launcher, two generators |
| `ScrollingGraph` | pure: the dock apps' graph, drawn by scrolling |
| `DockApp` | the graph with its samples, double buffer and compositor |
| `MCDockApp` | graphs of two sizes |
| `Panels` | layers with the panels on each output, and how these are placed |
| `Docks` | clip and dock: which output and layer they are on, and how they follow changes |
| `Outputs` | outputs, their attributes and configurations, composed with `Panels`, its clients, and `Docks` |
| `MCOutputs` | two outputs, one of them configured; a client's panel and a dock |
| `ListsProofs` | lemmas on lists, and on states reached step by step along one |
| `DesktopProofs`, `SessionLockProofs`, `HotCornerProofs`, `SubprocessProofs`, `ToplevelProofs`, `DockAppProofs`, `OutputsProofs` | the theorems |

### Desktop

A handler that calls others is an operator from states to states, on a record
of what workspaces and windows share: `MapWindow(st, k, w)` is
`wlmtk_workspace_map_window`, which ends with `ActivateWindow`, which begins with
`Deactivate`, and so on. An action takes the variables through one such handler
from the event that starts it, so calls, early returns and their order are those
of the code. `Check` is a `BS_ASSERT`: where it fails, `failed` gets its site and
the behaviour ends, as the program does. `activate_window(NULL)` is the operator
`Deactivate`: the window's call back into the workspace returns at once,
because the workspace has cleared its pointer already.

`ws[k]` is `wlmtk_workspace_t`, `win[w]` is `wlmtk_window_t` and the variables
`workspaces`, `current`, `locked`, `lock_element`, `elements` are
`wlmtk_desktop_t`. Lists start with their head, containers with the topmost
element. The actions:

- clients (`xdg_toplevel.c`): `TryMap`, `SurfaceUnmap`, `CommitUnmapped`,
  `CommitMapped`, `RequestMove`, `RequestResize`. A commit of a surface whose
  window is not mapped first maps it, if it is ready, and then looks at the
  fullscreen state, in one step. A client may commit any fullscreen state at any
  time, asked for or not.
- the pointer: `ButtonDown` on the content, the title bar or with the modifier,
  `ButtonDownOnResizebar`, `ButtonUp`, `PointerLeave`. The desktop passes button
  events on only when it is not locked, and only the current workspace is
  visible. Where the pointer is, is not part of the state: an event may go to any
  window there. Removing an element that the pointer is inside of makes it leave
  the workspace as well, which resets the FSM; `BecomesAfterRemoval` has both
  outcomes.
- keys and menus (`action.c`, `server.c`, `tl_menu.c`): `TaskToNext`,
  `TaskToPrevious`, `DeactivateTaskList`, `WindowToNextWorkspace`,
  `WindowToPreviousWorkspace`, `MoveToWorkspaceTriggered`, `SwitchTo...Workspace`,
  `AddWorkspace`, `DestroyLastWorkspace`. Key bindings are served when the desktop
  is locked, too.
- the lock: `Lock`, `Unlock`, `LockUnreference`.

A workspace that is destroyed may be added again as a new one, and so may a
window's identity: `NewWorkspace` is a workspace fresh from `create`.

### Elements and WindowElements

`tree` holds what `element.c` and `container.c` keep of every element: its parent,
whether it is visible and has the pointer inside, and for each container its
elements, its pointer focus, its grab, the element that was pressed and the one
that has the keyboard, with `seat` for the surface the seat sends keys to. The
functions call each other up and down the tree (`wlmtk_container_update_pointer_focus`
asks the parent, which calls back `pointer_motion`, which enters and leaves), so
each is an operator from trees to trees, `RECURSIVE` where the tree is descended.
Geometry is reduced to which leaves lie under the pointer: a motion names them.

`WindowElements` is a workspace's two containers in use. `MapWindow`,
`UnmapWindow`, `WindowToFullscreen`, `Activate` and `Press` are the workspace's
and window's handlers with every call they make on elements; `EnableMenu` is
`wlmtk_window_menu_set_enabled`, which grabs the pointer; popups are created,
destroyed, and shown and hidden by the client. Any assertion of `container.c`,
`element.c` or `window.c` that fails sets `failed`.

### Menus and DesktopMenus

`Menus` is the state that `menu.c` and `menu_item.c` share: `SetOpen`,
`RequestItemHighlight`, `SetState` and `SetEnabled` call one another through the
items' and menus' signals, and the operators do the same in the same order.
`inside` is what an item believes of the pointer. `KeyTarget` and `KeyboardSym` are
the descent of a key through open submenus.

`DesktopMenus` has the two menus that the compositor opens. The root menu is a
window of its own, mapped by a right click or an action and unmapped by its own
items; its submenu is filled when a generator's subprocess ends. The window menu is
a part of its window, with a submenu of workspaces that is rebuilt when those
change. `Executed` are the bound actions that matter to menus, `Triggered` what an
item does, with the aftermath of closing the menu it belongs to. The model of
workspaces is the part of `Desktop` that menus depend on, with one toplevel.

### XdgToplevel

`window` is the toolkit's window (horizontal position, size and organic box,
states, resize edge), `toplevel` what `xdg_toplevel.c` and wlroots know: pending
properties, the scheduled configure, those sent and unanswered, and what the
client's last commit acknowledged. Requests come from the client, from actions and
from dragging an edge; the client answers any number of configure events with one
commit and keeps the sizes it was told in fullscreen and maximized state. Only the
event loop's idle handler sends what is scheduled.

### SessionLock

`locks` are the lock manager's locks in the order in which they connected to the
output layout. For each, `outputs` is `wlmaker_lock_t::outputs`, and `surface`
the state of the surface at each output: `configured`, `acked` and `committed`
are what the serial of the configure event is compared for, `stale` is a
committed surface after the layout changed (the code does not keep the new
serial, so it counts as committed). `LayoutChange` is one change event and runs
the trackers of all locks: updates, creation, then destruction of outputs, with
the activation of the first remaining surface. `locked_sent` is the client's
side of `send_locked`. Of wlroots the model assumes that only a lock that was
told it is locked can unlock, that the first commit follows an acknowledgement,
and that a client's surfaces are destroyed before its lock.

### IdleMonitor and HotCorner

`monitor` is `wlmaker_idle_monitor_t`: `armed` for the event loop's timer,
`unlock_links` for how often the listener is linked. `command_works` is whether
the configured lock command can be started; the model starts with either value.
Lock programs may lock the desktop at any time and unlock it later. The pointer
is reduced to the corner it is in: `PointerMotion(c)` moves it into corner `c`,
or out of all of them, and as activity resets the idle timer first.
`OutputLayoutChanged(c)` may move any corner under the pointer, or away. One
corner has the actions `InhibitLockBegin` and `InhibitLockEnd`, as the top-right
one in `etc/Config.plist`.

### SubprocessMonitor

`subprocesses` is the monitor's list of handles, `child` the processes behind
them, `callback` the owner of each. Processes end at any time; `sigchld` stands for
the readable signal, of one or of many. The walk that reaps is one action per
handle (`Skip`, `Reap`, `ReapNested`), so that processes end while it goes on, and a
callback may entrust a new process below the walk, as generated submenus with
generators of their own do. `cursor` is the next handle, read before the callback.

### ScrollingGraph and DockApp

`ScrollingGraph` is `wlm_graph_shared.c` on a graph as a value: pixels by column
and row, the ring of samples, and the two that spare it redrawing, `yMin` and
`peakAge`. `DockApp` has the handlers: `Timer` reads a sample, scales it and scrolls
it in or, when the scale changes, regenerates all samples from the history of rates;
`Configure` gives the icon another size and a new double buffer; `FrameDone`,
`OrphanFrameDone` and `Release` come from the compositor. `orphans` counts the frame
callbacks that outlive their double buffer, and tells those apart whose double buffer
had a ready callback registered and a buffer released: what they do is undefined, and
the action has the outcomes of a build: nothing, a frame of the new double buffer, or,
for the latter ones, a crash. `Leftovers` is what `malloc`
may have left in the pixels: two pictures, one of them full of lines.

### Panels, Docks and Outputs

`wlr_output[o]` is the state of an output that is plugged in, `ephemeral[o]` what is
remembered of it, and `layout` the layout of wlroots, of which `LayoutBoxes` has the
boxes. Whatever changes an output in the layout ends in `LayoutChanged`, the event
that dock and clip handle before (`ChangeOutputs`), and then the trackers of all
layers: `TrackOutputs` destroys the panels of outputs that are gone
(`DestroyLayerOutputs`) and places those of outputs with other extents. wlroots does not
announce a change when a commit does nothing but disable an output, and `CommitState`
does: the output is removed from the layout next, which has the same result.
`ApplyHead` is one head of
a configuration with every call it makes; `Apply` applies some of the heads, and
if none is refused the backend may commit all of them once more, with the scale they
asked for instead of the one that was applied. `Restart` is the end of the program,
whichever way, with its next start: clients and their panels are gone, and `ephemeral`
is what was saved, by `Reread`, or nothing. There is no variable for the state file:
a restart that reads what was saved earlier is the same as a restart at that time.

`panel[p]` is `wlmtk_panel_t` with the place it was told last. `Boxes` is the loop of
`wlmtk_layer_output_reconfigure` over the panels of a layer, each of which takes its
exclusive zone from the usable area if it is visible.

`workspaces` and `current` are the desktop's; `Desktop` has the same operations with the
windows. `DestroyLastWorkspace` destroys the layers of a workspace with the panels of
clients that are on them, although the output of these stays: the code keeps a workspace
that has windows, and does not look for panels (`desktop.c:288`). Whether there are
windows is not modelled here: the action is one that may be taken or not.

Clip and dock are panels of the program, in `Dock`, which are there from `Start` on,
when the outputs of the backend were announced and the event loop runs. `ChangeOutput`
takes one off its layer and puts it on the output that `DockOutput` finds;
`ChangeWorkspace` puts it on the layer of the new current workspace; both may fail
an assertion, which ends the program: `failed` is set, and all but `Restart` is over.
Where `Becomes` gets a state that has failed, nothing of it is left.

## What TLC checks


| Run | Instance | Shows |
|---|---|---|
| `desktop` | 3 windows, 2 workspaces, 2 lock elements; 434,588 states | activation, attached workspaces, order of elements, the assertions of map, unmap and begin for toplevels' windows, dangling pointers, focus, lists and containers, task list order, grabs, refinement of `DesktopLock` |
| `session_lock` | 2 locks, 2 outputs, 1 of them plugged in at first; 61,632 states | outputs follow the layout, one client is told it is locked and only when all outputs are covered, refinement of `DesktopLock`, a lone lock is granted |
| `idle` | 2 inhibitors, 4 corners; 452 states | counter, timers, locking only when idle, an idle session gets locked |
| `focus` | 2 windows, a menu with an item, a popup; 168,280 states | no assertion of the containers fails; the focus is the topmost element under the pointer; an open menu has the grab; keys reach the activated window |
| `menus` | 4 menus, 8 items, 2 workspaces; 193,860 states | highlighted items with open submenus, the root menu and its window, the window menu and its window, the items of workspaces |
| `subprocesses` | 3 handles, 1 launcher, 2 generators; 36,004 states | owners and handles agree, refinement of `Supervision` with its liveness |
| `dockapp` | sizes 2 and 3, 4 rates, 3 scales, history of 3; 312,616 states | a buffer is released or held, scrolled bars are those of the samples, samples keep their rates, the latest is shown unless the app crashes |
| `toplevel` | 3 requests, 2 resizes, 2 unanswered configure events; 84,966 states | the edge opposite of the dragged one stays; the window gets into the state asked for last |
| `outputs` | 2 outputs with 2 modes, a client's panel, a dock with 2 themes, up to 2 workspaces of 1 layer; 66,369 states | what is remembered of outputs is what they have; panels are linked, placed where their output is, and outlive changes; the dock is shown |
| `fullscreen_moved`, `lock_output_update`, `dock_repositioned` | smallest instances | disagreements between code and comments or assertions, see below |

Bounds. Most are sizes of sets. Three windows allow an order of lists in which an
element between two others is removed, and one window that is activated and another
that is remembered elsewhere while the third one moves. The lists are compared
pairwise, so that a disagreement of longer lists shows in three. Of the two
workspaces either may be destroyed and added again. One edge is enough in
`Desktop`, as edges are only compared with none. Of the three windows two
are fullscreen at a time (`MaxFullscreen`), which is what it takes for one to be
restored above or below another. Two locks compete; a third one is to
each of them what the second is. With two outputs one is covered while the other one
comes or goes, and either may be the first in a lock's list. One hot corner
with actions and three without, and two inhibitors, let the shared counter pass
through each cause.

In `focus`, `SomePlaces` are the sets of leaves that overlap at the pointer: none, the
surfaces of both windows below the popup, and the popup below the menu above the other
window. `Bounded` has presses remembered along one path from the desktop down, or by as
many containers of several paths: one press, and the release that does not reach what
was pressed. What more presses without a release would add up to is left out. In `menus`, `MayStay` names the items whose belief of the
pointer may outlast the closing of their menu: one of the items that become enabled and
disabled. `Bounded` lets one of the two windows be shaded, and two menus have an item
highlighted: a menu and its submenu, or the two menus that are open at once. Three
handles let one process end before, below and after the walk's position, and a
handle be freed and used again while two others are walked. Graphs of two and three
columns scroll a peak in, across and out; a history of three wraps before and after
the ring of samples; `MaxFrames` bounds the frame callbacks of double buffers that are
gone. In `toplevel`, `MaxQueue` = 2 lets a commit answer one or two events,
`MaxRequests` = 3 lets a request be withdrawn and made again before the first is
answered, `MaxResizes` = 2 has a resize begin after another one, or during it, and `MaxMade` = 4
has either at its bound with the other one begun. No longer history of requests is
remembered: what matters is what is pending, scheduled and unanswered.

In `outputs`, one output is configured as disabled and with a position, the other one
is not configured and placed automatically; clients ask for a scale below 1.0, so that
the scale applied and the scale asked for differ, and for another mode, or disable the
second output. Two panels on an output, the dock and a client's with a fixed width or with
what is left, are the first and the second one of a list, in either order: a change of
the layout puts the dock last. The dock prefers the second output, which may come
later than the first one, or go; clip and dock are alike and handle events one after
the other, so that one stands for both. Workspaces and layers are alike, so that two
workspaces stand for moves between both; the program starts with any list of them
(`InitialWorkspaces`), and either may be destroyed and added again. Scales end at 1.0 (`Scale`).

Windows and lock elements, and in `outputs` workspaces, are permuted as
symmetric, in runs whose properties are invariants and action properties only. The
runs with liveness use no symmetry.

`CHECK_DEADLOCK FALSE` is set where the system stops: a failed assertion ends the
program (desktop, locks, focus, menus), a crashed app stays so (dock apps), and a
client may fall silent (toplevel), or everything is done (idle). The runs
`subprocesses` and `outputs` check for deadlock.

### Fairness

The safety properties need none. Of the liveness properties:

- `LoneLockIsGranted` assumes that clients answer configure events: they
  acknowledge the first one, and commit after it and whenever they were told of
  a new size. That is what the protocol requires of clients; the compositor's
  handlers run at once and need no fairness. The promise ends when the
  conditions of `CanLock` end.
- `IdleSessionIsLocked` assumes weak fairness of the idle timer only: the event
  loop dispatches a timer that stays armed. It says nothing about behaviours
  with input for ever, and it needs a lock command that can be started.
- `Supervises` assumes that the event loop calls the handler of a signal that is
  there (`HandleSigchld`), and that a handler that was called returns (`Walk`). That a
  process ends, or an owner goes away, is up to them.
- `LatestIsShown` assumes that the compositor calls frame callbacks and releases a
  buffer that another one has replaced; it may hold on to the one it shows.
- `WindowFollowsRequests` assumes that the event loop gets idle at last
  (`SendConfigure`) and that the client answers configure events (`Answer`). It says
  nothing while requests go on.

### Where code and text disagree

Three have a run in which TLC finds the property violated; `PROJECT.json` quotes
the text.

- `UnmappedWindowIsInItsContainer`: `map_window` puts a fullscreen window into
  `window_container`; unmapping it looks in `fullscreen_container`, and an assertion
  ends the program.
- `UpdatedOutputsHaveSurfaces`: a layout change while a lock's client has not
  created all its surfaces uses a missing one.
- `DocksAreRepositioned`: once no output is left, dock and clip have no layer, and the
  next change of the layout or of workspaces fails an assertion. So does plugging in an
  output that the dock prefers over the ones there are (`dock.c:313`).

Others are stated as definitions in the modules, without a run:

- `RaisedWindowIsInWindowContainer` (`workspace.c:827`): the task list ends while the
  activated window is fullscreen; it is raised in a container it is not in.
  `ContainersPartitionWindows` and `NoOtherFailure` claim what they claim up to this
  failure and the first one above, and of the windows of toplevels only: for the root
  menu's see `MapsUnmappedOnly`.
- `RestoredWindowIsInFullscreenContainer`, `LockElementAboveCurtain`,
  `ResizeEdgesAgree`, `LockedDesktopIsDisabled` in `DesktopProperties`: a fullscreen
  window that was moved leaves fullscreen in another container; a workspace that is
  added while locked raises the curtain above the lock; a second request to resize
  overwrites the workspace's edges only; a switch of workspaces while locked enables
  one.
- `ActivatedSurfaceHasFocus` in `SessionLock`: a surface stays flagged activated when
  the focus went elsewhere, and does not get it back.
- `UnlockEventIsHandled` and `TriggeredCornerInhibits` in `HotCorner`: an inhibitor
  that ends while the session is locked has the unlock listener linked twice; the two
  bottom corners' actions are swapped.
- `MotionIsAccepted` in `WindowElements`: an element that is hidden keeps its
  `pointer_inside` (`element.c:271`), and the next motion is then not accepted by it as
  `element.h:227` says.
- `MapsUnmappedOnly` in `DesktopMenus`: shading the root menu's window hides its
  content, the menu, which then counts as closed: the next right click maps the window
  again, and an assertion fails (`workspace.c:552`).
- `DocksAreWherePreferred` in `Outputs`: switching workspaces takes the dock to the
  primary output, whichever it prefers.
- `EnabledItemTriggers` in `DesktopMenus`: an item that is enabled while its menu has
  it highlighted keeps its disabled state (`menu.c:314`).
- `OrganicSizeIsOrganic` in `XdgToplevel`: a withdrawn request records the maximized
  size as the organic one.
- `RegeneratedSamplesHaveValues` in `DockApp`: a graph that grew regenerates samples
  that have no values yet.
- `OutputsInUseAreEnabled`, `ZonesAreLeftOut` and `SavedModesAreReread` in `Outputs`: an
  output that is configured as disabled is in the layout when it is plugged in first;
  a panel that is mapped takes its exclusive zone only when its layer is placed anew;
  a rate of 60.004 Hz is saved as 60.4.

And these were met while modelling, and the models do what the code does: the frame
callback of a destroyed double buffer is not destroyed (`dblbuf.c:266`), and, where the
memory is as it was left, has the app draw into a buffer that is gone, which crashes it
(`wlm_graph_shared.c:1239`); rebuilding a
graph erases a connector of the older column, and leaves of it what `malloc` left;
the part that both directions of the network have in common is not clamped to the peak
like the others and wraps at 8 bits, once the peak has decayed to below it
(`wlmnetgraph.c:352`); maximized state that is committed while fullscreen asks for the maximized size; a
request for fullscreen loses its size while another one's configure is outstanding;
a resize by the left edge does not record the organic position, nor does placing in
cascade; a drag may move a fullscreen window; an output that was disabled leaves the
layout, so that no client is told of it any more, and is skipped when it is plugged in
again; destroying the last workspace closes the panels that clients have on it; a configuration of which a head is refused stays applied in part and is reported
as failed; MAGNIFY turns automatic positions into explicit ones.

## What is proved

TLAPS proves, for any sets of windows, workspaces, locks, outputs, edges and
inhibitors, any panels, docks, layers, modes and heads of configurations, any rates,
values and sizes that meet the modules' assumptions (constants are distinct, the initial
list and the list of docks have no duplicates, there are finitely many inhibitors and
rates, a graph has at least two columns, values are bytes; scales are positive, what
clients ask for and what is configured has the types of the protocol and the
configuration, an enabled head has a position, and there is a workspace to start with):

- **Desktop** (`DesktopProofs`): `TypeOK`, `ActivationAgrees`,
  `ActivatedOnlyWhereEnabled`, `NoDanglingWindow`, `ContainersPartitionWindows`,
  `GrabIsBalanced`, `DesktopStaysWhole`, `NoOtherFailure` (of toplevels' windows), `TaskListFollowsStacking`,
  `FocusIsNotLost`, `CurtainAboveWorkspaces`, `ReenablingReactivates`, and that the desktop implements `DesktopLock`.

  None of the invariants is inductive alone: that a window is activated where it
  is mapped needs the lists, the lists need the types, and both need that the
  current workspace is the only one that is enabled. The inductive invariant
  `IInv` is the conjunction of `Good(State)` -- types, links, activation and
  grabs of the state that handlers share -- with `Desk` (the desktop's own
  variables), `Placed` (windows are mapped on attached workspaces), `OnlyCurrent`
  (which workspace is enabled), `Excused` (no other assertion failed) and `Focused` (an
  enabled workspace with ordinary windows has an activated one). `Good` has the lists
  and containers agree in their order, not only in their members: `SameOrder` survives
  that both are pushed to, or lose the same window, and raising is the two in turn.
  The lemmas show of each handler that it takes good states to good ones and which
  workspaces and windows it leaves alone; an action's proof composes them in the order
  in which the handler calls the others.
- **Session locks** (`SessionLockProofs`): `OnlyHolderIsToldLocked`, and that
  they use the desktop's lock as `DesktopLock` promises, by an invariant that is free
  of outputs: `locked_sent` changes only together with the desktop's lock.
  `OutputsFollowLayout` and `LockedOnlyWhenCovered` have one of their own, `CoverInv`:
  types, no duplicates in the layout, and a lock that is gone has no outputs. `Among`,
  which picks the elements of a list that are in a set, is specified (`IsAmong`) and
  proved by the shortest list for which it would fail.
- **Idle monitor and hot corners** (`HotCornerProofs`): `TypeOK`,
  `InhibitsAreCounted`, `IdleTimerIsNeverLost`, `CornerTimerFollowsPointer`,
  `LocksOnlyWhenIdle`. The counter's bound follows from counting the inhibitors,
  a finite set, with the corner's share.
- **Subprocess monitor** (`SubprocessProofs`): `NoneForgotten`,
  `OwnersAndHandlesAgree`, and that each step is one of `Supervision` or leaves its
  variables alone. `IInv` is the two with the types: that no ended process is behind
  the walk needs that the list has no duplicates and that the walk's position is on
  it, which needs that only the handle walked over is freed. The lemmas of
  `ListsProofs` say what linking and unlinking do to positions.
- **Dock apps** (`DockAppProofs`): `BuffersReleasedOrHeld`, `BarsShowSamples` and
  `SamplesKeepTheirRates`. What `BarsShowSamples` needs is `NoBarAbove`: no bar begins
  above `yMin`, above which nothing is scrolled. The connectors spare the bars of both
  their columns (`ConnectSparesBars`), so that a graph may be drawn anew column by
  column (`RebuiltColumn`). The samples' rates need that the two rings move together
  (`StatsReadMoves`), and that no sample has a bar whose rates the history has dropped
  or never had (`RegeneratedSamples`). For the buffers, the released ones are a list
  without duplicates, also when callbacks of another double buffer arrive.
- **Toplevels** (`ToplevelProofs`): `AnchoredEdgeStays`, for all sizes, borders and
  motions. The invariant adds to the types `Follows`: as long as the window is mapped,
  and not only while it is resized, the width the layout remembers is the one it has.
  `RequestsAreUnderway` is the safety side of `WindowFollowsRequests`: each request is
  pending, scheduled or in the newest configure event.
- **Outputs, panels, clip and dock** (`OutputsProofs`): `TypeOK`, `PanelsAgree`,
  `PanelsArePlaced`, `ConfigFollowsOutput`, `DocksAreShown` and
  `PanelsOutliveChanges`. `IInv` says of the state that handlers map to each other
  (`State`) that it is `Good` -- panels and lists agree, a panel has a place exactly if
  it is on a layer, every list is placed -- and `Tracked`: the layers know the extents of
  the outputs in the layout and of no others; `DocksAt` says where clip and dock are,
  `Remembered` what is remembered of an output, and `OnWorkspaces` that panels are on
  workspaces that there are.

  None holds alone. Panels are placed where the layout has their output only because
  layers and layout agree whenever an event is over; while dock and clip handle the
  event they do not, so that their handlers are shown to keep `Good`, which speaks of
  the extents that the layers know, and `TrackOutputs` to establish the rest. That
  `TrackOutputs` destroys no dock needs that every dock has left the outputs that go, by
  the handlers before, and that `DestroyLastWorkspace` destroys none, that all of them are
  on the current workspace. That docks are shown needs `AllDocks`: they were created all
  together or not at all. `ConfigFollowsOutput` had to be strengthened: an output that is
  plugged in again takes what is remembered of it, so that this must not be a scale
  below 1.0 (`ScaledUp`), also while the output is away.

  Configurations have any number of heads, lists any number of panels, and there are
  any number of docks: what is done to one after the other is a function on numbers,
  `after[i]` from `after[i - 1]`. A step that takes the `i-1`st set of states
  into the `i`th one stays in these sets (`FoldInvariance`), and there is
  such a sequence of states (`Iteration`): the sets are named in each proof -- states
  of which the first `i` docks have turned (`TurnsWell`), or the first `i` heads are
  applied (`HeadsApplied`).

Where a list or a recursion is of any length, a lemma is proved by least element: if it
failed there would be a shortest case, whose neighbour gives a contradiction. This needs
only that the order of natural numbers is well-founded (`MinimalElement`), and no
induction theorem with an operator as its parameter.

Types (`TypeOK`) and `CornerTimerFollowsPointer` are part of these proofs and of no
run.

`ActivatedOnlyWhereEnabled`, `ReenablingReactivates`, `NoneForgotten` (the safety
side of `Supervises`) and `RequestsAreUnderway` are proved and in no run.

Only model-checked: the four invariants of each of `WindowElements` and `DesktopMenus`,
whose trees of elements and menus are descended by recursive operators, which the prover
does not support (the tree of elements and of menus would have to be searched by a
function of trees, and what it returns for every tree needs induction over data); and
the liveness properties `LoneLockIsGranted`, `IdleSessionIsLocked`, `Supervises`,
`LatestIsShown` and `WindowFollowsRequests`, which are beyond the prover.

## What is not modelled

- Where windows are placed and confined, vertical positions, and drawing: they do
  not decide which list a window is in, who is activated or what is asked of a client.
- Backgrounds: one of a workspace that is destroyed remains in the server's list
  (`action.c:284`).
- Titles, styles and decoration that changes while a window is mapped.
- Memory exhaustion, failing starts of processes, start-up and shutdown of the
  server.
- XWayland's windows, which use the same operations of workspaces.
- Keyboards, pointers and other devices, but for the order of their events.
- Transformations of outputs and the patterns of their descriptions; the keyboard focus that
  panels take; the decoration's negotiation.
- Pure I/O: parsing of configuration and of `/proc`, logging, wlmdock.

## Plan

In this order:

1. The decoration's negotiation, composed with `XdgToplevel`, and the lock program's
   process with the idle monitor, so that one that dies without locking can be told
   from one that locks.
2. Proofs: the invariants of `Menus` for menus of a fixed depth, whose operators need
   no recursion.
