------------------------------ MODULE Desktop ------------------------------
(***************************************************************************)
(* The desktop of the toolkit, its workspaces and the windows mapped on    *)
(* them: which window is activated, in which lists and containers a window *)
(* is linked, which window an interactive move or resize holds, and who    *)
(* has locked the desktop (toolkit/desktop.c, workspace.c, window.c,       *)
(* container.c, fsm.c, and their callers action.c, server.c, tl_menu.c,    *)
(* xdg_toplevel.c).  The windows are those of XDG toplevels: the root      *)
(* menu's, which server.c and action.c map and root_menu.c unmaps, is not  *)
(* among them (see DesktopMenus), nor are those of X11 clients.            *)
(*                                                                         *)
(* A handler of the code is an operator from states to states, so that a   *)
(* handler that calls another one is a composition; an action takes the    *)
(* variables through one handler.  The event loop runs one handler at a    *)
(* time, to its end.  A BS_ASSERT that fails ends the program: Check keeps *)
(* its site in "failed" and no action is enabled afterwards.               *)
(***************************************************************************)
EXTENDS Naturals, Sequences, Lists

CONSTANTS
    Window,             \* The windows that toplevels may create.
    Workspace,          \* The workspaces that may be created.
    LockElement,        \* The elements that may lock the desktop.
    Edge,               \* The edges a resize may be asked for.
    InitialWorkspaces,  \* The workspaces of the configuration, in order.
    Curtain,            \* The curtain's element in the desktop's container.
    NULL                \* The null pointer; also: no edges.

\* The assertions whose failure the handlers below can reach or must exclude.
Site == {"map_window", "unmap_window", "window_to_fullscreen",
         "container_remove", "container_raise", "begin_window"}

ASSUME ConstantsAreDistinct ==
    /\ NULL \notin Window \cup Workspace \cup LockElement \cup Edge \cup Site
    /\ Curtain \notin Workspace \cup LockElement
    /\ Workspace \cap LockElement = {}

ASSUME InitialWorkspacesAssumption ==
    /\ InitialWorkspaces \in Seq(Workspace)
    /\ InitialWorkspaces # <<>>
    /\ Unique(InitialWorkspaces)

VARIABLES
    ws,                 \* Workspace -> state of wlmtk_workspace_t.
    win,                \* Window -> state of wlmtk_window_t.
    workspaces,         \* The desktop's list of workspaces.
    current,            \* The desktop's current workspace.
    locked,             \* Whether the desktop is locked.
    lock_element,       \* The element holding the lock.
    elements,           \* The desktop's container, topmost first.
    task_list_enabled,  \* The server's wlmaker_server_t::task_list_enabled.
    failed              \* Site of the BS_ASSERT that failed, NULL if none.

desktopVars == <<workspaces, current, locked, lock_element, elements>>
vars == <<ws, win, desktopVars, task_list_enabled, failed>>

-----------------------------------------------------------------------------
(* Types and the initial state.                                            *)

\* States of the pointer's FSM in a workspace.
Grab == {"passthrough", "move", "resize"}

WorkspaceState ==
    [enabled              : BOOLEAN,
     windows              : Seq(Window),
     window_container     : Seq(Window),
     fullscreen_container : Seq(Window),
     activated            : Window \cup {NULL},
     formerly             : Window \cup {NULL},
     grab                 : Grab,
     grabbed              : Window \cup {NULL},
     resize_edges         : Edge \cup {NULL}]

WindowState ==
    [workspace    : Workspace \cup {NULL},
     activated    : BOOLEAN,
     fullscreen   : BOOLEAN,
     resize_edges : Edge \cup {NULL}]

NewWorkspace ==
    [enabled |-> FALSE, windows |-> <<>>, window_container |-> <<>>,
     fullscreen_container |-> <<>>, activated |-> NULL, formerly |-> NULL,
     grab |-> "passthrough", grabbed |-> NULL, resize_edges |-> NULL]

NewWindow ==
    [workspace |-> NULL, activated |-> FALSE, fullscreen |-> FALSE,
     resize_edges |-> NULL]

\* After start-up: the configured workspaces are added, the first is current.
Init ==
    /\ workspaces = InitialWorkspaces
    /\ current = Head(InitialWorkspaces)
    /\ ws = [k \in Workspace |-> [NewWorkspace EXCEPT !.enabled = (k = current)]]
    /\ win = [w \in Window |-> NewWindow]
    /\ locked = FALSE
    /\ lock_element = NULL
    /\ elements =
           <<Curtain>> \o [i \in 1..Len(InitialWorkspaces) |->
               InitialWorkspaces[Len(InitialWorkspaces) + 1 - i]]
    /\ task_list_enabled = FALSE
    /\ failed = NULL

-----------------------------------------------------------------------------
(* Handlers of the workspace and the window, on a record st of the         *)
(* variables they share.                                                   *)

State == [ws |-> ws, win |-> win, failed |-> failed]

Becomes(st) == ws' = st.ws /\ win' = st.win /\ failed' = st.failed

\* A failing assertion ends the program where it stands.
Check(st, condition, site, next) ==
    CASE st.failed # NULL -> st
      [] st.failed = NULL /\ condition -> next
      [] OTHER -> [st EXCEPT !.failed = site]

SetActivated(st, w, b) == [st EXCEPT !.win[w].activated = b]

\* Mutant: the window is not told that it was deactivated.
DeactivateSilently(st, k) ==
    [st EXCEPT !.ws[k].formerly = IF st.ws[k].activated = NULL THEN @
                                  ELSE st.ws[k].activated,
               !.ws[k].activated = NULL]

\* wlmtk_workspace_activate_window(k, NULL). The window's own call back into
\* it finds "activated" cleared and returns.
Deactivate(st, k) ==
    LET w == st.ws[k].activated IN
    IF w = NULL THEN st
    ELSE SetActivated([st EXCEPT !.ws[k].formerly = w, !.ws[k].activated = NULL],
                      w, FALSE)

ActivateWindow(st, k, w) ==
    LET idle == Deactivate(st, k) IN
    CASE st.ws[k].activated = w -> st
      [] st.ws[k].activated # w /\ w = NULL -> idle
      [] st.ws[k].activated # w /\ w # NULL /\ st.ws[k].enabled ->
             SetActivated([idle EXCEPT !.ws[k].activated = w,
                                       !.ws[k].formerly = w], w, TRUE)
      [] OTHER -> [idle EXCEPT !.ws[k].formerly = w]

EnableWorkspace(st, k, b) ==
    LET flagged == [st EXCEPT !.ws[k].enabled = b] IN
    CASE st.ws[k].enabled = b -> st
      [] st.ws[k].enabled # b /\ b ->
             ActivateWindow(flagged, k, st.ws[k].formerly)
      [] OTHER -> Deactivate(flagged, k)

\* A window is added to the window container even when it is fullscreen.
MapWindow(st, k, w) ==
    Check(st, st.win[w].workspace = NULL, "map_window",
        ActivateWindow(
            [st EXCEPT !.ws[k].window_container = PushFront(@, w),
                       !.ws[k].windows = PushFront(@, w),
                       !.win[w].workspace = k],
            k, w))

\* Mutant: the grabbed window keeps its resize edges.
ResetGrabKeepingEdges(st, k) ==
    [st EXCEPT !.ws[k].grab = "passthrough", !.ws[k].grabbed = NULL]

\* pfsm_reset, on PFSME_RELEASED and PFSME_RESET.
ResetGrab(st, k) ==
    IF st.ws[k].grab = "passthrough" THEN st
    ELSE [st EXCEPT !.win[st.ws[k].grabbed].resize_edges = NULL,
                    !.ws[k].grab = "passthrough",
                    !.ws[k].grabbed = NULL]

\* Mutant: the formerly activated window is not forgotten.
ReleaseButRemember(st, k, w) ==
    LET free == IF st.ws[k].grabbed = w THEN ResetGrab(st, k) ELSE st
    IN  IF free.ws[k].activated = w THEN Deactivate(free, k) ELSE free

\* An element was removed from k: if the pointer was inside the element, it leaves
\* the workspace as well (container_remove_element blurs the element's parents).
BecomesAfterRemoval(st, k) ==
    \/ Becomes(st)
    \/ st.failed = NULL /\ Becomes(ResetGrab(st, k))

\* Releases what the workspace holds of w before it is unmapped.
ReleaseWindow(st, k, w) ==
    LET free == IF st.ws[k].grabbed = w THEN ResetGrab(st, k) ELSE st
        idle == IF free.ws[k].activated = w THEN Deactivate(free, k) ELSE free
    IN  IF idle.ws[k].formerly = w THEN [idle EXCEPT !.ws[k].formerly = NULL]
        ELSE idle

\* Mutant: the window stays in the list of windows.
UnlinkFromContainerOnly(st, k, w) ==
    LET unmapped == [st EXCEPT !.win[w].workspace = NULL] IN
    IF st.win[w].fullscreen
    THEN [unmapped EXCEPT !.ws[k].fullscreen_container = Remove(@, w)]
    ELSE [unmapped EXCEPT !.ws[k].window_container = Remove(@, w)]

\* Unlinks w from its container and from the list of windows.
UnlinkWindow(st, k, w) ==
    LET unlinked == [st EXCEPT !.ws[k].windows = Remove(@, w),
                               !.win[w].workspace = NULL]
    IN  IF st.win[w].fullscreen
        THEN [unlinked EXCEPT !.ws[k].fullscreen_container = Remove(@, w)]
        ELSE [unlinked EXCEPT !.ws[k].window_container = Remove(@, w)]

\* Whether w is an element of the container its fullscreen flag selects.
InItsContainer(st, k, w) ==
    IF st.win[w].fullscreen
    THEN w \in Members(st.ws[k].fullscreen_container)
    ELSE w \in Members(st.ws[k].window_container)

\* Activates the topmost window of the window container, if there is one.
ActivateTopmost(st, k) ==
    IF st.ws[k].window_container = <<>> THEN st
    ELSE ActivateWindow(st, k, Head(st.ws[k].window_container))

\* Mutant: another window is activated only if w was activated, not if it was
\* to be activated again.
UnmapActivatedOnly(st, k, w) ==
    LET unmapped == UnlinkWindow(ReleaseWindow(st, k, w), k, w) IN
    Check(st, InItsContainer(st, k, w), "container_remove",
        IF st.ws[k].activated = w THEN ActivateTopmost(unmapped, k) ELSE unmapped)

UnmapWindow(st, k, w) ==
    LET need_activation == w \in {st.ws[k].activated, st.ws[k].formerly}
        unmapped == UnlinkWindow(ReleaseWindow(st, k, w), k, w)
    IN  Check(st, st.win[w].workspace = k, "unmap_window",
        Check(st, InItsContainer(st, k, w), "container_remove",
            IF need_activation THEN ActivateTopmost(unmapped, k) ELSE unmapped))

\* wlmtk_workspace_window_to_fullscreen: reparents w, and activates it.
WindowToFullscreen(st, k, w) ==
    LET fullscreen == st.win[w].fullscreen
        from == IF fullscreen THEN st.ws[k].window_container
                              ELSE st.ws[k].fullscreen_container
        up == [st EXCEPT !.ws[k].window_container = Remove(@, w),
                         !.ws[k].fullscreen_container = PushFront(@, w)]
        down == [st EXCEPT !.ws[k].fullscreen_container = Remove(@, w),
                           !.ws[k].window_container = PushFront(@, w),
                           !.ws[k].windows = MoveToFront(@, w)]
    IN  Check(st, w \in Members(from), "window_to_fullscreen",
            ActivateWindow(Deactivate(IF fullscreen THEN up ELSE down, k), k, w))

CommitFullscreen(st, w, b) ==
    LET flagged == [st EXCEPT !.win[w].fullscreen = b]
        k == st.win[w].workspace
    IN  CASE st.win[w].fullscreen = b -> st
          [] st.win[w].fullscreen # b /\ k = NULL -> flagged
          [] OTHER -> WindowToFullscreen(flagged, k, w)

\* Mutant: raises the element and forgets the list of windows.
RaiseElementOnly(st, k, w) ==
    Check(st, w \in Members(st.ws[k].window_container), "container_raise",
        [st EXCEPT !.ws[k].window_container = MoveToFront(@, w)])

RaiseWindow(st, k, w) ==
    Check(st, w \in Members(st.ws[k].window_container), "container_raise",
        [st EXCEPT !.ws[k].windows = MoveToFront(@, w),
                   !.ws[k].window_container = MoveToFront(@, w)])

BeginWindowMove(st, k, w) ==
    Check(st, k # NULL, "begin_window",
        IF st.ws[k].grab # "passthrough" THEN st
        ELSE [st EXCEPT !.ws[k].grab = "move", !.ws[k].grabbed = w])

\* The edges are stored before the FSM decides whether to take the event.
BeginWindowResize(st, k, w, edges) ==
    Check(st, k # NULL, "begin_window",
        LET stored == [st EXCEPT !.ws[k].resize_edges = edges] IN
        IF st.ws[k].grab # "passthrough" THEN stored
        ELSE [stored EXCEPT !.ws[k].grab = "resize", !.ws[k].grabbed = w,
                            !.win[w].resize_edges = edges])

\* A button event the window gets without starting a move with the modifier.
WindowButton(st, w) ==
    LET k == st.win[w].workspace
        activated == ActivateWindow(st, k, w)
    IN  IF st.win[w].fullscreen THEN activated ELSE RaiseWindow(activated, k, w)

-----------------------------------------------------------------------------
(* Windows: requests and commits of the clients.                           *)

Mapped == {w \in Window : win[w].workspace # NULL}

\* Mutant: maps without looking whether the window is mapped already.
TryMapAgain(w) ==
    /\ failed = NULL
    /\ Becomes(MapWindow(State, current, w))
    /\ UNCHANGED <<desktopVars, task_list_enabled>>

\* The surface is mapped, and has had a size: onto the current workspace.
TryMap(w) ==
    /\ failed = NULL
    /\ win[w].workspace = NULL
    /\ Becomes(MapWindow(State, current, w))
    /\ UNCHANGED <<desktopVars, task_list_enabled>>

\* The client unmaps its surface, or goes away.
SurfaceUnmap(w) ==
    /\ failed = NULL
    /\ win[w].workspace # NULL
    /\ BecomesAfterRemoval(UnmapWindow(State, win[w].workspace, w),
                           win[w].workspace)
    /\ UNCHANGED <<desktopVars, task_list_enabled>>

\* A commit of a surface whose window is on no workspace: maps the window if the
\* surface is ready, and then looks at the fullscreen state it was committed with.
CommitUnmapped(w, ready, b) ==
    /\ failed = NULL
    /\ win[w].workspace = NULL
    /\ LET mapped == IF ready THEN MapWindow(State, current, w) ELSE State
       IN  Becomes(CommitFullscreen(mapped, w, b))
    /\ UNCHANGED <<desktopVars, task_list_enabled>>

\* A commit with another fullscreen state than the window's, which is mapped.
CommitMapped(w, b) ==
    /\ failed = NULL
    /\ win[w].workspace # NULL
    /\ win[w].fullscreen # b
    /\ BecomesAfterRemoval(CommitFullscreen(State, w, b), win[w].workspace)
    /\ UNCHANGED <<desktopVars, task_list_enabled>>

\* A client may ask for a move whenever its window is mapped, on any workspace.
RequestMove(w) ==
    /\ failed = NULL
    /\ win[w].workspace # NULL
    /\ Becomes(BeginWindowMove(State, win[w].workspace, w))
    /\ UNCHANGED <<desktopVars, task_list_enabled>>

RequestResize(w, edges) ==
    /\ failed = NULL
    /\ win[w].workspace # NULL
    /\ Becomes(BeginWindowResize(State, win[w].workspace, w, edges))
    /\ UNCHANGED <<desktopVars, task_list_enabled>>

-----------------------------------------------------------------------------
(* The pointer.  The desktop forwards button events to its workspaces only *)
(* when it is not locked, and only the current workspace is visible.       *)

PointedAt(w) == ~locked /\ win[w].workspace = current

\* Left button down: on the content, the title bar, the resize bar, or with
\* the modifier that moves the window from anywhere.
ButtonDown(w, part) ==
    /\ failed = NULL
    /\ PointedAt(w)
    /\ Becomes(
           CASE part = "modifier" -> BeginWindowMove(State, current, w)
             [] part = "content" -> WindowButton(State, w)
             [] part = "titlebar" ->
                    BeginWindowMove(WindowButton(State, w), current, w))
    /\ UNCHANGED <<desktopVars, task_list_enabled>>

ButtonDownOnResizebar(w, edges) ==
    /\ failed = NULL
    /\ PointedAt(w)
    /\ Becomes(BeginWindowResize(WindowButton(State, w), current, w, edges))
    /\ UNCHANGED <<desktopVars, task_list_enabled>>

\* Left button up: ends the grab, and reaches the window that got the "down".
ButtonUp(target) ==
    /\ failed = NULL
    /\ ~locked
    /\ target # NULL => PointedAt(target)
    /\ LET released == ResetGrab(State, current)
       IN  Becomes(IF target = NULL THEN released
                   ELSE WindowButton(released, target))
    /\ UNCHANGED <<desktopVars, task_list_enabled>>

\* The pointer leaves the workspace: it moves out, the workspace was hidden before
\* it moved, or what it was inside of was removed.
PointerLeave(k) ==
    /\ failed = NULL
    /\ ws[k].grab # "passthrough"
    /\ Becomes(ResetGrab(State, k))
    /\ UNCHANGED <<desktopVars, task_list_enabled>>

-----------------------------------------------------------------------------
(* Actions bound to keys and menu items.  Key bindings are served whether  *)
(* or not the desktop is locked.                                           *)

\* The neighbour of the activated window in the list, wrapping around.
NextWindow(k) ==
    LET l == ws[k].windows
        w == ws[k].activated
    IN  IF w = NULL \/ w = l[Len(l)] THEN l[1] ELSE l[Position(l, w) + 1]

PreviousWindow(k) ==
    LET l == ws[k].windows
        w == ws[k].activated
    IN  IF w = NULL \/ w = l[1] THEN l[Len(l)] ELSE l[Position(l, w) - 1]

TaskTo(w) ==
    /\ Becomes(IF w = NULL THEN State ELSE ActivateWindow(State, current, w))
    /\ task_list_enabled' = TRUE
    /\ UNCHANGED desktopVars

TaskToNext ==
    /\ failed = NULL
    /\ TaskTo(IF ws[current].windows = <<>> THEN NULL ELSE NextWindow(current))

TaskToPrevious ==
    /\ failed = NULL
    /\ TaskTo(IF ws[current].windows = <<>> THEN NULL ELSE PreviousWindow(current))

\* The modifiers of the task list are released: raises the chosen window.
DeactivateTaskList ==
    /\ failed = NULL
    /\ task_list_enabled
    /\ task_list_enabled' = FALSE
    /\ Becomes(IF ws[current].activated = NULL THEN State
               ELSE RaiseWindow(State, current, ws[current].activated))
    /\ UNCHANGED desktopVars

\* The activated window moves to another workspace.
MoveWindowTo(k) ==
    LET w == ws[current].activated IN
    /\ failed = NULL
    /\ w # NULL
    /\ BecomesAfterRemoval(MapWindow(UnmapWindow(State, current, w), k, w), current)
    /\ UNCHANGED <<desktopVars, task_list_enabled>>

WindowToNextWorkspace ==
    /\ current # workspaces[Len(workspaces)]
    /\ MoveWindowTo(workspaces[Position(workspaces, current) + 1])

WindowToPreviousWorkspace ==
    /\ current # workspaces[1]
    /\ MoveWindowTo(workspaces[Position(workspaces, current) - 1])

\* The window's menu: to any other workspace.
MoveToWorkspaceTriggered(k) ==
    /\ ~locked
    /\ k \in Members(workspaces) \ {current}
    /\ MoveWindowTo(k)

\* _wlmtk_desktop_switch_to_workspace: does not look at "locked".
SwitchToWorkspace(k) ==
    /\ failed = NULL
    /\ k # current
    /\ Becomes(EnableWorkspace(EnableWorkspace(State, current, FALSE), k, TRUE))
    /\ current' = k
    /\ UNCHANGED <<workspaces, locked, lock_element, elements, task_list_enabled>>

SwitchToNextWorkspace ==
    SwitchToWorkspace(IF current = workspaces[Len(workspaces)] THEN workspaces[1]
                      ELSE workspaces[Position(workspaces, current) + 1])

SwitchToPreviousWorkspace ==
    SwitchToWorkspace(IF current = workspaces[1] THEN workspaces[Len(workspaces)]
                      ELSE workspaces[Position(workspaces, current) - 1])

\* Mutant: the curtain is not raised.
AddWorkspaceOnTop(k) ==
    /\ failed = NULL
    /\ k \notin Members(workspaces)
    /\ workspaces' = PushBack(workspaces, k)
    /\ elements' = PushFront(elements, k)
    /\ ws' = [ws EXCEPT ![k] = NewWorkspace]
    /\ UNCHANGED <<win, current, locked, lock_element, task_list_enabled, failed>>

\* The new workspace is put on top, then the curtain above it.
AddWorkspace(k) ==
    /\ failed = NULL
    /\ k \notin Members(workspaces)
    /\ workspaces' = PushBack(workspaces, k)
    /\ elements' = MoveToFront(PushFront(elements, k), Curtain)
    /\ ws' = [ws EXCEPT ![k] = NewWorkspace]
    /\ UNCHANGED <<win, current, locked, lock_element, task_list_enabled, failed>>

\* Mutant: does not look whether windows are mapped on the workspace.
DestroyLastWithWindows ==
    LET k == workspaces[Len(workspaces)] IN
    /\ failed = NULL
    /\ Len(workspaces) > 1
    /\ k # current
    /\ workspaces' = Remove(workspaces, k)
    /\ elements' = Remove(elements, k)
    /\ ws' = [ws EXCEPT ![k] = NewWorkspace]
    /\ UNCHANGED <<win, current, locked, lock_element, task_list_enabled, failed>>

DestroyLastWorkspace ==
    LET k == workspaces[Len(workspaces)] IN
    /\ failed = NULL
    /\ Len(workspaces) > 1
    /\ k # current
    /\ ws[k].windows = <<>>
    /\ workspaces' = Remove(workspaces, k)
    /\ elements' = Remove(elements, k)
    /\ ws' = [ws EXCEPT ![k] = NewWorkspace]
    /\ UNCHANGED <<win, current, locked, lock_element, task_list_enabled, failed>>

-----------------------------------------------------------------------------
(* The lock of the desktop.                                                *)

\* Mutant: does not look whether the desktop is locked already.
LockOver(e) ==
    /\ failed = NULL
    /\ lock_element' = e
    /\ Becomes(EnableWorkspace(State, current, FALSE))
    /\ elements' = PushFront(elements, e)
    /\ locked' = TRUE
    /\ UNCHANGED <<workspaces, current, task_list_enabled>>

Lock(e) ==
    /\ failed = NULL
    /\ ~locked
    /\ lock_element' = e
    /\ Becomes(EnableWorkspace(State, current, FALSE))
    /\ elements' = PushFront(elements, e)
    /\ locked' = TRUE
    /\ UNCHANGED <<workspaces, current, task_list_enabled>>

Unlock(e) ==
    /\ failed = NULL
    /\ locked
    /\ lock_element = e
    /\ lock_element' = NULL
    /\ elements' = Remove(elements, e)
    /\ locked' = FALSE
    /\ Becomes(EnableWorkspace(State, current, TRUE))
    /\ UNCHANGED <<workspaces, current, task_list_enabled>>

\* The lock's client goes away while it holds the lock.
LockUnreference(e) ==
    /\ failed = NULL
    /\ lock_element = e
    /\ lock_element' = NULL
    /\ elements' = Remove(elements, e)
    /\ UNCHANGED <<ws, win, workspaces, current, locked, task_list_enabled, failed>>

-----------------------------------------------------------------------------
WindowStep(w) ==
    \/ TryMap(w)
    \/ SurfaceUnmap(w)
    \/ \E ready, b \in BOOLEAN : CommitUnmapped(w, ready, b)
    \/ \E b \in BOOLEAN : CommitMapped(w, b)
    \/ RequestMove(w)
    \/ \E edges \in Edge : RequestResize(w, edges) \/ ButtonDownOnResizebar(w, edges)
    \/ \E part \in {"content", "titlebar", "modifier"} : ButtonDown(w, part)

KeyStep ==
    \/ TaskToNext
    \/ TaskToPrevious
    \/ DeactivateTaskList
    \/ WindowToNextWorkspace
    \/ WindowToPreviousWorkspace
    \/ SwitchToNextWorkspace
    \/ SwitchToPreviousWorkspace
    \/ DestroyLastWorkspace

Next ==
    \/ \E w \in Window : WindowStep(w)
    \/ \E target \in Window \cup {NULL} : ButtonUp(target)
    \/ KeyStep
    \/ \E k \in Workspace :
           PointerLeave(k) \/ MoveToWorkspaceTriggered(k) \/ AddWorkspace(k)
    \/ \E e \in LockElement : Lock(e) \/ Unlock(e) \/ LockUnreference(e)

Spec == Init /\ [][Next]_vars
=============================================================================
