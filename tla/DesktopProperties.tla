------------------------- MODULE DesktopProperties -------------------------
(***************************************************************************)
(* What is expected of the desktop, its workspaces and its windows.        *)
(***************************************************************************)
EXTENDS Desktop

Attached == Members(workspaces)

\* The types of the variables (the structures of toolkit/desktop.c,
\* workspace.c and window.c).
TypeOK ==
    /\ ws \in [Workspace -> WorkspaceState]
    /\ win \in [Window -> WindowState]
    /\ workspaces \in Seq(Workspace)
    /\ current \in Workspace
    /\ locked \in BOOLEAN
    /\ lock_element \in LockElement \cup {NULL}
    /\ elements \in Seq(Workspace \cup LockElement \cup {Curtain})
    /\ task_list_enabled \in BOOLEAN
    /\ failed \in Site \cup {NULL}

-----------------------------------------------------------------------------
(* Activation.                                                             *)

\* The workspace's idea of the activated window and the window's own flag
\* (activate_window and set_activated, which call each other) never part: a
\* window shows as activated exactly if one workspace has it activated.
ActivationAgrees ==
    \A w \in Window :
        win[w].activated <=> \E k \in Workspace : ws[k].activated = w

\* "An enabled workspace can have keyboard focus and activated windows"
\* (workspace.h:149): only the current workspace is ever enabled, and only an
\* enabled workspace has an activated window, which is then also the one it
\* remembers for re-activation.
ActivatedOnlyWhereEnabled ==
    \A k \in Workspace :
        /\ ws[k].enabled => k = current
        /\ ws[k].activated # NULL =>
               ws[k].enabled /\ ws[k].formerly = ws[k].activated

\* No workspace holds on to a window that was unmapped from it: not as the
\* activated, nor as the formerly activated, nor as the grabbed window
\* (unmap_window must clear all three before the window may be destroyed).
NoDanglingWindow ==
    \A k \in Workspace :
        {ws[k].activated, ws[k].formerly, ws[k].grabbed}
            \subseteq {w \in Window : win[w].workspace = k} \cup {NULL}

\* An enabled workspace with a window in its window container has an activated
\* window: unmapping, moving away or restoring windows never leaves the
\* keyboard without a window while there is an ordinary one to take it.
FocusIsNotLost ==
    \A k \in Workspace :
        ws[k].window_container # <<>> =>
            /\ ws[k].formerly # NULL
            /\ ws[k].enabled => ws[k].activated # NULL

-----------------------------------------------------------------------------
(* Lists and containers.                                                   *)

\* Every mapped window is linked once in the list of its workspace and in
\* exactly one of its two containers, and nothing else is linked there, through
\* moves between workspaces, raises and changes to fullscreen and back. A window
\* in the fullscreen container knows that it is fullscreen, so that unmapping it
\* looks there.
ContainersPartitionWindows ==
    \A k \in Workspace :
        LET ordinary == Members(ws[k].window_container)
            fullscreen == Members(ws[k].fullscreen_container)
        IN  /\ failed = NULL => \A w \in fullscreen : win[w].fullscreen
            /\ Unique(ws[k].windows)
            /\ Unique(ws[k].window_container)
            /\ Unique(ws[k].fullscreen_container)
            /\ Members(ws[k].windows) = {w \in Window : win[w].workspace = k}
            /\ ordinary \cup fullscreen = Members(ws[k].windows)
            /\ ordinary \cap fullscreen = {}

\* The list of windows, which task cycling and the task list follow, has the
\* ordinary windows in their stacking order: "The un-fullscreened window will
\* come on top of the container. Also reflect that in windows"
\* (workspace.c:716).
TaskListFollowsStacking ==
    \A k \in Workspace : \A v, w \in Members(ws[k].window_container) :
        Precedes(ws[k].windows, v, w) <=> Precedes(ws[k].window_container, v, w)

-----------------------------------------------------------------------------
(* Interactive move and resize.                                            *)

\* The FSM of a workspace is out of "passthrough" exactly while it holds a
\* window, and a window keeps resize edges only while it is being resized: a
\* grab that ends early (unmap, leaving the workspace, moving to another one)
\* leaves neither a held window nor edges behind.
GrabIsBalanced ==
    /\ \A k \in Workspace : ws[k].grab # "passthrough" <=> ws[k].grabbed # NULL
    /\ \A w \in Window : win[w].resize_edges # NULL =>
           \E k \in Workspace : ws[k].grab = "resize" /\ ws[k].grabbed = w

-----------------------------------------------------------------------------
(* The desktop.                                                            *)

\* The current workspace is one of the desktop's, no window is mapped on a
\* workspace that was destroyed (destroy_last_workspace's guard), and while the
\* desktop is not locked the current workspace is enabled, after whatever
\* switches of workspaces took place while it was locked.
DesktopStaysWhole ==
    /\ Unique(workspaces)
    /\ current \in Attached
    /\ \A w \in Mapped : win[w].workspace \in Attached
    /\ ~locked => ws[current].enabled

\* The desktop's container holds the curtain, every workspace and the lock's
\* element, once each, and the curtain is above every workspace.
CurtainAboveWorkspaces ==
    /\ Unique(elements)
    /\ Members(elements) =
           Attached \cup {Curtain} \cup ({lock_element} \ {NULL})
    /\ \A k \in Attached : Precedes(elements, Curtain, k)

\* No handler maps a toplevel's window that is mapped, unmaps one from another
\* workspace or starts to move or resize one that is not mapped: the assertions of
\* map_window, unmap_window and begin_window_move/resize hold wherever they are
\* called for windows of toplevels (action.c:385, tl_menu.c:383, xdg_toplevel.c:532,
\* 608, 737). Nothing is said of the root menu's window, which server.c:505 maps a
\* second time once it is shaded: see MapsUnmappedOnly in DesktopMenus.
NoOtherFailure == failed \notin {"map_window", "unmap_window", "begin_window"}

-----------------------------------------------------------------------------
(* Steps.                                                                  *)

\* "When re-enabling a workspace, the formerly activated window will get
\* re-activated" (workspace.h:150): whichever window was activated last before
\* a switch or a lock is activated again by the step that enables it.
ReenablingReactivates ==
    [][\A k \in Workspace :
           ~ws[k].enabled /\ ws'[k].enabled =>
               ws'[k].activated = ws[k].formerly]_vars

\* The desktop implements the promise of its lock: see DesktopLock.
Promise == INSTANCE DesktopLock
               WITH Holder <- LockElement, NoHolder <- NULL,
                    locked <- locked, holder <- lock_element

ImplementsDesktopLock == Promise!Spec

-----------------------------------------------------------------------------
(* What documents, comments and assertions say, and the code does not do.  *)

\* "BS_ASSERT(element_ptr->parent_container_ptr == container_ptr)" where the
\* server raises the window chosen from the task list (container.c:258, from
\* server.c:555).
RaisedWindowIsInWindowContainer == failed # "container_raise"

\* "BS_ASSERT(element_ptr->parent_container_ptr == container_ptr)" where a
\* window is unmapped (container.c:222, from workspace.c:598).
UnmappedWindowIsInItsContainer == failed # "container_remove"

\* "BS_ASSERT(bs_dllist_contains(&workspace_ptr->fullscreen_container..." where
\* a window leaves fullscreen (workspace.c:702).
RestoredWindowIsInFullscreenContainer == failed # "window_to_fullscreen"

\* The tests of the lock manager verify that a locked desktop's workspace is
\* not enabled (lock_mgr.c:880, 881).
LockedDesktopIsDisabled == locked => ~ws[current].enabled

\* "The lock's element. Shown on top of curtain_rectangle_ptr" (desktop.c:60).
LockElementAboveCurtain ==
    lock_element # NULL => Precedes(elements, lock_element, Curtain)

\* "Edges currently active for resizing" (workspace.c:97): the edges of the
\* workspace, which motion follows, are those the resized window anchors to.
ResizeEdgesAgree ==
    \A k \in Workspace : ws[k].grab = "resize" =>
        win[ws[k].grabbed].resize_edges = ws[k].resize_edges
=============================================================================
