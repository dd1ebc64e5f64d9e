--------------------------- MODULE WindowElements ---------------------------
(***************************************************************************)
(* The elements of a workspace in use: windows that are mapped, unmapped,  *)
(* raised, activated and moved between the workspace's containers while    *)
(* the pointer moves over them and a menu of a window holds the grab       *)
(* (toolkit/workspace.c, toolkit/window.c, toolkit/root.c).  Each window   *)
(* shows the surface of its client, and popups (xdg_popup.c) that come and *)
(* go and that the client may hide and show.                               *)
(***************************************************************************)
EXTENDS Elements

CONSTANTS
    Window,         \* The containers that are windows.
    Windows,        \* The workspace's window_container.
    Fullscreen,     \* The workspace's fullscreen_container.
    SurfaceOf,      \* The surface that a window shows.
    MenuOf,         \* The menu of a window, NULL if it has none.
    PopupOf,        \* The popup of a window, NULL if it has none.
    Places,         \* Sets of leaves that may overlap at the pointer.
    AtStart         \* The elements of each container at start.

\* The tree also has activated, wlmtk_workspace_t::activated_window_ptr.

Init ==
    tree = [
        elements |-> AtStart,
        parent |-> [e \in Element |->
            IF \E c \in Container : e \in Members(AtStart[c])
            THEN CHOOSE c \in Container : e \in Members(AtStart[c]) ELSE NULL],
        visible |-> Element \ Menu,
        inside |-> {},
        inhibit |-> {},
        focus |-> [c \in Container |-> NULL],
        grab |-> [c \in Container |-> NULL],
        pressed |-> [c \in Container |-> NULL],
        keyboard |-> [c \in Container |-> NULL],
        seat |-> NULL,
        activated |-> NULL,
        failed |-> FALSE]

Mapped(t, w) == t.parent[w] # NULL

SetVisible(t, e, visible) ==
    [t EXCEPT !.visible = IF visible THEN @ \cup {e} ELSE @ \ {e}]

RaiseToTop(t, e) == [t EXCEPT !.elements[t.parent[e]] = MoveToFront(@, e)]

\* wlmtk_window_menu_set_enabled, of a window that has a menu.
SetMenuEnabled(t, w, enabled) ==
    LET m == MenuOf[w] IN
    IF m = NULL THEN t
    ELSE IF enabled THEN PointerGrab(RaiseToTop(SetVisible(t, m, TRUE), m), w, m)
    ELSE PointerGrabRelease(SetVisible(t, m, FALSE), w, m)

\* Mutant: the menu stays open.
SetActivatedOnly(t, w, enabled) == SetKeyboardFocus(t, w, SurfaceOf[w], enabled)

\* The toplevel activates its surface, and the menu of the window that loses
\* activation closes.
SetActivated(t, w, enabled) ==
    LET focused == SetKeyboardFocus(t, w, SurfaceOf[w], enabled) IN
    IF enabled THEN focused ELSE SetMenuEnabled(focused, w, FALSE)

\* wlmtk_workspace_activate_window: w may be NULL.
ActivateWindow(t, w) ==
    LET from == t.activated
        without == IF from = NULL THEN t ELSE SetActivated(t, from, FALSE)
        with == IF w = NULL THEN without ELSE SetActivated(without, w, TRUE)
    IN  IF from = w THEN t ELSE [with EXCEPT !.activated = w]

RaiseWindow(t, w) == IF t.parent[w] = Windows THEN RaiseToTop(t, w) ELSE t

-----------------------------------------------------------------------------
(* Button events.                                                          *)

\* A window that is given any button event is activated, and raised.
BeforeButton(t, e) ==
    IF e \in Window THEN RaiseWindow(ActivateWindow(t, e), e) ELSE t

\* A menu opened by the right button closes with it.
AfterButton(t, e, button) ==
    IF e \in Menu /\ button = "right" THEN SetMenuEnabled(t, t.parent[e], FALSE) ELSE t

RECURSIVE PointerButton(_, _, _, _)

\* The button event of a container goes on to one of its elements.
ContainerButton(t, c, button, type) ==
    LET target == ButtonTarget(t, c, button, type)
        sent == IF target = NULL THEN <<t, FALSE>>
                ELSE PointerButton(t, target, button, type)
        remembers == t.grab[c] = NULL /\ target # NULL /\ button = "left" /\ type = "down"
        pressed == IF sent[2] THEN sent[1].focus[c] ELSE NULL
    IN  IF remembers THEN <<[sent[1] EXCEPT !.pressed[c] = pressed], sent[2]>> ELSE sent

PointerButton(t, e, button, type) ==
    CASE e \in Surface -> SurfaceButton(t, e, type)
      [] e \in Leaf -> <<t, TRUE>>
      [] OTHER ->
            LET sent == ContainerButton(BeforeButton(t, e), e, button, type) IN
            <<AfterButton(sent[1], e, button), sent[2]>>

-----------------------------------------------------------------------------
(* The handlers.                                                           *)

\* Also each frame looks where the pointer is.
Motion(at) == tree' = PointerMotion(tree, Root, at)[1]

Press(button) == tree' = PointerButton(tree, Root, button, "down")[1]

\* wlmtk_root_pointer_button, of a release: also looks where the pointer is.
Release(button, at) ==
    LET up == PointerButton(tree, Root, button, "up")[1]
        click == PointerButton(up, Root, button, "click")[1]
    IN  tree' = PointerMotion(click, Root, at)[1]

NewPopup(w) ==
    /\ PopupOf[w] # NULL /\ tree.parent[PopupOf[w]] = NULL
    /\ tree' = AddElement(tree, w, PopupOf[w])

DestroyPopup(w) ==
    /\ PopupOf[w] # NULL /\ tree.parent[PopupOf[w]] = w
    /\ tree' = RemoveElement(tree, w, PopupOf[w])

\* The client maps or unmaps the surface of a popup.
ShowPopup(p) ==
    \E s \in Surface : /\ tree.parent[s] = p
                       /\ tree' = SetVisible(tree, s, s \notin tree.visible)

\* The client or the title bar asks for the menu.
EnableMenu(w) ==
    /\ MenuOf[w] # NULL /\ tree.activated = w
    /\ tree' = SetMenuEnabled(tree, w, TRUE)

\* Another window is chosen by key, or none as the desktop gets locked.
Activate(w) ==
    /\ w # NULL => Mapped(tree, w)
    /\ tree' = ActivateWindow(tree, w)

MapWindow(w) ==
    /\ ~Mapped(tree, w)
    /\ tree' = ActivateWindow(SetVisible(AddElement(tree, Windows, w), w, TRUE), w)

\* The topmost of the windows that remain is activated.
UnmapWindow(w) ==
    LET inactive == IF tree.activated = w THEN ActivateWindow(tree, NULL) ELSE tree
        removed == RemoveElement(SetVisible(inactive, w, FALSE), tree.parent[w], w)
        rest == removed.elements[Windows]
    IN  /\ Mapped(tree, w)
        /\ tree' = IF tree.activated # w \/ rest = <<>> THEN removed
                   ELSE ActivateWindow(removed, Head(rest))

\* Mutant: a window that is activated stays so.
MoveToFullscreenOnly(w, from, to) ==
    LET moved == AddElement(RemoveElement(tree, from, w), to, w) IN
    /\ tree.parent[w] = from
    /\ tree' = ActivateWindow(moved, w)

\* Removing the element leaves the keyboard focus inside of the window, hence
\* the window is deactivated and activated again.
WindowToFullscreen(w, from, to) ==
    LET moved == AddElement(RemoveElement(tree, from, w), to, w) IN
    /\ tree.parent[w] = from
    /\ tree' = ActivateWindow(ActivateWindow(moved, NULL), w)

Next ==
    /\ ~tree.failed
    /\ \/ \E at \in Places : Motion(at)
       \/ \E button \in {"left", "right"} : Press(button)
       \/ \E button \in {"left", "right"}, at \in Places : Release(button, at)
       \/ \E w \in Window : ShowPopup(PopupOf[w]) \/ NewPopup(w) \/ DestroyPopup(w)
       \/ \E w \in Window : EnableMenu(w)
       \/ \E w \in Window \cup {NULL} : Activate(w)
       \/ \E w \in Window : MapWindow(w) \/ UnmapWindow(w)
       \/ \E w \in Window : \/ WindowToFullscreen(w, Windows, Fullscreen)
                            \/ WindowToFullscreen(w, Fullscreen, Windows)

Spec == Init /\ [][Next]_tree

-----------------------------------------------------------------------------
(* Properties.                                                             *)

\* No assertion of the containers fails, nor the one of a surface that a button
\* event must belong to the surface that the seat's pointer is in
\* (container.c:292, 249, surface.c:558).
NoAssertionFails == ~tree.failed

\* The element that the motion at belongs to, below e: the topmost of the
\* visible leaves, or of those of the element that holds the grab.
RECURSIVE Topmost(_, _, _)
Topmost(t, e, at) ==
    LET es == IF t.grab[e] # NULL THEN <<t.grab[e]>> ELSE t.elements[e]
        found == {i \in DOMAIN es : Topmost(t, es[i], at) # NULL}
    IN  IF e \notin t.visible THEN NULL
        ELSE IF e \notin Container THEN IF e \in at THEN e ELSE NULL
        ELSE IF found = {} THEN NULL
        ELSE Topmost(t, es[CHOOSE i \in found : \A j \in found : i <= j], at)

\* The element at the end of the chain of links that starts at container c.
RECURSIVE EndOf(_, _)
EndOf(link, c) ==
    IF c = NULL \/ c \notin Container THEN c
    ELSE IF link[c] \in Menu THEN link[c] ELSE EndOf(link, link[c])

\* Where wlmtk_element_pointer_motion would end, with the pointer at at.
MotionEnd(at) == PointerMotion(tree, Root, at)

\* No element was hidden while the pointer was in it.
NoneLeftBehind ==
    \A e \in tree.inside \ {Root} :
        e \in tree.visible /\ tree.focus[tree.parent[e]] = e

\* Wherever the pointer goes, the focus of the containers leads from the root
\* to the topmost element there, and the seat's pointer is in that element's
\* surface and no other, whatever was hidden, raised, removed or grabbed before:
\* provided no element was left behind (element.c:271, container.c:524).
PointerFocusIsTopmost ==
    NoneLeftBehind => \A at \in Places :
        LET after == MotionEnd(at)[1]
            topmost == Topmost(tree, Root, at)
        IN  /\ \A c \in Container : (after.focus[c] = NULL) = (c \notin after.inside)
            /\ topmost # NULL => after.focus[tree.parent[topmost]] = topmost
            /\ after.inside \ Container = {topmost} \ {NULL}
            /\ after.seat = IF topmost \in Surface THEN topmost ELSE NULL

\* A motion is accepted if the pointer is in a visible element that takes it
\* (element.h:387).
MotionIsAccepted ==
    \A at \in Places :
        MotionEnd(at)[2] <=> Topmost(tree, Root, at) # NULL

\* The menu of a window is open exactly as long as it holds the grab, from the
\* root down to it: no step takes the grab and leaves the menu open, where it
\* could no longer be closed, or leaves a grab without an open menu, where the
\* pointer would be lost (window.c:712, container.c:312, 342).
OpenMenuHasGrab ==
    /\ \A w \in Window : MenuOf[w] # NULL =>
        (MenuOf[w] \in tree.visible <=> EndOf(tree.grab, Root) = MenuOf[w])
    /\ \A c \in Container : tree.grab[c] # NULL =>
        c = Root \/ (tree.parent[c] # NULL /\ tree.grab[tree.parent[c]] = c)

\* Keys reach the surface of the activated window, to which the seat sends them
\* too, and no surface if no window is activated: moving the window to another
\* container does not break the chain (workspace.c:694, container.c:363).
KeyboardReachesActivated ==
    EndOf(tree.keyboard, Root) =
        IF tree.activated = NULL THEN NULL ELSE SurfaceOf[tree.activated]
=============================================================================
