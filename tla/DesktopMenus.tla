--------------------------- MODULE DesktopMenus ----------------------------
(***************************************************************************)
(* The menus of the desktop: the root menu (root_menu.c), a window of its  *)
(* own with a submenu that a generator's subprocess fills, and the menu of *)
(* a toplevel's window (window.c, tl_menu.c) with a submenu that moves the *)
(* window to another workspace.  Menu items execute actions (action_item.c)*)
(* on the desktop, which activates, moves and unmaps the windows that the  *)
(* menus belong to.  Of the desktop, only what menus depend on is modelled *)
(* here: Desktop.tla has all of it.  Allocations do not fail.              *)
(***************************************************************************)
EXTENDS Menus

LOCAL Seqs == INSTANCE SequencesExt

CONSTANTS
    RootMenu, Generated,            \* The root menu and its submenu.
    WindowMenu, Workspaces,         \* The window's menu and its submenu.
    ActionItem, GeneratedItem,      \* Items of the first two.
    GeneratorItem,                  \* The item that opens submenu Generated.
    ShadeItem, UnshadeItem, MoveItem, \* Items of the window's menu.
    WsItem,                         \* Each workspace's item in Workspaces.
    RootWindow, Window,             \* The root menu's window and the toplevel's.
    Workspace, InitialWorkspaces,
    MayStay         \* Bound: items that the pointer may stay in, once hidden.

\* The desktop: the menus and the mode of the root menu and its submenus, the
\* windows that are shaded, the workspaces and the current one, for each
\* workspace its windows in stacking order and its activated and formerly
\* activated window, and whether an assertion has failed.
VARIABLE d

Windows == {RootWindow, Window}

\* wlmtk_window_t::workspace_ptr.
WorkspaceOf(s, w) ==
    IF \E k \in Workspace : w \in Members(s.windows[k])
    THEN CHOOSE k \in Workspace : w \in Members(s.windows[k]) ELSE NULL

Active(s) == s.activated[s.current]

-----------------------------------------------------------------------------
(* The menus' handlers of what happens to windows and workspaces.          *)

\* wlmtk_window_menu_set_enabled.
WindowMenuSetEnabled(s, enabled) ==
    [s EXCEPT !.menus = SetOpen(@, WindowMenu, enabled /\ Active(s) = Window)]

\* Disables the workspace item for the workspace that the window is on.
WorkspaceItemEnabled(s, i) == ~\E k \in Workspace : i = WsItem[k] /\ k = WorkspaceOf(s, Window)

\* _wlmaker_tl_menu_handle_window_state_changed.
StateChanged(s) ==
    LET on(i) == CASE i = ShadeItem -> Window \notin s.shaded
                   [] i = UnshadeItem -> Window \in s.shaded
                   [] OTHER -> WorkspaceItemEnabled(s, i)
    IN  [s EXCEPT !.menus = Seqs!FoldLeft(
            LAMBDA t, i : SetEnabled(t, i, on(i)), @,
            <<ShadeItem, UnshadeItem>> \o [n \in DOMAIN s.spaces |-> WsItem[s.spaces[n]]])]

\* New items for the workspaces, in place of those that the submenu has.
NewWorkspaceItems(s) ==
    LET none == Seqs!FoldLeft(LAMBDA t, i : RemoveItem(t, Workspaces, i),
                         s.menus, s.menus.items[Workspaces])
        new(t, k) == AddItem(NewItem(t, WsItem[k]), Workspaces, WsItem[k])
    IN  Seqs!FoldLeft(new, none, s.spaces)

\* Mutant: the items are not enabled and disabled anew.
RebuildOnly(s) == [s EXCEPT !.menus = NewWorkspaceItems(s)]

\* _wlmaker_tl_menu_handle_workspace_changed: one new item per workspace.
WorkspaceChanged(s) ==
    [s EXCEPT !.menus = Seqs!FoldLeft(
        LAMBDA t, k : SetEnabled(t, WsItem[k], WorkspaceItemEnabled(s, WsItem[k])),
        NewWorkspaceItems(s), s.spaces)]

\* Mutant: the menu stays open as its window is deactivated.
DeactivateKeepingMenu(s, k) ==
    [s EXCEPT !.activated[k] = NULL,
              !.formerly[k] = IF s.activated[k] = NULL THEN @ ELSE s.activated[k]]

\* wlmtk_workspace_activate_window(k, NULL): deactivated, the window closes its
\* menu.
Deactivate(s, k) ==
    LET w == s.activated[k]
        off == [s EXCEPT !.activated[k] = NULL, !.formerly[k] = w]
    IN  IF w = NULL THEN s
        ELSE IF w = Window THEN WindowMenuSetEnabled(off, FALSE) ELSE off

ActivateWindow(s, k, w) ==
    IF s.activated[k] = w THEN s
    ELSE [Deactivate(s, k) EXCEPT
             !.formerly[k] = IF w = NULL THEN @ ELSE w,
             !.activated[k] = IF k = s.current THEN w ELSE @]

SetWorkspaceOf(s, w) == IF w = Window THEN StateChanged(s) ELSE s

\* Asserts that the window is not mapped yet.
MapWindow(s, k, w) ==
    IF WorkspaceOf(s, w) # NULL THEN [s EXCEPT !.failed = TRUE]
    ELSE ActivateWindow(SetWorkspaceOf([s EXCEPT !.windows[k] = PushFront(@, w)], w), k, w)

\* The window that was on top below w takes over, if w was or had been activated.
UnmapWindow(s, w) ==
    LET k == WorkspaceOf(s, w)
        rest == Remove(s.windows[k], w)
        off == IF s.activated[k] = w THEN Deactivate(s, k) ELSE s
        without == [off EXCEPT !.windows[k] = rest, !.formerly[k] = IF @ = w THEN NULL ELSE @]
        next == IF w \notin {s.activated[k], s.formerly[k]} THEN s.activated[k]
                ELSE IF rest = <<>> THEN NULL ELSE Head(rest)
    IN  ActivateWindow(SetWorkspaceOf(without, w), k, next)

\* Mutant: the window of the root menu stays mapped.
HideRootMenu(s) == [s EXCEPT !.menus = SetOpen(@, RootMenu, FALSE)]

\* wlmtk_menu_set_open of the root menu: unmaps its window.
CloseRootMenu(s) ==
    LET closed == [s EXCEPT !.menus = SetOpen(@, RootMenu, FALSE)] IN
    IF RootMenu \notin s.menus.open \/ WorkspaceOf(s, RootWindow) = NULL THEN closed
    ELSE UnmapWindow(closed, RootWindow)

OpenRootMenu(s, mode) ==
    LET mapped == MapWindow(s, s.current, RootWindow) IN
    IF mapped.failed THEN mapped
    ELSE [mapped EXCEPT !.mode = mode, !.menus = SetOpen(@, RootMenu, TRUE)]

-----------------------------------------------------------------------------
(* Actions that are bound to keys and to menu items. They act on the       *)
(* current workspace and its activated window.                             *)

\* The workspace next to k, in either direction: NULL at the end.
Neighbor(s, k, by) ==
    LET n == Position(s.spaces, k) + by IN
    IF n \in DOMAIN s.spaces THEN s.spaces[n] ELSE NULL

\* wlmtk_window_request_shaded: shows or hides the content of the window, which
\* for the root menu's window is the menu itself.
RequestShaded(s, w, shaded) ==
    LET set == [s EXCEPT !.shaded = IF shaded THEN @ \cup {w} ELSE @ \ {w}] IN
    IF shaded = (w \in s.shaded) THEN s
    ELSE IF w = Window THEN StateChanged(set)
    ELSE [set EXCEPT !.menus.open =
              IF shaded THEN @ \ {RootMenu} ELSE @ \cup {RootMenu}]

ShadeWindow(s, shaded) ==
    IF Active(s) = NULL THEN s ELSE RequestShaded(s, Active(s), shaded)

MoveWindow(s, by) ==
    LET k == Neighbor(s, s.current, by) IN
    IF Active(s) = NULL \/ k = NULL THEN s
    ELSE MapWindow(UnmapWindow(s, Active(s)), k, Active(s))

\* _wlmtk_desktop_switch_to_workspace.
SwitchTo(s, k) ==
    LET to == [Deactivate(s, s.current) EXCEPT !.current = k] IN
    IF k = s.current THEN s
    ELSE WorkspaceChanged(ActivateWindow(to, k, to.formerly[k]))

AddWorkspace(s, k) == WorkspaceChanged([s EXCEPT !.spaces = PushBack(@, k)])

DestroyLast(s) ==
    LET k == Seqs!Last(s.spaces) IN
    IF Len(s.spaces) = 1 \/ k = s.current \/ s.windows[k] # <<>> THEN s
    ELSE WorkspaceChanged([s EXCEPT !.spaces = Remove(@, k), !.formerly[k] = NULL])

\* WLMAKER_ACTION_ROOT_MENU.
ShowRootMenu(s) ==
    IF WorkspaceOf(s, RootWindow) # NULL THEN s ELSE OpenRootMenu(s, "normal")

\* The outcomes of an action that the user has bound.
Executed(s) ==
    {DestroyLast(s), ShowRootMenu(s)}
        \cup {ShadeWindow(s, shaded) : shaded \in BOOLEAN}
        \cup {MoveWindow(s, by) : by \in {1, -1}}
        \cup {AddWorkspace(s, k) : k \in Workspace \ Members(s.spaces)}
        \cup {SwitchTo(s, k) : k \in Members(s.spaces)}

\* Items of workspaces move the window there, all others execute their action.
Handled(s, i) ==
    CASE \E k \in Workspace : WsItem[k] = i ->
            LET k == CHOOSE l \in Workspace : WsItem[l] = i IN
            {MapWindow(UnmapWindow(s, Window), k, Window)}
      [] i \in {ShadeItem, UnshadeItem} -> {ShadeWindow(s, i = ShadeItem)}
      [] i \in {MoveItem, GeneratorItem} -> {s}
      [] OTHER -> Executed(s)

\* wlmtk_menu_item_trigger: an action that was executed closes the root menu.
Triggered(s, i) ==
    LET closes == i # GeneratorItem /\ \A k \in Workspace : WsItem[k] # i IN
    IF s.menus.state[i] = "disabled" THEN {s}
    ELSE {IF closes THEN CloseRootMenu(r) ELSE r : r \in Handled(s, i)}

-----------------------------------------------------------------------------
(* The handlers.                                                           *)

\* A menu in right-click mode holds the pointer.
Grabbed == WindowMenu \in d.menus.open \/ (RootMenu \in d.menus.open /\ d.mode = "rightclick")

\* The scroll wheel on the title bar.
Scroll(w, shaded) ==
    /\ WorkspaceOf(d, w) = d.current /\ ~Grabbed
    /\ d' = RequestShaded(d, w, shaded)

\* Right button on the background.
RightClick ==
    /\ ~Grabbed
    /\ RootMenu \notin d.menus.open
    /\ d' = OpenRootMenu(d, "rightclick")

\* Right button on the title bar: clicking the window activates it. Or the
\* client asks for the menu.
ShowWindowMenu ==
    /\ WorkspaceOf(d, Window) = d.current
    /\ \/ d' = WindowMenuSetEnabled(ActivateWindow(d, d.current, Window), TRUE)
       \/ d' = WindowMenuSetEnabled(d, WindowMenu \notin d.menus.open)

\* The menu that holds the pointer, or takes part in its motion.
PointerMenus(s) == {m \in s.menus.open : Shown(s.menus, m)}

\* Items of menus that are not seen may keep what they know of the pointer.
Motion(i) ==
    LET t == d.menus
        hidden == {k \in t.inside \cap MayStay : MenuOf(t, k) \notin PointerMenus(d)}
    IN  /\ i # NULL => \E m \in PointerMenus(d) : i \in Members(t.items[m])
        /\ \E stay \in SUBSET hidden :
               d' = [d EXCEPT !.menus = PointerMoves(t, (t.inside \ {i}) \ stay, i)]

\* The menu at the root of the menus that m belongs to.
TopOf(m) == IF m \in {RootMenu, Generated} THEN RootMenu ELSE WindowMenu

\* A button is released at an item that the pointer is in. The window's menu is
\* always in right-click mode; a menu in that mode closes with the button.
Button(i) ==
    LET m == MenuOf(d.menus, i) IN
    /\ m \in PointerMenus(d) /\ i \in d.menus.inside
    /\ \E s \in Triggered(d, i) :
           d' = IF TopOf(m) = WindowMenu THEN WindowMenuSetEnabled(s, FALSE)
                ELSE IF d.mode = "rightclick" THEN CloseRootMenu(s)
                ELSE s

\* The right button is released next to the items, or the title bar's close
\* button is pressed.
Dismiss(m) ==
    /\ m \in d.menus.open
    /\ d' = IF m = RootMenu THEN CloseRootMenu(d) ELSE WindowMenuSetEnabled(d, FALSE)

\* Keys reach the root menu while its window is activated.
Key(keysym) ==
    LET m == KeyTarget(d.menus, RootMenu)
        i == d.menus.highlighted[m]
    IN  /\ Active(d) = RootWindow
        /\ CASE keysym = "Escape" /\ m = RootMenu -> d' = CloseRootMenu(d)
             [] keysym = "Return" -> IF i = NULL THEN UNCHANGED d ELSE d' \in Triggered(d, i)
             [] OTHER -> d' = [d EXCEPT !.menus = KeyboardSym(@, m, keysym)]

\* The window is clicked, or chosen from the task list.
Activate(w) ==
    /\ WorkspaceOf(d, w) = d.current
    /\ d' = ActivateWindow(d, d.current, w)

\* _wlmaker_root_menu_generator_handle_terminated, once: the items it generated,
\* or a disabled item that tells of the failure.
Generate ==
    LET t == AddItem(d.menus, Generated, GeneratedItem) IN
    /\ d.menus.items[Generated] = <<>>
    /\ \/ d' = [d EXCEPT !.menus = t]
       \/ d' = [d EXCEPT !.menus = SetEnabled(t, GeneratedItem, FALSE)]

ExecuteAction == d' \in Executed(d)

MapOrUnmap ==
    IF WorkspaceOf(d, Window) = NULL THEN d' = MapWindow(d, d.current, Window)
    ELSE d' = UnmapWindow(d, Window)

-----------------------------------------------------------------------------

InitialMenus == [
    open |-> {},
    items |-> [m \in Menu |->
        CASE m = RootMenu -> <<ActionItem, GeneratorItem>>
          [] m = WindowMenu -> <<ShadeItem, UnshadeItem, MoveItem>>
          [] OTHER -> <<>>],
    highlighted |-> [m \in Menu |-> NULL],
    on |-> Item, state |-> [i \in Item |-> "enabled"], inside |-> {}]

Init ==
    d = WorkspaceChanged(StateChanged([
        menus |-> InitialMenus, mode |-> "normal", shaded |-> {}, failed |-> FALSE,
        spaces |-> InitialWorkspaces, current |-> Head(InitialWorkspaces),
        windows |-> [k \in Workspace |-> <<>>],
        activated |-> [k \in Workspace |-> NULL],
        formerly |-> [k \in Workspace |-> NULL]]))

Keysym == {"Escape", "Return", "Left", "Right", "Home", "End", "Up", "Down"}

Next ==
  /\ ~d.failed
  /\ \/ RightClick \/ ShowWindowMenu \/ Generate \/ ExecuteAction \/ MapOrUnmap
     \/ \E i \in Item \cup {NULL} : Motion(i)
     \/ \E i \in Item : Button(i)
     \/ \E m \in {RootMenu, WindowMenu} : Dismiss(m)
     \/ \E keysym \in Keysym : Key(keysym)
     \/ \E w \in Windows, shaded \in BOOLEAN : Scroll(w, shaded)
     \/ \E w \in Windows : Activate(w)

Spec == Init /\ [][Next]_d

-----------------------------------------------------------------------------
(* Properties.                                                             *)

\* A submenu is open for exactly as long as its item is highlighted, and it
\* does not outlive the menu of that item (menu_item.c:535, menu.c:231).
SubmenuFollowsItem ==
    \A m \in Menu : ParentItem(m) # NULL =>
        LET i == ParentItem(m)
            parent == MenuOf(d.menus, i)
        IN  /\ m \in d.menus.open <=> d.menus.state[i] = "highlighted"
            /\ m \in d.menus.open =>
                   parent \in d.menus.open \/ (parent = RootMenu /\ RootWindow \in d.shaded)

\* The root menu is open exactly as long as its window is mapped, unless that
\* is shaded: no window is left without its menu (root_menu.c:335).
RootMenuIsMapped ==
    RootMenu \in d.menus.open <=> WorkspaceOf(d, RootWindow) # NULL /\ RootWindow \notin d.shaded

\* The window menu is open only for the window that is activated on the
\* current workspace: that is the window its items act on (tl_menu.c:117).
WindowMenuActsOnItsWindow ==
    WindowMenu \in d.menus.open => Active(d) = Window /\ WorkspaceOf(d, Window) = d.current

\* The submenu of workspaces has one item per workspace, in their order, and
\* permits to move the window to all but the one it is on (tl_menu.c:279, 361).
WorkspaceItemsFollowDesktop ==
    /\ d.menus.items[Workspaces] = [n \in DOMAIN d.spaces |-> WsItem[d.spaces[n]]]
    /\ \A k \in Members(d.spaces) :
           WsItem[k] \in d.menus.on <=> WorkspaceOf(d, Window) # k

\* Not so: an item that is enabled triggers (menu_item.c:1044).
EnabledItemTriggers == \A i \in d.menus.on : d.menus.state[i] # "disabled"

\* Not so: "BS_ASSERT(NULL == wlmtk_window_get_workspace(window_ptr))"
\* (workspace.c:552): a window is mapped only when it is not. To shade the root
\* menu's window hides the menu in it, which then counts as closed, and a click
\* that is nobody's maps the window once more (server.c:499).
MapsUnmappedOnly == ~d.failed
=============================================================================
