--------------------------- MODULE MCDesktopMenus ---------------------------
(* Two workspaces, of which one may be removed and added again.             *)
EXTENDS DesktopMenus, FiniteSets

CONSTANTS k1, k2, s1, s2

MCMenu == {RootMenu, Generated, WindowMenu, Workspaces}
MCItem == {ActionItem, GeneratedItem, GeneratorItem, ShadeItem, UnshadeItem, MoveItem, s1, s2}
MCSubmenuOf ==
    [i \in MCItem |-> CASE i = GeneratorItem -> Generated
                       [] i = MoveItem -> Workspaces
                       [] OTHER -> NULL]
MCWsItem == [k \in {k1, k2} |-> IF k = k1 THEN s1 ELSE s2]
MCMayStay == {ShadeItem}

\* Bounds: the root menu's window or the toplevel is shaded, and two of the four
\* menus have an item highlighted.
Bounded ==
    /\ Cardinality(d.shaded) <= 1
    /\ Cardinality({m \in Menu : d.menus.highlighted[m] # NULL}) <= 2

MCWorkspace == {k1, k2}
MCInitialWorkspaces == <<k1, k2>>
=============================================================================
