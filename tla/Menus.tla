------------------------------- MODULE Menus -------------------------------
(***************************************************************************)
(* Menus and their items, toolkit/menu.c and toolkit/menu_item.c: which    *)
(* menus are open, which item each menu has highlighted, and the submenus  *)
(* that open as their item is highlighted.  Menus and items call each      *)
(* other back through signals, so each function is an operator on the      *)
(* state of all menus.  Drawing and styles are left out; right-click mode  *)
(* is a state of the whole tree of submenus, as set_mode passes it on.     *)
(***************************************************************************)
EXTENDS Naturals, Sequences, FiniteSetsExt, Lists

CONSTANTS
    Menu,
    Item,
    SubmenuOf,      \* The submenu that an item opens, NULL if none.
    NULL

\* State of the menus: the open ones, each menu's items and highlighted item,
\* the items that are enabled (a flag next to the item's state), each item's
\* state, and the items that have the pointer inside of them.
MenuState == [
    open: SUBSET Menu,
    items: [Menu -> Seq(Item)],
    highlighted: [Menu -> Item \cup {NULL}],
    on: SUBSET Item,
    state: [Item -> {"enabled", "highlighted", "disabled"}],
    inside: SUBSET Item]

\* wlmtk_menu_item_t::menu_ptr, and wlmtk_menu_t::parent_menu_item_ptr.
MenuOf(t, i) ==
    IF \E m \in Menu : i \in Members(t.items[m])
    THEN CHOOSE m \in Menu : i \in Members(t.items[m]) ELSE NULL
ParentItem(m) ==
    IF \E i \in Item : SubmenuOf[i] = m
    THEN CHOOSE i \in Item : SubmenuOf[i] = m ELSE NULL

-----------------------------------------------------------------------------
(* Opening and highlighting.                                               *)

RECURSIVE SetOpen(_, _, _)

\* _wlmtk_menu_item_set_state: the submenu is open as long as its item is
\* highlighted.
SetState(t, i, state) ==
    LET set == [t EXCEPT !.state[i] = state] IN
    IF t.state[i] = state THEN t
    ELSE IF SubmenuOf[i] = NULL THEN set
    ELSE SetOpen(set, SubmenuOf[i], state = "highlighted")

SetHighlighted(t, i, highlighted) ==
    IF i \notin t.on THEN t
    ELSE SetState(t, i, IF highlighted THEN "highlighted" ELSE "enabled")

\* Ends the highlight of the item that menu m has highlighted.
Unhighlight(t, m) ==
    IF t.highlighted[m] = NULL THEN t
    ELSE [SetHighlighted(t, t.highlighted[m], FALSE) EXCEPT !.highlighted[m] = NULL]

RequestItemHighlight(t, m, i) ==
    IF t.highlighted[m] = i THEN t
    ELSE [SetHighlighted(Unhighlight(t, m), i, TRUE) EXCEPT
             !.highlighted[m] = IF i \in t.on THEN i ELSE NULL]

\* Mutant: the menu's highlight does not end as it closes.
SetOpenOnly(t, m, opened) ==
    [t EXCEPT !.open = IF opened THEN @ \cup {m} ELSE @ \ {m}]

\* wlmtk_menu_set_open. The item of a submenu listens, and keeps the highlight
\* of a submenu that opens.
SetOpen(t, m, opened) ==
    LET shown == [t EXCEPT !.open = IF opened THEN @ \cup {m} ELSE @ \ {m}]
        set == Unhighlight(shown, m)
        i == ParentItem(m)
    IN  IF opened = (m \in t.open) THEN t
        ELSE IF ~opened \/ i = NULL \/ MenuOf(t, i) = NULL THEN set
        ELSE RequestItemHighlight(set, MenuOf(t, i), i)

-----------------------------------------------------------------------------
(* Items.                                                                  *)

AddItem(t, m, i) == [t EXCEPT !.items[m] = Append(@, i)]

RemoveItem(t, m, i) ==
    [t EXCEPT !.highlighted[m] = IF @ = i THEN NULL ELSE @,
              !.items[m] = Remove(@, i)]

\* wlmtk_menu_item_create.
NewItem(t, i) ==
    [t EXCEPT !.on = @ \cup {i}, !.state[i] = "enabled", !.inside = @ \ {i}]

SetEnabled(t, i, enabled) ==
    LET set == [t EXCEPT !.on = IF enabled THEN @ \cup {i} ELSE @ \ {i}] IN
    IF enabled = (i \in t.on) THEN t
    ELSE IF enabled /\ MenuOf(t, i) # NULL /\ i \in t.inside
    THEN RequestItemHighlight(set, MenuOf(t, i), i)
    ELSE SetState(set, i, IF enabled THEN "enabled" ELSE "disabled")

-----------------------------------------------------------------------------
(* The pointer.                                                            *)

\* An item is seen if its menu is open, and that menu's item is seen, too.
RECURSIVE Shown(_, _)
Shown(t, m) ==
    /\ m \in t.open
    /\ ParentItem(m) # NULL => Shown(t, MenuOf(t, ParentItem(m)))

\* Handlers of pointer_enter and of pointer_motion.
Enter(t, i) ==
    IF i \in t.on /\ MenuOf(t, i) # NULL
    THEN RequestItemHighlight(t, MenuOf(t, i), i) ELSE t

\* Handler of pointer_leave: an open submenu keeps its item highlighted.
Leave(t, i) ==
    LET left == [t EXCEPT !.inside = @ \ {i}] IN
    IF /\ i \in t.on /\ t.state[i] = "highlighted" /\ MenuOf(t, i) # NULL
       /\ SubmenuOf[i] \notin t.open
    THEN RequestItemHighlight(left, MenuOf(t, i), NULL) ELSE left

\* The pointer moves off the items "left" and, unless i is NULL, to i.
PointerMoves(t, left, i) ==
    LET away == FoldSet(LAMBDA k, acc : Leave(acc, k), t, left) IN
    IF i = NULL THEN away ELSE Enter([away EXCEPT !.inside = @ \cup {i}], i)

-----------------------------------------------------------------------------
(* The keyboard.                                                           *)

\* _wlmtk_menu_this_or_next_non_disabled_dlnode, from position n: forward, or
\* backward. 0 if there is none.
ThisOrNext(t, m, n, forward) ==
    LET es == t.items[m]
        found == {k \in DOMAIN es : /\ n # 0
                                    /\ IF forward THEN k >= n ELSE k <= n
                                    /\ t.state[es[k]] # "disabled"}
    IN  IF found = {} THEN 0
        ELSE CHOOSE k \in found : \A l \in found : IF forward THEN k <= l ELSE k >= l

\* The position where the search for the item that the key leads to begins.
SearchFrom(t, m, keysym) ==
    LET es == t.items[m]
        end == IF keysym \in {"Home", "Down"} THEN (IF es = <<>> THEN 0 ELSE 1)
               ELSE Len(es)
        at == {k \in DOMAIN es : es[k] = t.highlighted[m]}
        next == IF keysym = "Down" THEN {k + 1 : k \in at} \cap DOMAIN es
                ELSE {k - 1 : k \in at} \cap DOMAIN es
        found == IF next = {} THEN 0
                 ELSE ThisOrNext(t, m, CHOOSE k \in next : TRUE, keysym = "Down")
    IN  IF keysym \in {"Home", "End"} \/ found = 0 THEN end ELSE found

\* Highlights the item at position n, if there is any.
HighlightAt(t, m, n) == IF n = 0 THEN t ELSE RequestItemHighlight(t, m, t.items[m][n])

\* The menu that a key goes to: the innermost that has an item highlighted, or
\* m itself.
RECURSIVE KeyTarget(_, _)
KeyTarget(t, m) ==
    LET i == t.highlighted[m] IN
    IF i = NULL \/ SubmenuOf[i] = NULL \/ t.highlighted[SubmenuOf[i]] = NULL THEN m
    ELSE KeyTarget(t, SubmenuOf[i])

\* Keys that move the highlight in m, the menu that the key goes to. Escape in
\* a menu that has no parent, and Return, are up to the caller.
KeyboardSym(t, m, keysym) ==
    LET sub == IF t.highlighted[m] = NULL THEN NULL ELSE SubmenuOf[t.highlighted[m]] IN
    CASE keysym \in {"Escape", "Left"} ->
            IF ParentItem(m) = NULL THEN t ELSE RequestItemHighlight(t, m, NULL)
      [] keysym = "Right" ->
            IF sub = NULL \/ t.items[sub] = <<>> THEN t
            ELSE HighlightAt(t, sub, ThisOrNext(t, sub, 1, TRUE))
      [] OTHER ->
            HighlightAt(t, m, ThisOrNext(t, m, SearchFrom(t, m, keysym),
                                         keysym \in {"Home", "Down"}))
=============================================================================
