------------------------------- MODULE Docks -------------------------------
(***************************************************************************)
(* The clip and the dock (clip.c, dock.c, toolkit/dock.c): panels of the   *)
(* program itself, which it keeps on the top layer of the current          *)
(* workspace, on an output that each may prefer.  They listen to changes   *)
(* of the output layout ahead of the layers' output trackers, which would  *)
(* destroy them with their output, and to changes of the workspaces.       *)
(*                                                                         *)
(* Operators on a record st of the state, as in Panels.  An assertion that *)
(* does not hold sets st.failed.  Tiles, buttons and images are left out:  *)
(* their box has a width, which gives the panel its width and zone.        *)
(***************************************************************************)
EXTENDS Panels, FiniteSetsExt

CONSTANTS
    Dock,           \* The clip and the dock, in the order of their creation.
    Preferred,      \* For each of them, the outputs its description matches.
    Edge,           \* For each, the edge of the output it is at,
    Anchor,         \* and where along that edge it starts.
    Tiles,          \* Widths that themes and numbers of tiles give to each.
    TopLayer

Docks == Members(Dock)

ASSUME DockAssumption ==
    /\ Dock \in Seq(Panel)
    /\ Unique(Dock)
    /\ Preferred \in [Docks -> SUBSET Output]
    /\ Tiles \subseteq [Docks -> Nat]
    /\ TopLayer \in Layer

Primary(layout) == IF layout = <<>> THEN NULL ELSE Head(layout).output

\* The first output that matches, or else the primary one.
DockOutput(layout, d) ==
    LET matching == {i \in DOMAIN layout : layout[i].output \in Preferred[d]}
    IN  IF matching = {} THEN Primary(layout) ELSE layout[Min(matching)].output

\* _wlmtk_dock_positioning, for a box of tiles with the width given: the zone of a
\* dock at the top or the bottom edge is a vertical one.
DockPositioning(d, width) ==
    LET w == IF width < 1 THEN 1 ELSE width
        vertical == Edge[d] \in {"left", "right"}
    IN  [anchor |-> {"left", "right"} \cap {Edge[d], Anchor[d]}, width |-> w,
         zone |-> IF vertical THEN w ELSE 0, edge |-> IF vertical THEN Edge[d] ELSE NULL,
         margin |-> [left |-> 0, right |-> 0]]

\* BS_ASSERT(wlmtk_layer_add_panel(...)).
Attach(st, k, d, o) ==
    IF o = NULL THEN [st EXCEPT !.failed = TRUE]
    ELSE IF st.extents[o] = NULL THEN [st EXCEPT !.failed = TRUE]
    ELSE AddPanel([st EXCEPT !.panel[d].output = o], k, TopLayer, d)

\* wlmaker_clip_create, wlmaker_dock_create.
CreateDock(st, k, d, width) ==
    LET created == [output |-> NULL, layer_output |-> NULL, box |-> NULL,
                    visible |-> TRUE, positioning |-> DockPositioning(d, width)]
    IN  Attach([st EXCEPT !.panel[d] = created], k, d, DockOutput(st.layout, d))

\* Mutant: a dock without a layer is left alone.
KeepOnLayer(st, d) ==
    LET lo == st.panel[d].layer_output
        o == DockOutput(st.layout, d)
    IN  IF st.failed \/ lo = NULL THEN st
        ELSE IF o = NULL THEN RemovePanel(st, d)
        ELSE Attach(RemovePanel(st, d), lo.workspace, d, o)

\* _wlmaker_dock_handle_output_layout_change: the dock is removed from the layer
\* it is on, which there must be, and put on the same layer of its output, if any.
ChangeOutput(st, d) ==
    LET lo == st.panel[d].layer_output
        o == DockOutput(st.layout, d)
    IN  IF st.failed THEN st
        ELSE IF lo = NULL THEN [st EXCEPT !.failed = TRUE]
        ELSE IF o = NULL THEN RemovePanel(st, d)
        ELSE Attach(RemovePanel(st, d), lo.workspace, d, o)

\* _wlmaker_dock_handle_workspace_changed, when k is the current workspace: here
\* it is the primary output that is taken.
ChangeWorkspace(st, k, d) ==
    LET lo == st.panel[d].layer_output
        o == Primary(st.layout)
    IN  IF st.failed THEN st
        ELSE IF lo = NULL THEN Attach(st, k, d, o)
        ELSE IF lo.workspace = k THEN st
        ELSE Attach(RemovePanel(st, d), k, d, o)

\* The docks there are, in the order in which they were created, and the one in
\* which they listen to the layout: each is put ahead of those before it.
Created(st) == Among(Dock, {d \in Docks : st.panel[d] # NULL})
Listening(st) ==
    LET created == Created(st) IN
    [i \in DOMAIN created |-> created[Len(created) - i + 1]]

\* What all of them do, one after the other: after[i] is the state after i docks.
CreateDocks(st, k, tiles) ==
    LET after[i \in 0..Len(Dock)] ==
            IF i = 0 THEN st
            ELSE CreateDock(after[i - 1], k, Dock[i], tiles[Dock[i]])
    IN  after[Len(Dock)]

ChangeOutputs(st) ==
    LET docks == Listening(st)
        after[i \in 0..Len(docks)] ==
            IF i = 0 THEN st ELSE ChangeOutput(after[i - 1], docks[i])
    IN  after[Len(docks)]

ChangeWorkspaces(st, k) ==
    LET docks == Created(st)
        after[i \in 0..Len(docks)] ==
            IF i = 0 THEN st ELSE ChangeWorkspace(after[i - 1], k, docks[i])
    IN  after[Len(docks)]

\* wlmtk_dock_set_style, _add_tile and _remove_tile.
ResizeTiles(st, tiles) ==
    LET docks == Created(st)
        positioning(d) == DockPositioning(d, tiles[d])
        after[i \in 0..Len(docks)] ==
            IF i = 0 THEN st
            ELSE CommitPositioning(after[i - 1], docks[i], positioning(docks[i]))
    IN  after[Len(docks)]
=============================================================================
