------------------------------- MODULE Panels -------------------------------
(***************************************************************************)
(* The layers of workspaces and the panels in them (toolkit/layer.c,       *)
(* toolkit/panel.c), as operators on a record st of the state: every layer *)
(* tracks the outputs of the layout and keeps, for each, the list of the   *)
(* panels it places there one after the other, each taking an exclusive    *)
(* zone from those that follow.                                            *)
(*                                                                         *)
(* All layers track the same layout and so hold the same extents of the    *)
(* outputs.  Coordinates are horizontal: the vertical ones are computed in *)
(* the same way.  Panels are anchored at top and bottom, or at neither.    *)
(***************************************************************************)
EXTENDS Integers, Sequences, Lists

CONSTANTS
    Output,
    Panel,          \* Memory for the panels clients create.
    Workspace,
    Layer,          \* The layers panels may ask for.
    NULL

\* wlmtk_layer_output_t: the part of a workspace's layer on one output.
LayerOutput == [workspace : Workspace, layer : Layer, output : Output]

\* What clients commit of a panel, and the panels there are.
Positionings ==
    [anchor : SUBSET {"left", "right"}, width : Nat, zone : Int,
     edge : {"left", "right", NULL}, margin : [left : Int, right : Int]]

Places == [x : Int, width : Int]

PanelStates ==
    [output : Output \cup {NULL}, layer_output : LayerOutput \cup {NULL},
     box : Places \cup {NULL}, visible : BOOLEAN, positioning : Positionings]

\* Halves as C divides, towards zero.
Half(n) == IF n >= 0 THEN n \div 2 ELSE -((-n) \div 2)

-----------------------------------------------------------------------------
(* Where panels are placed. A positioning has an anchor (a set of edges),  *)
(* a width (0 if it is left to the anchors), margins, an exclusive zone    *)
(* and the edge that the zone binds to, or NULL to derive it.              *)

\* wlmtk_panel_compute_dimensions: a negative zone ignores other panels.
Dimensions(pos, full, usable) ==
    LET area == IF pos.zone < 0 THEN full ELSE usable
        atLeft == area.x + pos.margin.left
        atRight == area.x + area.width - pos.margin.right - pos.width
        centered == area.x + Half(area.width) - Half(pos.width)
    IN  IF pos.width = 0
        THEN [x |-> atLeft, width |-> area.width - pos.margin.left - pos.margin.right]
        ELSE [x |-> CASE pos.anchor = {"left"} -> atLeft
                      [] pos.anchor = {"right"} -> atRight
                      [] OTHER -> centered,
              width |-> pos.width]

ExclusiveEdge(pos) ==
    IF pos.edge # NULL THEN pos.edge
    ELSE CASE pos.anchor = {"left"} -> "left"
           [] pos.anchor = {"right"} -> "right"
           [] OTHER -> NULL

\* The usable area that the panel leaves.
UsableArea(pos, usable) ==
    IF pos.zone <= 0 \/ ExclusiveEdge(pos) \notin pos.anchor THEN usable
    ELSE IF ExclusiveEdge(pos) = "left"
    THEN [x |-> usable.x + pos.zone + pos.margin.left,
          width |-> usable.width - pos.zone - pos.margin.left]
    ELSE [usable EXCEPT !.width = @ - pos.zone - pos.margin.right]

\* The usable area after the first n panels of a list, which are positioned as given
\* and of which the visible ones take their zones.
Usable(positionings, visible, full) ==
    LET usable[n \in 0..Len(positionings)] ==
            CASE n = 0 -> full
              [] n # 0 /\ visible[n] -> UsableArea(positionings[n], usable[n - 1])
              [] OTHER -> usable[n - 1]
    IN  usable

\* The boxes of the panels in the list, with those in visible seen as visible.
Boxes(panel, list, full, visible) ==
    LET positionings == [i \in DOMAIN list |-> panel[list[i]].positioning]
        usable == Usable(positionings, [i \in DOMAIN list |-> list[i] \in visible], full)
    IN  [i \in DOMAIN list |-> Dimensions(positionings[i], full, usable[i - 1])]

Visible(panel) == {p \in Panel : panel[p] # NULL /\ panel[p].visible}

-----------------------------------------------------------------------------
(* Handlers.                                                               *)

\* The places that the panels of a list get, and the panels once they have them.
Placements(list, boxes) == {[panel |-> list[i], box |-> boxes[i]] : i \in DOMAIN list}
Moved(panel, placements) ==
    [p \in Panel |-> IF p \in {c.panel : c \in placements}
                     THEN [panel[p] EXCEPT !.box = (CHOOSE c \in placements : c.panel = p).box]
                     ELSE panel[p]]

\* wlmtk_layer_output_reconfigure, of each of the layer outputs los.
Reconfigure(st, los) ==
    [st EXCEPT !.panel = Moved(@, UNION {
        Placements(st.panels[lo], Boxes(st.panel, st.panels[lo], st.extents[lo.output],
                                        Visible(st.panel))) : lo \in los})]

\* wlmtk_panel_commit.
CommitPositioning(st, p, pos) ==
    LET committed == [st EXCEPT !.panel[p].positioning = pos] IN
    IF pos = st.panel[p].positioning \/ st.panel[p].layer_output = NULL THEN committed
    ELSE Reconfigure(committed, {st.panel[p].layer_output})

\* wlmtk_layer_add_panel: unless the layer does not have the panel's output.
AddPanel(st, k, l, p) ==
    LET o == st.panel[p].output
        lo == [workspace |-> k, layer |-> l, output |-> o]
    IN  IF o = NULL THEN st
        ELSE IF st.extents[o] = NULL THEN st
        ELSE Reconfigure([st EXCEPT !.panel[p].layer_output = lo,
                                    !.panels[lo] = PushBack(@, p)], {lo})

\* wlmtk_layer_remove_panel.
RemovePanel(st, p) ==
    LET lo == st.panel[p].layer_output IN
    Reconfigure([st EXCEPT !.panels[lo] = Remove(@, p),
                           !.panel[p].layer_output = NULL,
                           !.panel[p].box = NULL], {lo})

\* Mutant: the layer keeps the panel.
DestroyPanelOnly(st, p) == [st EXCEPT !.panel[p] = NULL]

\* _wlmaker_layer_panel_destroy.
DestroyPanel(st, p) ==
    LET removed == IF st.panel[p].layer_output = NULL THEN st ELSE RemovePanel(st, p)
    IN  [removed EXCEPT !.panel[p] = NULL]

\* The parts of all layers on some outputs, and those of a workspace's layers.
OnOutputs(outputs) == {lo \in LayerOutput : lo.output \in outputs}
OfWorkspace(k) == {lo \in LayerOutput : lo.workspace = k}

\* _wlmtk_layer_output_destroy, of each of the layer outputs los: every panel of
\* theirs is removed and destroyed.
DestroyLayerOutputs(st, los) ==
    LET lost(p) == \E lo \in los : p \in Members(st.panels[lo])
    IN  [st EXCEPT !.panels = [lo \in LayerOutput |-> IF lo \in los THEN <<>> ELSE @[lo]],
                   !.panel = [p \in Panel |-> IF lost(p) THEN NULL ELSE @[p]]]

\* Mutant: the panels stay where they were.
TrackExtents(st, boxes) ==
    [DestroyLayerOutputs(st, OnOutputs(Output \ DOMAIN boxes)) EXCEPT
         !.extents = [o \in Output |-> IF o \in DOMAIN boxes THEN boxes[o] ELSE NULL]]

\* The output trackers of all layers handle a change of the layout, in which the
\* outputs have the boxes given: panels of outputs that are gone are destroyed,
\* and those of outputs with other extents are placed anew.
TrackOutputs(st, boxes) ==
    Reconfigure([DestroyLayerOutputs(st, OnOutputs(Output \ DOMAIN boxes)) EXCEPT
                     !.extents = [o \in Output |-> IF o \in DOMAIN boxes
                                                   THEN boxes[o] ELSE NULL]],
                {lo \in LayerOutput : /\ lo.output \in DOMAIN boxes
                                      /\ boxes[lo.output] # st.extents[lo.output]})
=============================================================================
