----------------------------- MODULE MCOutputs -----------------------------
\* Instances of the outputs with panels for TLC.
EXTENDS Outputs, TLC

CONSTANTS o1, o2, dock

\* One output is configured to be disabled and placed, the other is not.
MCConfigured ==
    (o1 :> [enabled |-> FALSE, scale |-> One, mode |-> NULL, position |-> 0])
        @@ (o2 :> NULL)

MCMode == {[width |-> 4, refresh |-> 59940], [width |-> 8, refresh |-> 60000]}

\* The second output is disabled, or either is enabled with the other mode and a
\* scale below 1.0.
MCOutputHead ==
    [output : {o2}, enabled : {FALSE}] \cup
    [output : Output, enabled : {TRUE}, scale : {1}, x : {0},
     mode : {[width |-> 4, refresh |-> 59940]}]

\* A panel with an exclusive zone, and a bar of the width that is left.
MCPositioning ==
    {[anchor |-> {"right"}, width |-> 2, zone |-> 1, edge |-> NULL,
      margin |-> [left |-> 0, right |-> 1]],
     [anchor |-> {"left", "right"}, width |-> 0, zone |-> 1, edge |-> "left",
      margin |-> [left |-> 0, right |-> 0]]}

\* A dock that prefers the second output, at the right edge, with two themes.
MCDock == <<dock>>
MCPreferred == dock :> {o2}
MCAny == dock :> Output
MCEdge == dock :> "right"
MCAnchor == dock :> "top"
MCTiles == {dock :> 1, dock :> 2}

\* Any list of the workspaces.
MCWorkspaces ==
    {list \in UNION {[1..n -> Workspace] : n \in 1..Cardinality(Workspace)} : Unique(list)}

Symmetry == Permutations(Workspace)
=============================================================================
