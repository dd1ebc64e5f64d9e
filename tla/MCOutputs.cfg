SPECIFICATION Spec
CONSTANTS
    o1 = o1
    o2 = o2
    Output = {o1, o2}
    dock = dock
    Panel = {p1, dock}
    Dock <- MCDock
    Preferred <- MCPreferred
    Edge <- MCEdge
    Anchor <- MCAnchor
    Tiles <- MCTiles
    TopLayer = top
    Workspace = {k1, k2}
    Layer = {top}
    Mode <- MCMode
    Scale = {1, 2}
    OutputHead <- MCOutputHead
    Configured <- MCConfigured
    Positioning <- MCPositioning
    InitialWorkspaces <- MCWorkspaces
    NULL = null
SYMMETRY Symmetry
INVARIANTS
    ConfigFollowsOutput
    PanelsAgree
    PanelsArePlaced
    DocksAreShown
PROPERTIES
    PanelsOutliveChanges
