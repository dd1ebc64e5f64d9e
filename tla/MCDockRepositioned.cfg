SPECIFICATION Spec
CONSTANTS
    o1 = o1
    o2 = o2
    Output = {o2}
    dock = dock
    Panel = {dock}
    Dock <- MCDock
    Preferred <- MCAny
    Edge <- MCEdge
    Anchor <- MCAnchor
    Tiles <- MCTiles
    TopLayer = top
    Workspace = {k1}
    Layer = {top}
    Mode <- MCMode
    Scale = {1, 2}
    OutputHead <- MCOutputHead
    Configured <- MCConfigured
    Positioning <- MCPositioning
    InitialWorkspaces <- MCWorkspaces
    NULL = null
INVARIANT DocksAreRepositioned
