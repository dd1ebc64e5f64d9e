SPECIFICATION Spec
CONSTANTS
    k1 = k1
    k2 = k2
    Window = {w1, w2}
    Workspace = {k1, k2}
    LockElement = {lock1}
    Edge = {top}
    Curtain = curtain
    NULL = null
    InitialWorkspaces <- TwoWorkspaces
SYMMETRY Symmetry
CHECK_DEADLOCK FALSE
INVARIANT UnmappedWindowIsInItsContainer
