SPECIFICATION Spec
CONSTANTS
    k1 = k1
    k2 = k2
    Window = {w1, w2, w3}
    Workspace = {k1, k2}
    LockElement = {lock1, lock2}
    Edge = {top}
    Curtain = curtain
    NULL = null
    InitialWorkspaces <- TwoWorkspaces
CONSTRAINT Bounded
SYMMETRY Symmetry
CHECK_DEADLOCK FALSE
INVARIANTS
    ActivationAgrees
    DesktopStaysWhole
    CurtainAboveWorkspaces
    NoOtherFailure
    NoDanglingWindow
    FocusIsNotLost
    ContainersPartitionWindows
    TaskListFollowsStacking
    GrabIsBalanced
PROPERTIES
    ImplementsDesktopLock
