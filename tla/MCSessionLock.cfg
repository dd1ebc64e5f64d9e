SPECIFICATION FairSpec
CONSTANTS
    o1 = o1
    SessionLocks = {l1, l2}
    Output = {o1, o2}
    InitialLayout <- OneOutput
    NULL = null
CHECK_DEADLOCK FALSE
INVARIANTS
    OutputsFollowLayout
    OnlyHolderIsToldLocked
PROPERTIES
    LockedOnlyWhenCovered
    ImplementsDesktopLock
    LoneLockIsGranted
