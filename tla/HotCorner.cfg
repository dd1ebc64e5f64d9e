SPECIFICATION FairSpec
CONSTANTS
    Inhibitor = {i1, i2}
    NULL = null
    InhibitingCorner = "top-right"
CHECK_DEADLOCK FALSE
INVARIANTS
    InhibitsAreCounted
    IdleTimerIsNeverLost
PROPERTIES
    LocksOnlyWhenIdle
    IdleSessionIsLocked
