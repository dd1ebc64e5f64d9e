SPECIFICATION MCSpec
CONSTANTS
    Widths = {2}
    OutputWidth = 6
    MaximizedWidth = 5
    Border = 1
    CascadeStep = 1
    Motions <- MCMotions
    MaxQueue = 2
    MaxRequests = 3
    MaxResizes = 2
    MaxMade = 4
PROPERTIES
    AnchoredEdgeStays
    WindowFollowsRequests
CHECK_DEADLOCK FALSE
