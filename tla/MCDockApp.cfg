SPECIFICATION Spec
CONSTANTS
    Sizes = {2, 3}
    InitialSize = 3
    Rates <- MCRates
    StackedValues <- MCStackedValues
    Scales <- MCScales
    PeakMin = 2
    PeakDecayDivisor = 2
    PeakDecayThreshold = 1
    HistoryMax = 3
    MaxFrames = 1
INVARIANTS
    BuffersReleasedOrHeld
    BarsShowSamples
    SamplesKeepTheirRates
PROPERTY
    LatestIsShown
CHECK_DEADLOCK FALSE
