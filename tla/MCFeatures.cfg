CONSTANTS
    TRIGGER_WINDOW_SIZE = 4
    MaxStep = 2
    MaxFrames = 7
    slopeCoTrend = 10
    MaxCounted = 9
SPECIFICATION FeatureSpec
CHECK_DEADLOCK FALSE
INVARIANTS
    LongestRun
    FastestWindow
    CountsPartition
    SlotsInOrder
