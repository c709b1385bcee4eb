CONSTANTS
    SWIPE_MAX_DURATION_FRAMES = 45
    TAP_MAX_DURATION_FRAMES = 23
    XSpeeds = {0, 30, 60}
    YSpeeds = {1, 70}
    XStarts = {150, 290}
    YStarts = {200, 600}
    Spans = {1, 4, 15}
    MaxTurns = 2
    Xmax = 354
    Ymax = 1000
SPECIFICATION Spec
CHECK_DEADLOCK FALSE
INVARIANTS
    Decided
    StillContact
    NotAgainstTheFinger
    TapPeakIsOpposite
