CONSTANTS
    TOUCH_MIN_DURATION_FRAMES = 3
    TAP_MAX_DURATION_FRAMES = 23
    SWIPE_MAX_DURATION_FRAMES = 45
    LOOKAHEAD_BUFFER_SIZE = 5
    MaxContacts = 2
    MaxSamples = 54
SPECIFICATION Spec
INVARIANTS
    TypeOK
    HistoryIsTheContact
    LiftFindsEnoughHistory
    LookAheadIsDelayLine
    VerdictMatchesLength
PROPERTY
    MovementIsContinuous
