CONSTANTS
    SM_MAX_GESTURES = 4
    SWITCH_WINDOW = 1
    DOUBLE_TAP_WINDOW = 2
    GestureTypes = {"TAP", "DOWN", "POINTER"}
    ReplayFrames = 2
    MaxClock = 2
SPECIFICATION Spec
INVARIANTS
    TypeOK
    WaitingClickIsDoubleTap
PROPERTIES
    RefinesModeSwitch
    WaitingClickResolved
