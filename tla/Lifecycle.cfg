CONSTANTS
    Fds = {3, 4, 5, 6, 7, 8}
    MaxClients = 2
    MaxSignals = 1
SPECIFICATION Spec
CHECK_DEADLOCK FALSE
INVARIANTS
    TypeOK
    ClosesWhatItTested
    CleanEnd
    LittleLateWork
PROPERTY EndsWhenServed
