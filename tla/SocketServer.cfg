CONSTANTS
    Commands = {"GETMODE"}
    SetValues = {0, 21}
    MaxConns = 2
    MaxOutstanding = 2
    MaxNotify = 1
SPECIFICATION Spec
CHECK_DEADLOCK FALSE
INVARIANTS
    TypeOK
    NotifyIsNotStale
    RepliesFollowRequests
PROPERTIES
    RequestAnswered
    SwitchIsTold
