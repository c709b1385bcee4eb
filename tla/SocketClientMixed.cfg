CONSTANTS
    Callers = {"c1", "c2"}
    SetModes = {2}
    Retries = 0
    MaxReceivers = 1
    MaxCalls = 2
    MaxNotify = 0
    FaultSets = {}
SPECIFICATION Spec
CHECK_DEADLOCK FALSE
INVARIANT AnswerIsMine
