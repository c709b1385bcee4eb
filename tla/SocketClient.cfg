CONSTANTS
    Callers = {"c1", "c2"}
    SetModes = {2}
    Retries = 0
    MaxReceivers = 2
    MaxCalls = 2
    MaxNotify = 1
    FaultSets = {{"NOTIFY"}, {"CLOSE"}, {"NOTIFY", "CLOSE"}, {"SPURIOUS"}, {"CLOSE", "SPURIOUS"}, {"RECONNECT"}}
SPECIFICATION Spec
CHECK_DEADLOCK FALSE
INVARIANTS
    TypeOK
    AnswerWhenAlone
    OneReceiver
PROPERTIES
    CloseIsNoticed
    AloneCallReturns
