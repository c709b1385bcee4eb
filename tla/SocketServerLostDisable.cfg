CONSTANTS
    Commands = {"GETMODE"}
    SetValues = {0, 2}
    MaxConns = 2
    MaxOutstanding = 1
    MaxNotify = 1
SPECIFICATION Spec
CHECK_DEADLOCK FALSE
PROPERTY NoSwitchWhileDisabled
