CONSTANTS
    PacketEvents = 11
    QueueEvents = 64
    MaxPackets = 9
    MaxLosses = 2
SPECIFICATION Spec
CHECK_DEADLOCK FALSE
INVARIANTS
    TypeOK
    NothingHeldBack
    BlocksOnlyAfterLoss
PROPERTIES
    InStep
    PacketReported
