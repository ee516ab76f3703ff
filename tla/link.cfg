SPECIFICATION FairSpec
CONSTANTS
    Modes = {"plain", "avoid", "dynamic"}
    Sizes = {1, 2}
    Slots = {1, 2}
    PropDelays = {0, 3}
    Limits = {1, 3}
    MaxPackets = 4
    MaxCommands = 2
INVARIANT
    HandlerOnce
    LimitHolds
    ByteLimitHolds
    DeliveredInOrder
    TransitAsserted
    EachPacketOnce
PROPERTY
    QueueImplements
    Settles
CHECK_DEADLOCK FALSE
