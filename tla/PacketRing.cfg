CONSTANTS
    RdNum = 3
    MaxFrames = 7
SPECIFICATION Spec
INVARIANTS
    TypeOK
    RingOrdered
PROPERTIES
    TakesNextFrame
    IsReplyBuffer
    WaitsEnd
    InterruptsSurface
CHECK_DEADLOCK FALSE
