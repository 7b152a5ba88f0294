CONSTANTS
    NumHosts = 2
    MaxSteps = 1
    InboxCap = 2
    RingSize = 2
    WaitForHosts = FALSE
    HostsMayFail = TRUE
SPECIFICATION FairSpec
INVARIANTS
    TypeOK
    Pipeline
PROPERTIES
    NoRegress
    HandedOver
    KeepsPromise
    DeliversActions
    ControllerStops
CHECK_DEADLOCK FALSE
