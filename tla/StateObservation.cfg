CONSTANTS
    MaxDrops = 2
    MaxBacklog = 1
    Half = 2
SPECIFICATION Spec
INVARIANTS
    TypeOK
    DropsNeverShrink
    ReadsMoveForward
    NoGrowthReportedTwice
PROPERTIES
    CountsReachTheAgent
CHECK_DEADLOCK FALSE
