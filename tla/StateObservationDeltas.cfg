CONSTANTS
    MaxDrops = 1
    MaxBacklog = 1
    Half = 2
SPECIFICATION Spec
PROPERTIES
    DeltasBetweenSteps
CHECK_DEADLOCK FALSE
