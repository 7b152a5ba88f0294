CONSTANTS
    MaxSteps = 1
    MaxSamples = 1
    Interrupts = FALSE
SPECIFICATION Spec
PROPERTIES
    SavedStatisticsStay
CHECK_DEADLOCK FALSE
