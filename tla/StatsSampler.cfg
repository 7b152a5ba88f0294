CONSTANTS
    MaxSteps = 2
    MaxSamples = 3
    Interrupts = TRUE
SPECIFICATION Spec
INVARIANTS
    TypeOK
    SamplesAligned
    ListsWhole
    LateFlushSaves
PROPERTIES
    SamplerStops
CHECK_DEADLOCK FALSE
