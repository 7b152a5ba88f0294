CONSTANTS
    Word = 1073741824
    MinBw = 10000
    NumEnvs = 1
    Requests <- Nonblock
    Agents <- Names
SPECIFICATION Spec
INVARIANTS
    ListedPatternRuns
CHECK_DEADLOCK FALSE
