CONSTANTS
    Word = 1073741824
    MinBw = 10000
    NumEnvs = 3
    Requests <- Mixed
    Agents <- Names
SPECIFICATION Spec
INVARIANTS
    TypeOK
    LastAsAsked
    HostsInherited
    ParallelApart
    EcnNotLeftOn
    LinksObey
CHECK_DEADLOCK FALSE
