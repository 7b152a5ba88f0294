CONSTANTS
    NumEnvs = 2
    Clients = {h1, h2}
    Episodes = 2
    UnwindAt = {"idle", "managers", "generators", "episode"}
    Programs = {"benchmark", "basic"}
    Transports <- Udp
    RlAlgos <- Rnd
    TcpAlgos <- Dctcp
    Lower <- LowerCase
    Runs = 1
    Polls = 1
SPECIFICATION Spec
INVARIANTS
    TypeOK
    NoOrphans
    NothingLeftBehind
    OneEpisodeAtATime
    NetworksApart
    PlotFindsTests
PROPERTIES
    NetworkStays
    ProgramEnds
CHECK_DEADLOCK FALSE
