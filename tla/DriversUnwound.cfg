CONSTANTS
    NumEnvs = 1
    Clients = {h1}
    Episodes = 1
    UnwindAt = {"constructor"}
    Programs = {"basic"}
    Transports <- None
    RlAlgos <- None
    TcpAlgos <- None
    Lower <- LowerCase
    Runs = 0
    Polls = 1
SPECIFICATION Spec
INVARIANTS
    NothingLeftBehind
CHECK_DEADLOCK FALSE
