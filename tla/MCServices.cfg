SPECIFICATION Spec
CONSTANTS
    BqThreads = {a, b, c}
    BqSize = 3
    Timeouts <- BqTimeouts
    INT_MAX = 31
    UsecPerMs = 4
    MaxBqPush = 2
    MaxBqPop = 1
    MAX_EVID = 2
    EvdQue = 2
    Handlers = {h, i}
    MaxEvd = 2
    LogCallers = {a, b}
    LogQue = 2
    LogWord = 8
    MaxLog = 3
    Fd = {3, 4, 5, 6}
    ListenFd = 3
    EventSize = 5
    reuse_addr = TRUE
    MaxSend = 1
    Socks = {1, 2, 3}
    MaxMsg = 1
INVARIANTS
    EvdInOrder
    LogInOrder
    ServerSound
    ClientSound
PROPERTIES
    BqDelivered
    ServerServed
    ClientStopReturns
CHECK_DEADLOCK FALSE
