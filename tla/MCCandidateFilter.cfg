CONSTANTS
    PROC_MAX = 2
    Pids <- MCPids
    Comms = {srv, sh}
    ProtectedComms = {srv}
    RingMax = 2
    MaxThreads = 1
    WorkerPids = {4}
    MovesMayFail = TRUE
    MaxEvents = 3
    daemon_pid = 9
SPECIFICATION FilterFairSpec
INVARIANTS DaemonInv CaughtUpIsExact FilterSparesProtected
PROPERTY ProtectedIsPlaced
