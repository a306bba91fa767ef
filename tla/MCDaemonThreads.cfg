CONSTANTS
    PROC_MAX = 2
    Pids <- MCTwoPids
    Comms = {srv, sh}
    ProtectedComms = {srv}
    RingMax = 2
    MaxThreads = 1
    WorkerPids = {}
    MovesMayFail = FALSE
    MaxEvents = 5
SPECIFICATION DaemonSpec
CHECK_DEADLOCK FALSE
PROPERTY ExecKeepsProtection
