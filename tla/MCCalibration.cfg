CONSTANTS
    Bits = {0, 1}
    MAX_MASKS = 2
    ID_MAX = 3
    Files <- MCFiles
    MaxRuns = 2
    timeout = 1
    TERM_GRACE = 1
    CrashAllowed = TRUE
    ClockMayFail = TRUE
SPECIFICATION MCFairSpec
INVARIANTS ChecksInv FailClosed SameIffEqual
    WorkerInv ForeignFileIsOrphans AttachedIsCalibrated
PROPERTIES CalibrationEnds GroupIsTerminated
CHECK_DEADLOCK FALSE
