CONSTANTS
    Pids = {p1, p2}
    Configs <- SeveralConfigs
    Scores = {1, 2}
    NSEC_PER_MSEC = 2
    UINT64_MAX = 9
    AgeCap = 2
    FaultsAllowed = TRUE
SPECIFICATION Spec
SYMMETRY PidSymmetry
INVARIANTS MovesAreRecorded RollbackComplete QuotaBeforeThrottle
PROPERTIES MinDurationKept CooldownKept
