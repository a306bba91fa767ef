CONSTANTS
    Pids = {p1, p2}
    Configs <- OneConfig
    Scores = {1, 2}
    NSEC_PER_MSEC = 1
    UINT64_MAX = 9
    AgeCap = 2
    FaultsAllowed = FALSE
SPECIFICATION FairSpec
PROPERTIES StaleIsReleased
