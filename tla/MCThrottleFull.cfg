CONSTANTS
    Pids = {p1, p2, p3}
    Configs <- OneSmallConfig
    Scores = {1, 2}
    NSEC_PER_MSEC = 1
    UINT64_MAX = 9
    AgeCap = 2
    FaultsAllowed = FALSE
SPECIFICATION FairSpec
PROPERTIES StaleIsReleased
