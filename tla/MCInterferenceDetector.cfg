CONSTANTS
    Pids = {1, 2, 3, 4}
    Listed <- MCListed
    Regions <- MCRegions
    PageEntries <- MCPageEntries
    class_of <- MCClassOf
    MAX_PFN = 3
    BANK_PROFILE_MAX_ENTRIES = 2
    max_pages_to_sample = 2
    sample_stride_pages = 2
    MaxRegions = 2
    MaxFiles = 10
    SCALE = 10
    active_cpu_ratio_threshold = 1
    active_faults_per_sec_threshold = 1
    min_rss_pages = 2
    prefilter_min_rss_pages = 1
    major_fault_weight = 2
    cpu_ratio_full_scale = 2
    faults_per_sec_full_scale = 3
    rss_full_scale = 4
    Changes <- MCChanges
    Limits <- MCLimits
    activity_score_threshold = 1
    overlap_score_threshold = 30
    throttle_score_threshold = 20
    MaxRuns = 2
    Mortal = {2, 3}
    MaxExits = 1
    MaxFaults = 1
SPECIFICATION Spec
INVARIANTS DetectorInv HistogramsInv
    ScoreIsOfOneProcess TrackedWhileAlive PrefilterKeepsActive PrefilterSelectsBest
CHECK_DEADLOCK FALSE
