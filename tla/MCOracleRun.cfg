CONSTANTS
    Programs = {"overlap", "sweep", "selective", "multi", "cpumax"}
    Periods = {100, 5}
    throttle_quota_us = 50
    MaxFaults <- MCMaxFaults
SPECIFICATION Spec
INVARIANTS RunInv ResultsComplete NothingLeft StrayOnlyAfterDeath
PROPERTY Ends
