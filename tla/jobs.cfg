SPECIFICATION FairSpec
CONSTANTS
    Types = {"timeout"}
    Hour = 2
    Quarter = 1
    Period <- MCPeriod
    Delay <- MCDelay
    Stale = 1
    MaxAttempts = 3
    MaxBatch = 1
    Workers = {w1, w2}
    NoJob = NoJob
    Horizon = 4
    MaxErrors = 1
    MaxCrashes = 1
INVARIANTS OneRunner ExecutedOnce
PROPERTIES DueIsTaken RunningEnds
CHECK_DEADLOCK FALSE
