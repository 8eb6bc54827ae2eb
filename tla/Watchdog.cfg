CONSTANTS
    p1 = p1
    p2 = p2
    Pid <- MCPid
    OldPID = OldPID
    RestartGrace = 2
    StartRetry = 1
    StableFor = 3
    Deadline = 8
    StopWait = 1
    MaxCrashes = 2
    MaxBinErrors = 2
    MaxStatusErrors = 1
    MaxDeaths = 3
SPECIFICATION WatchSpec
SYMMETRY PidSymmetry
INVARIANTS
    GoodReleaseStays
    DownIsBounded
    RestoredUnlessStuck
PROPERTIES
    HealthyMeansUp
CHECK_DEADLOCK FALSE
