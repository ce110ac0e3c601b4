SPECIFICATION PackageSpec
CONSTANTS
    Keys = {k1}
    Trackers = {"t1", "t2"}
    Callers = {"c1", "c2", "c3"}
    TrackerOf <- MCTrackerOf
    Checksums = {a}
    Absent = absent
    Strategies = {"SKIP", "MERGE"}
    WarmCacheSize = 1
    LastLedger = 2
    Settled = 1
    BatchSize = 1
    MaxReconnects = 1
    Requests <- MCRequests
    MaxBoots = 2
    TxCount = 9
    OpCount = 1
    LastRow = 5
    MaxFiled = 2
    HorizonSeq = 6
    TxPerLedger = 1
    RecordCount = 2
    Processes = {"p1", "p2"}
    Major <- MCMajor
    Consumers = {"w1", "w2", "w3"}
    MaxRequests = 2
    WindowMs = 3
INVARIANTS
    TypesOK
    WorkRunsOnce
    StaleOnlyByOverlap
    FailedIsQueued
    LossExplained
    HolesFound
    EveryGapTried
    SchemaFits
    SlidingBudget
CHECK_DEADLOCK FALSE
