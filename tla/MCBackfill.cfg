CONSTANTS
    Start = 1
    End = 3
    Concurrencies = {0, 2}
    BatchSize = 2
    MaxRuns = 2
SPECIFICATION Spec
INVARIANTS
    TypeOK
    CleanCheckpoint
    TallyWithinPosition
    NoLedgerTwice
    OnlyAbortLeavesHoles
PROPERTIES
    RunTerminates
    ResumedRunNeverRewinds
    RefinesJob
