CONSTANTS
    Top = 4
    Polls = {p1, p2}
    Limit = 2
SPECIFICATION Spec
CHECK_DEADLOCK FALSE
INVARIANTS
    TypeOK
    NothingPassedOver
    TwiceOnlyByOverlap
PROPERTY EveryLedgerPublished
