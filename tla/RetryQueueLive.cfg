CONSTANTS
    Ledgers = {l1, l2}
    MaxRetries = 2
    Passes = {p1}
    AttemptCap = 2
SPECIFICATION Spec
PROPERTY EveryLedgerRetried
