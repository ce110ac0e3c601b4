CONSTANTS
    Callers = {c1, c2, c3}
    FailureThreshold = 2
    SuccessThreshold = 2
    MaxAttempts = 2
    CountCap = 3
SPECIFICATION Spec
INVARIANTS
    TypeOK
    NeverStuckOpen
PROPERTIES
    Recovers
    OpensOnStreak
    ClosesOnSuccesses
