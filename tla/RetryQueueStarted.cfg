CONSTANTS
    Ledgers = {l1, l2}
    MaxRetries = 2
    Passes = {p1}
    AttemptCap = 3
SPECIFICATION Spec
INVARIANT StartedMeansScheduled
