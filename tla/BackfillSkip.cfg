CONSTANTS
    Start = 1
    End = 2
    Concurrencies = {2}
    BatchSize = 2
    MaxRuns = 2
SPECIFICATION Spec
INVARIANT SkipsOnlyIndexed
