CONSTANTS
    Start = 1
    End = 2
    Concurrencies = {2}
    BatchSize = 2
    MaxRuns = 3
SPECIFICATION Spec
INVARIANT CompletedMeansStored
