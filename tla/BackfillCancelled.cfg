CONSTANTS
    Start = 1
    End = 3
    Concurrencies = {2}
    BatchSize = 2
    MaxRuns = 1
SPECIFICATION Spec
PROPERTY CancelledStaysCancelled
