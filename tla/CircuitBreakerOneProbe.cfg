CONSTANTS
    Callers = {c1, c2}
    FailureThreshold = 2
    SuccessThreshold = 2
    MaxAttempts = 2
    CountCap = 3
SPECIFICATION Spec
INVARIANT OneProbe
