CONSTANTS
    Ledgers = {l1, l2}
    MaxRetries = 2
    Passes = {p1, p2}
    AttemptCap = 2
SPECIFICATION Spec
SYMMETRY Symmetric
INVARIANTS
    TypeOK
    NothingForgotten
PROPERTY AttemptsSurvive
