CONSTANTS
    Docs = {a, b}
    MaxLimbo = 2
    MaxNow = 2
    Faults <- RestartInMismatch
SPECIFICATION Spec
INVARIANTS
    ResumedIsComplete
CHECK_DEADLOCK FALSE
