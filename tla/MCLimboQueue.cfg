CONSTANTS
    Docs = {a, b}
    MaxLimbo = 1
    MaxNow = 3
    Faults <- RestartInMismatch
SPECIFICATION Spec
INVARIANTS
    EnqueuedAreInLimbo
CHECK_DEADLOCK FALSE
