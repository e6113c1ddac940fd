CONSTANTS
    Docs = {a, b}
    MaxLimbo = 2
    MaxNow = 3
    Faults <- SurvivedFaults
SPECIFICATION BusySpec
INVARIANTS
    AggregatorInStep
    SyncedIsTheSnapshot
    ResolutionsMatchLimbo
    ResumedIsComplete
PROPERTIES
    EventuallyAgrees
CHECK_DEADLOCK FALSE
