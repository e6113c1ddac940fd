CONSTANTS
    MaxWrites = 3
    MaxReads = 3
SPECIFICATION FairSpec
INVARIANTS
    OperationsInStep
    EndsClean
PROPERTIES
    PromiseSpec
    WorkerComesBack
    DeadCallIsNoticed
CHECK_DEADLOCK FALSE
