CONSTANTS
    Docs = {a}
    MaxLimbo = 2
    MaxNow = 3
    Faults <- NoFaults
SPECIFICATION FairSpec
PROPERTIES
    OwnIsSentAgain
CHECK_DEADLOCK FALSE
