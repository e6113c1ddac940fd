\* Two accounts, two changes of the user, one end of the stream; no symmetry, for the liveness.
SPECIFICATION FairSpec
CONSTANTS
    alice = alice
    bob = bob
    NoUser = NoUser
    Users <- MCUsers
    MaxSwaps = 2
    MaxStops = 1
INVARIANTS
    StreamHasOwnersToken
    EngineFollowsAuth
    HandoffInStep
PROPERTIES
    WaitingWriteGetsStream
CHECK_DEADLOCK FALSE
