\* Three messages, four commits, two breaks or changes, a pipeline of two; no symmetry,
\* for the liveness.
SPECIFICATION FairSpec
CONSTANTS
    alice = alice
    bob = bob
    NoUser = NoUser
    Elsewhere = Elsewhere
    Users <- MCUsers
    MaxPendingWrites = 2
    MaxMsgs = 3
    MaxCommits = 4
    MaxRestarts = 2
INVARIANTS
    PipelineInStep
    CommittedUnderOwner
    CacheInStep
    NoMessageLost
    FirstCommitsInOrder
PROPERTIES
    CacheNeverGoesBack
    VanishesOnlyIfRefused
    BoardSpec
    QueuedMessageSettles
CHECK_DEADLOCK FALSE
