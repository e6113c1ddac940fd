\* Two accounts, two screens, two messages, three failures or changes; no symmetry, for the liveness.
SPECIFICATION FairViewSpec
CONSTANTS
    alice = alice
    bob = bob
    chat1 = chat1
    chat2 = chat2
    NoUser = NoUser
    Users <- MCUsers
    Screens <- MCScreens
    MaxMsgs = 2
    MaxFailures = 3
INVARIANTS
    TrackerInStep
    ShownIsScreen
    WaitingIsJustified
PROPERTIES
    WaitingScreenIsDrawn
CHECK_DEADLOCK FALSE
