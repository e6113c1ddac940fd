\* Two or three sign-ins (one may be the saved session) from two forms, one restart.
SPECIFICATION FairSpec
CONSTANTS
    MaxRequests = 3
    MaxForms = 2
    MaxRestarts = 1
INVARIANTS
    ChatsAreCurrent
    SavedIsCurrent
    SenderOwnsMessage
PROPERTIES
    FormIsAnswered
CHECK_DEADLOCK FALSE
