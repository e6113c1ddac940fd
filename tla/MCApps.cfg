\* One app at a time: three events on three documents, one malformed; three
\* transactions and launches; three lookups; eggs of one and three ticks, three
\* presses; three buttons and questions; two categories, three items, two failures.
SPECIFICATION FairSpec
CONSTANTS
    Docs = {1, 2, 3}
    Malformed = {2}
    MaxEvents = 3
    MaxPayments = 3
    MaxLaunches = 3
    MaxLookups = 3
    CookingTimes = {1, 3}
    MaxPresses = 3
    Buttons = {0, 1, 2}
    NumberOfQuestions = 3
    MaxTouches = 3
    Categories = {"c1", "c2"}
    Items = {"i1", "i2", "i3"}
    Matching = {"i1"}
    MaxFailures = 2
INVARIANTS
    ChatIsDrawn
    QuotesFollowPayments
    CarefulKeysAreSafe
    LastLookupIsShown
    EggOnTime
    QuizInStep
    TodoInStep
PROPERTIES
    TransactionsSettle
    EveryAppGoesOn
CHECK_DEADLOCK FALSE
