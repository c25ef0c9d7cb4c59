SPECIFICATION Spec
CONSTANTS
    N = 3
    MaxSize = 3
    Limits = {2, 3}
    Chunk = 2
    Concurrency = 3
    MaxFailures = 1
    MaxCancels = 1
INVARIANTS
    TypeOK
    TurnExclusive
    PageWithinLimit
    PrefixDelivered
    TokenExact
    CompleteUnlessFull
PROPERTY PageCloses
