SPECIFICATION Spec
CONSTANTS
    Partitions <- MCPartitions
    Kind <- MCKind
    NS <- MCNS
    SubNS = "none"
    Subscriptions <- MCSubscriptions
    MaxEvents <- MCMaxEvents
    MaxChanges = 1
INVARIANTS
    TypeOK
    WatchedNamespaces
PROPERTIES
    IsStoreWatch
    EndsTogether
    NothingLeaks
    AccessChangeEnds
