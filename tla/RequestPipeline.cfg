SPECIFICATION Spec
CONSTANTS
    Clients = {"c1", "c2"}
    Requests <- MCRequests
    Namespaced = {"secret"}
    Keys <- MCKeys
    Native <- MCNative
    MaxRequests = 2
    MaxRevokes = 1
    MaxFaults = 1
INVARIANTS
    TypeOK
    AnsweredOnce
    StatusTruthful
PROPERTIES
    ChangesAsUser
    TokenChecked
    NoLostUpdate
    OnlyEditedChanges
