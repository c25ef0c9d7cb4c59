SPECIFICATION Spec
CONSTANTS
    Types <- MCWatchTypes
    Denied = {}
    Templated = {"a"}
    AccessIDs = {"full", "part"}
    Allows <- MCAllows
    Requests = {}
    Notifiers = {"onSchema", "onUser"}
    MaxChanges = 2
    MaxFailures = 0
    MaxGrants = 1
CHECK_DEADLOCK FALSE
PROPERTIES WatchFollows
