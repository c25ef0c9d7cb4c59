SPECIFICATION Spec
CONSTANTS
    Types <- MCTypes
    Denied <- MCDenied
    Templated = {"a"}
    AccessIDs = {"full", "part"}
    Allows <- MCAllows
    Requests = {"r1", "r2"}
    Notifiers = {}
    MaxChanges = 2
    MaxFailures = 1
    MaxGrants = 0
CHECK_DEADLOCK FALSE
INVARIANTS TypeOK TemplatesFollow PreferredServed CacheFresh
PROPERTIES RefreshFollows
