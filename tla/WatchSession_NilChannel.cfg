\* A store without a watch (pkg/stores/empty).
SPECIFICATION Spec
CONSTANTS
    Keys = {k1}
    NilKeys = {k1}
    MaxSubs = 1
    Cap = 1
PROPERTY EventsFullyConsumed
CHECK_DEADLOCK FALSE
