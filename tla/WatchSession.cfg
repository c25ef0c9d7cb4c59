\* One key, subscribed to twice, whose store may be without a watch; a stream
\* of such a store stops a session for good, hence no deadlock check.
SPECIFICATION Spec
CONSTANTS
    Keys = {k1}
    NilKeys = {k1}
    MaxSubs = 2
    Cap = 1
INVARIANTS
    TypeOK
    NoSendOnClosed
    NoOrphan
    RegisteredAlive
    StopsBalance
PROPERTIES
    SessionEnds
    HandlerReturns
CHECK_DEADLOCK FALSE
