SPECIFICATION FairSpec
CONSTANTS
    c1 = c1
    c2 = c2
    Callers = {c1, c2}
    MaxSockets = 3
    MaxRequests = 3
    Operations = {"connect", "request", "close", "reconnect"}
    None = None
CHECK_DEADLOCK FALSE
INVARIANTS
    TypeOK
    PendingCanSettle
    ConnectedMeansOpen
PROPERTIES
    NoCrossTalk
    CallsSettle
