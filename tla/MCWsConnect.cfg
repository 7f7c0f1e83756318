SPECIFICATION Spec
CONSTANTS
    c1 = c1
    c2 = c2
    Callers = {c1, c2}
    MaxSockets = 2
    MaxRequests = 1
    Operations = {"connect", "request"}
    None = None
CHECK_DEADLOCK FALSE
PROPERTIES
    ConnectEstablishes
