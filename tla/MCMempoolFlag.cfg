SPECIFICATION Spec
CONSTANTS
    c1 = c1
    c2 = c2
    Callers = {c1, c2}
    MaxAttempts = 1
    MaxRetry = 1
    None = None
CHECK_DEADLOCK FALSE
PROPERTIES
    ConnectEstablishes
