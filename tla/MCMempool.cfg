SPECIFICATION Spec
CONSTANTS
    c1 = c1
    c2 = c2
    Callers = {c1, c2}
    MaxAttempts = 4
    MaxRetry = 2
    None = None
SYMMETRY CallerSymmetry
CHECK_DEADLOCK FALSE
INVARIANTS
    TypeOK
    HandshakesShared
    ConnectedMeansSession
    ClosedStaysDown
PROPERTIES
    NoWaitOnClosed
