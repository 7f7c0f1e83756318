SPECIFICATION Spec
CONSTANTS
    c1 = c1
    c2 = c2
    root = root
    seed2 = seed2
    p = p
    seed2p = seed2p
    Callers = {c1, c2}
    Default = root
    Texts = {seed2, p}
    Names = {seed2}
    Composed <- Strings
    Paths = {p}
    Derivable = {root, seed2}
    FromSeed = TRUE
    MaxDerived = 2
    Failed = Failed
    None = None
    Given <- OneDescriptor
CHECK_DEADLOCK FALSE
INVARIANTS
    DisposedHoldsNoKey
