SPECIFICATION Spec
CONSTANTS
    c1 = c1
    c2 = c2
    root = root
    seed2 = seed2
    p = p
    seed2p = seed2p
    Callers = {c1}
    Default = root
    Texts = {seed2, seed2p, p}
    Names = {seed2, seed2p}
    Composed <- Strings
    Paths = {p}
    Derivable = {root, seed2}
    FromSeed = TRUE
    MaxDerived = 2
    Failed = Failed
    None = None
    Given <- MixedClients
CHECK_DEADLOCK FALSE
INVARIANTS
    TypeOK
    ForeignSignersKept
    DisposedHoldsNoKey
    DerivedOnce
    
PROPERTIES
    ReturnsWhatWasAsked
    OnlyOwnersClose
