SPECIFICATION FairSpec
CONSTANTS
    c1 = c1
    c2 = c2
    a = a
    b = b
    d = d
    e = e
    s1 = s1
    s2 = s2
    Calls = {c1, c2}
    FirstCoins = {a, b, d}
    FirstValue <- SegwitValue
    Reported <- SegwitValue
    Requests <- SegwitRequests
    Excess = {0}
    MaxFee = 400
    NoMaxFee = NoMaxFee
    Legacy = FALSE
    Servers = {s1}
    None = None
    MIN_TX_FEE_SATS = 141
    MAX_UTXO_INPUTS = 2
    DustLimit = 294
    MAX_MONEY = 100000
    RemainderDust = 294
    OverheadVB = 11
    InputVB = 68
    OutputVB = 31
CHECK_DEADLOCK FALSE
INVARIANTS
    TypeOK
    NoDustOutputs
    CostWithinMaxFee
PROPERTIES
    ClearedNeverReselected
    KeepsPromise
    Settles
