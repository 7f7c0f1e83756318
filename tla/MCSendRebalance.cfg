SPECIFICATION Spec
CONSTANTS
    c1 = c1
    c2 = c2
    a = a
    b = b
    d = d
    e = e
    s1 = s1
    s2 = s2
    Calls = {c1, c2}
    FirstCoins = {a, b, d, e}
    FirstValue <- RebalanceValue
    Reported <- RebalanceReported
    Requests <- RebalanceRequests
    Excess = {0, 32}
    MaxFee = 450
    NoMaxFee = NoMaxFee
    Legacy = TRUE
    Servers = {s1, s2}
    None = None
    MIN_TX_FEE_SATS = 141
    MAX_UTXO_INPUTS = 2
    DustLimit = 546
    MAX_MONEY = 100000
    RemainderDust = 546
    OverheadVB = 10
    InputVB = 148
    OutputVB = 34
SYMMETRY CallServerSymmetry
CHECK_DEADLOCK FALSE
INVARIANTS
    NoDustOutputs
    CostWithinDustOfFee
    CostWithinDustOfMaxFee
    TotalsAreReal
    MaxSpendableFeasible
