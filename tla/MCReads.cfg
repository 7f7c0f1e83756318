SPECIFICATION Spec
CONSTANTS
    deposit = deposit
    payment = payment
    payment2 = payment2
    shared = shared
    elsewhere = elsewhere
    Txs <- MCTxs
    Elsewhere = elsewhere
    Ins <- MCIns
    Outs <- MCOuts
    Options <- MCOptions
    PageSize = 2
    BatchSize = 2
    Final = 2
    MaxTip = 2
    None = None
CHECK_DEADLOCK FALSE
INVARIANTS
    TypeOK
    BalanceIsSettled
    TransfersComplete
    ReceiptSound
PROPERTIES
    OnlySpendingLowers
