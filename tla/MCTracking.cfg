SPECIFICATION Spec
CONSTANTS
    c1 = c1
    c2 = c2
    Contracts <- MCContracts
    Sessions <- MCSessions
    PruneAfter = 2
    MaxTxs = 3
    MaxOps = 4
    LastHeight = 4
INVARIANTS
    TypeOK
    IndexesAgree
    TotalGasIsSum
    OwnOpsReferToTx
    WindowOnly
PROPERTY
    KeptForWindow
