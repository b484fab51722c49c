SPECIFICATION Spec
CONSTANTS
    alice = alice
    bob = bob
    gov = gov
    None = None
    Contracts <- MCContracts
    Sessions <- MCSessions
    PruneAfter = 1
    MaxTxs = 3
    MaxOps = 3
    LastHeight = 2
    Addresses <- MCAddresses
    Blocked <- MCBlocked
    Admin <- MCAdmin
    InitialMetadata <- MCInitialMetadata
    InitialFunds <- MCFunds
    ParamSets <- MCParams
    MintAmounts = {8}
    BlockGasLimit = 4
    Txs <- WrappedTxs
    MetaUpdates <- MCUpdates
    FlatFeeAmounts = {0, 2}
    Precision = 10
INVARIANT
    RecordsSupported
