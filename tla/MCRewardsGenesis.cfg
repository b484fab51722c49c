SPECIFICATION GenesisSpec
CONSTANTS
    alice = alice
    bob = bob
    gov = gov
    None = None
    Contracts <- MCContracts
    Sessions <- MCSessions
    PruneAfter = 1
    MaxTxs = 2
    MaxOps = 3
    LastHeight = 3
    Addresses <- MCAddresses
    Blocked <- MCBlocked
    Admin <- MCAdmin
    InitialMetadata <- ParamMetadata
    InitialFunds <- MCFunds
    ParamSets <- MCParams
    MintAmounts = {8}
    BlockGasLimit = 4
    Txs <- GenesisTxs
    MetaUpdates = {}
    FlatFeeAmounts = {}
    Precision = 10
INVARIANT
    RecordsSupported
