SPECIFICATION Spec
CONSTANTS
    alice = alice
    bob = bob
    gov = gov
    None = None
    Contracts <- ThreeContracts
    Sessions <- ThreeSessions
    PruneAfter = 1
    MaxTxs = 2
    MaxOps = 3
    LastHeight = 2
    Addresses <- MCAddresses
    Blocked <- MCBlocked
    Admin <- ThreeAdmins
    InitialMetadata <- ThreeMetadata
    InitialFunds <- MCFunds
    ParamSets <- SwitchedParams
    MintAmounts = {1, 8}
    BlockGasLimit = 6
    Txs <- MixedTxs
    MetaUpdates <- ThreeUpdates
    FlatFeeAmounts = {0, 2}
    Precision = 5
INVARIANTS
    TypeOK
    RecordsBacked
    SharesBounded
    HaltsOnlyIfShort
    RecordIndexAgrees
    FlatFeeHasRecipient
    PrunedTogether
PROPERTIES
    PaidWhenRemoved
