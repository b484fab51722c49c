SPECIFICATION FairSpec
CONSTANTS
    c1 = c1
    c2 = c2
    admin = admin
    Contracts <- MCContracts
    Accounts <- MCAccounts
    Authority <- MCAuthority
    ParamSets <- MCParamSets
    InitialFunds <- MCInitialFunds
    MaxErrors = 2
    MaxHeight = 3
    LastHeight = 5
INVARIANTS
    IndexesAgree
    SubscriptionsAgree
    OneFate
    KeptAsAnnounced
PROPERTIES
    PaidPeriodKept
    EventuallyPruned
    EventuallyReported
