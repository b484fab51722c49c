SPECIFICATION Spec
CONSTANTS
    c1 = c1
    c2 = c2
    admin = admin
    gov = gov
    Contracts <- MCContracts
    Accounts <- MCAccounts
    Blocked <- MCBlocked
    Authority <- MCAuthority
    Jobs = {1}
    ParamSets <- MCParamSets
    Prices = {1, 3}
    Scale = 2
    Surpluses = {1}
    InitialFunds <- MCInitialFunds
    MaxHeight = 3
INVARIANT NeverOverpays
