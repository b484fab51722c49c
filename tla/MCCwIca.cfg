SPECIFICATION IcaFairSpec
CONSTANTS
    c1 = c1
    k1 = k1
    Contracts <- MCContracts
    Accounts <- MCContracts
    Authority <- MCAuthority
    ParamSets <- MCParamSets
    InitialFunds <- MCInitialFunds
    Connections <- MCConnections
    MaxErrors = 2
    MaxHeight = 2
    LastHeight = 3
    MaxMessageSets = {1}
    MsgCounts = {1, 2}
    Timeouts = {1}
    MaxChannels = 2
    MaxRequests = 2
    MaxRemoteTime = 2
INVARIANTS
    IcaTypeOK
    EveryFailureReported
PROPERTIES
    ImplementsRequests
    EventuallyTold
