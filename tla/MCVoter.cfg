SPECIFICATION Spec
CONSTANTS
    A = A
    B = B
    owner = owner
    yea = yea
    nay = nay
    Chains <- MCChains
    Addrs <- MCAddrs
    Owner = owner
    OptionSets <- MCOptionSets
    Ballots <- MCBallots
    Durations = {1}
    Costs <- MCCosts
    Funds = {0, 1}
    IBCSendTimeout = 1
    TimeModulus = 4
    Rewards = {1}
    MaxVotings <- MCMaxVotings
    MaxPackets <- MCMaxPackets
    MaxWithdrawals <- MCMaxWithdrawals
    MaxTime <- MCMaxTime
INVARIANTS
    OneVote
    AckedIsCounted
    StatusIsTrue
    OpenForDuration
    RepliesDispatched
PROPERTY
    VotingsKept
