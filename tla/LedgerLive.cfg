SPECIFICATION LedgerSpec
CONSTANTS
    a = a
    b = b
    c = c
    NoCall = NoCall
    TxHash = {}
    Address = {a, b, c}
    GenesisAmount <- MCGenesisAmount
    Probe = b
    Short = {}
    Half = 8
    Reads = {TRUE}
    Saves = {"whole"}
    CrashSaves = {}
    MinStake = 2
    Rate <- MCRate
    RateUnit = 6
    Fine = 8
    MinDeposit = 2
    VotingPeriod = 1
    QuorumSupply = 6
    Exact = 12
    MoreThanHalf <- MCMoreThanHalf
    Amounts <- MCAmounts
    Fees = {1, 6}
    Stakes = {3}
    Deposits = {2}
    MaxTxs = 1
    MaxPositions = 1
    MaxProposals = 1
    MaxVotes = 2
    MaxClock = 1
    MaxBoots = 1
INVARIANTS
    LedgerTypeOK
    SupplyIsAccounted
    RewardsAreLinear
    OutcomeFollowsFromVotes
PROPERTY ClosedForGood
