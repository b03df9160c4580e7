SPECIFICATION LedgerSpec
CONSTANTS
    a = a
    b = b
    c = c
    NoCall = NoCall
    TxHash = {}
    Address = {a, b, c}
    GenesisAmount <- MCGenesisAmount
    Probe = b
    Short = {}
    Half = 500
    Reads = {TRUE}
    Saves = {"whole"}
    CrashSaves = {}
    MinStake = 2
    Rate <- MCRate
    RateUnit = 6
    Fine = 1000
    MinDeposit = 2
    VotingPeriod = 1
    QuorumSupply = 6
    Exact = 900
    MoreThanHalf <- MCMoreThanHalf
    Amounts = {1, 2}
    Fees = {1}
    Stakes = {2}
    Deposits = {2}
    MaxTxs = 1
    MaxPositions = 1
    MaxProposals = 0
    MaxVotes = 0
    MaxClock = 0
    MaxBoots = 1
INVARIANT NoOverdraft
CHECK_DEADLOCK FALSE
