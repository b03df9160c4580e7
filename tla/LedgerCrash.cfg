SPECIFICATION LedgerFairSpec
CONSTANTS
    a = a
    b = b
    c = c
    NoCall = NoCall
    TxHash = {}
    Address = {a, b, c}
    GenesisAmount <- MCGenesisAmount
    Probe = b
    Short = {c}
    Half = 8
    Reads = {TRUE, FALSE}
    Saves = {"none", "torn", "whole"}
    CrashSaves = {"torn", "whole"}
    MinStake = 2
    Rate <- MCRate
    RateUnit = 6
    Fine = 1000
    MinDeposit = 2
    VotingPeriod = 1
    QuorumSupply = 6
    Exact = 12
    MoreThanHalf <- MCMoreThanHalf
    Amounts = {2}
    Fees = {1}
    Stakes = {2}
    Deposits = {2}
    MaxTxs = 2
    MaxPositions = 1
    MaxProposals = 1
    MaxVotes = 0
    MaxClock = 0
    MaxBoots = 2
INVARIANTS
    NoncesCountTransfers
    NoCoinsFromNothing
PROPERTIES
    TransfersAreDurable
    VotingEnds
