SPECIFICATION MiningSpec
CONSTANTS
    v1 = v1
    v2 = v2
    v3 = v3
    h1 = h1
    TxHash = {}
    Address = {v1, v2, v3}
    Validator <- MCValidator
    Api = {h1}
    BlockFees = {1999}
    InitialBlockReward = 400
    BlocksPerHalving = 2
    MaxHalvings = 2
    MaxMineable = 950
    MaxSupply = 1000
    MaxHeight = 6
    MaxBoots = 2
INVARIANTS
    MinedWithinPool
    ScheduleIsKept
    EarningsAddUp
    LeadsByPower
