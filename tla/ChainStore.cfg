SPECIFICATION StoreSpec
CONSTANTS
    t1 = t1
    t2 = t2
    TxHash <- MCTxHash
    Address = {founder}
    Founder = founder
    Batch <- MCBatch
    Reads = {TRUE, FALSE}
    Writes = {"none", "part", "text", "line"}
    CrashWrites = {"none", "part", "text", "line"}
    MaxBlocks = 3
    MaxBoots = 3
INVARIANTS
    NothingAckedIsLost
    ChainIsValid
    GapsAreDetected
PROPERTY StoreIsDurableLog
CHECK_DEADLOCK FALSE
