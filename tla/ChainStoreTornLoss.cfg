SPECIFICATION StoreSpec
CONSTANTS
    t1 = t1
    t2 = t2
    TxHash <- MCTxHash
    Address = {founder}
    Founder = founder
    Batch <- MCBatch
    Reads = {TRUE}
    Writes = {"line"}
    CrashWrites = {"none", "part"}
    MaxBlocks = 4
    MaxBoots = 3
INVARIANTS
    AckedIsStored
CHECK_DEADLOCK FALSE
