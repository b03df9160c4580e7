SPECIFICATION BFTSpec
CONSTANTS
    node = node
    v2 = v2
    Half = 8
    TxHash = {t1, t2}
    Address = {node, v2}
    Founder = node
    NodeAddr = node
    Validators <- Solo
    Joining = {v2}
    Views = {"theirs"}
    HashByte <- MCHashByte
    Routine = {r1, r2}
    Nil = Nil
    Fee <- MCFee
    MinFee = 1
    MaxMempoolSize = 2
    MaxTxPerBlock = 1
    TxExpiry = 0
    Writes = {"line"}
    CrashWrites = {}
    MaxHeight = 2
    MaxFailed = 3
INVARIANTS
    BFTTypeOK
    AtMostOnce
    LostOnlyByTimeout
    PoolApartFromChain
    StoredChainIsValid
SYMMETRY TxSymmetry
CONSTRAINT FewTimeouts
