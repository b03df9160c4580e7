SPECIFICATION MempoolFairSpec
CONSTANTS
    TxHash = {t1, t2, t3}
    Address = {}
    Half = 6
    Fee <- MCFee
    MinFee = 2
    MaxMempoolSize = 2
    MaxTxPerBlock = 1
    TxExpiry = 1
INVARIANTS
    MempoolTypeOK
    SizeIsExact
    ConfirmedWereLive
    AverageBetweenExtremes
PROPERTIES
    BestFeesFirst
    SlotsAreFreed
