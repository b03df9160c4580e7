SPECIFICATION DEXSpec
CONSTANTS
    Precision = 5
    Token = {"NVX", "USDT"}
    Pair <- MCPair
    Holder = {h1, h2}
    SwapFeeBps <- MCSwapFeeBps
    BasisPoints <- MCBasisPoints
    MinimumLiquidity <- MCMinimumLiquidity
    Tolerance <- MCTolerance
    PagePool <- MCPagePool
    Nothing = Nothing
    Initial <- MCInitial
    Deposits <- MCDeposits
    Withdrawals <- MCWithdrawals
    Amounts <- MCAmounts
    PageAmounts <- MCPageAmounts
    MaxOps = 4
    MaxTyped = 2
INVARIANTS
    
    RecordIsComplete
PROPERTIES
    SharesKeepTheirWorth
    QuotesAreHonoured
SYMMETRY MCHolders
CONSTRAINT MCFewCalls
CHECK_DEADLOCK FALSE
