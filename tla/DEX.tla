-------------------------------- MODULE DEX --------------------------------
(***************************************************************************)
(* The exchange of a node (x/nvx/keeper/dex.go): pools of two tokens with a*)
(* constant product of their reserves, the shares of those who put them    *)
(* in, and the record of all swaps, all in memory and behind one lock; and *)
(* the page dex/index.html, which asks for a quote whenever its amount is  *)
(* changed, shows the quote that came in last, and swaps for at least a    *)
(* part of what it shows.                                                  *)
(*                                                                         *)
(* Nothing here moves coins of the account state.  Amounts are rounded as  *)
(* float64 is (module Floats).  A pool is named by its two tokens.         *)
(***************************************************************************)
EXTENDS Floats, Sequences, FiniteSets, Folds, Functions

CONSTANTS
    Token,             \* the tokens
    Pair,              \* the pairs of tokens that somebody makes a pool of
    Holder,            \* those who provide liquidity
    SwapFeeBps,        \* 30: the part of an amount that a swap keeps as fee,
    BasisPoints,       \* in ten thousandths
    MinimumLiquidity,  \* the shares of a new pool that nobody holds
    Tolerance,         \* the part of a quote that the page insists on
    PagePool,          \* the pool that the page trades in
    Nothing,           \* no amount is typed in, no quote is shown
    Initial,           \* the pairs of amounts a pool may be created with
    Deposits,          \* the pairs of amounts that may be added
    Withdrawals,       \* the shares that may be given back
    Amounts,           \* the amounts that may be swapped
    PageAmounts,       \* the amounts that may be typed in
    MaxOps,            \* bound on the calls that change a pool
    MaxTyped           \* bound on the changes of the page's input

ASSUME DEXAssumption ==
    /\ \A x \in {MinimumLiquidity, SwapFeeBps, BasisPoints, Tolerance} : IsFloat(x) /\ Less(Zero, x)
    /\ \A p \in Initial \cup Deposits : IsFloat(p[1]) /\ IsFloat(p[2])
    /\ \A x \in Withdrawals \cup Amounts \cup PageAmounts : IsFloat(x) /\ IsFinite(x)
    /\ Pair \subseteq Token \X Token /\ PagePool \in Pair
    /\ MaxOps \in Nat /\ MaxTyped \in Nat

VARIABLES
    pools,        \* DEXKeeper.pools
    swapHistory,  \* DEXKeeper.swapHistory
    page,         \* the page: the token to pay with, amount and quote shown
    replies,      \* the quotes on their way to the page
    rounded,      \* the pools with sums of shares that were not exact
    ops,          \* calls that changed a pool so far
    typed         \* changes of the page's input so far

pageVars == <<page, replies, typed>>

dexVars == <<pools, swapHistory, rounded, ops, pageVars>>

Side == {"A", "B"}

Opposite(s) == IF s = "A" THEN "B" ELSE "A"

TokenOf(id, s) == IF s = "A" THEN id[1] ELSE id[2]

LPOf(pool, holder) ==
    IF holder \in DOMAIN pool.LPHolders THEN pool.LPHolders[holder] ELSE Zero

\* The map f with an entry written.
Put(f, key, value) == [k \in DOMAIN f \cup {key} |-> IF k = key THEN value ELSE f[k]]

WithLP(pool, holder, x) == Put(pool.LPHolders, holder, Plus(LPOf(pool, holder), x))

Lesser(i, j) == IF i <= j THEN i ELSE j

----------------------------------------------------------------------------
\* The side a swap pays into: the first that has the token.
SideIn(id, tokenIn) == IF tokenIn = id[1] THEN "A" ELSE "B"

Fee(amountIn) == Over(Times(amountIn, SwapFeeBps), BasisPoints)

\* k = x * y stays: what is left on the other side once amountIn is paid in.
NewReserveOut(pool, in, amountIn) ==
    Over(Times(pool.Reserve["A"], pool.Reserve["B"]),
         Plus(pool.Reserve[in], Minus(amountIn, Fee(amountIn))))

AmountOut(pool, in, amountIn) ==
    Minus(pool.Reserve[Opposite(in)], NewReserveOut(pool, in, amountIn))

\* The price before and after, for the result; of which JSON takes no NaN.
PriceImpact(pool, in, amountIn) ==
    LET old  == Over(pool.Reserve[Opposite(in)], pool.Reserve[in])
        new  == Over(NewReserveOut(pool, in, amountIn),
                     Plus(pool.Reserve[in], Minus(amountIn, Fee(amountIn))))
        diff == Minus(old, new)
    IN  Over(IF Less(diff, Zero) THEN Neg(diff) ELSE diff, old)

DEXInit ==
    /\ pools = <<>>
    /\ swapHistory = <<>>
    /\ page = [tIn |-> PagePool[2], amt |-> Nothing, qData |-> Nothing]
    /\ replies = {}
    /\ rounded = {}
    /\ ops = 0
    /\ typed = 0

Op ==
    /\ ops < MaxOps
    /\ ops' = ops + 1

\* Remembers whether sums of shares, of pool id or of a holder, were exact.
Summing(id, terms) ==
    rounded' = IF \E t \in terms : Inexact(t[1], t[2]) THEN rounded \cup {id} ELSE rounded

CreatePool(id, amountA, amountB, creator) ==
    LET lpTokens == Minus(Sqrt(Times(amountA, amountB)), MinimumLiquidity)
    IN  /\ id \notin DOMAIN pools
        /\ Less(Zero, amountA) /\ Less(Zero, amountB)
        /\ Less(Zero, lpTokens)
        /\ pools' = Put(pools, id, [Reserve |-> [s \in Side |-> IF s = "A" THEN amountA ELSE amountB],
                                    TotalLPTokens |-> Plus(lpTokens, MinimumLiquidity),
                                    LPHolders |-> [h \in {creator} |-> lpTokens],
                                    TotalVolume |-> Zero, TotalFees |-> Zero, Trades |-> 0])
        /\ Summing(id, {<<lpTokens, MinimumLiquidity>>})
        /\ Op
        /\ UNCHANGED <<swapHistory, pageVars>>

\* Mutant of Minted: the larger part counts.
MintedForMost(pool, amount) ==
    LET part(s) == Times(Over(amount[s], pool.Reserve[s]), pool.TotalLPTokens)
    IN  IF Less(part("A"), part("B")) THEN part("B") ELSE part("A")

\* The shares for an addition: what the smaller part of it is worth.
Minted(pool, amount) ==
    LET part(s) == Times(Over(amount[s], pool.Reserve[s]), pool.TotalLPTokens)
    IN  Least(part("A"), part("B"))

\* The pool with amounts added to its reserves, and shares to those of holder.
Provide(pool, amount, lpTokens, holder) ==
    [pool EXCEPT !.Reserve = [s \in Side |-> Plus(@[s], amount[s])],
                 !.TotalLPTokens = Plus(@, lpTokens),
                 !.LPHolders = WithLP(pool, holder, lpTokens)]

Providing(id, amount, lpTokens, holder) ==
    /\ pools' = [pools EXCEPT ![id] = Provide(@, amount, lpTokens, holder)]
    /\ Summing(id, {<<pools[id].TotalLPTokens, lpTokens>>, <<LPOf(pools[id], holder), lpTokens>>})
    /\ Op
    /\ UNCHANGED <<swapHistory, pageVars>>

AddLiquidity(id, amountA, amountB, provider) ==
    LET amount == [s \in Side |-> IF s = "A" THEN amountA ELSE amountB]
    IN  /\ id \in DOMAIN pools
        /\ Less(Zero, amountA) /\ Less(Zero, amountB)
        /\ Providing(id, amount, Minted(pools[id], amount), provider)


RemoveLiquidity(id, lpTokens, provider) ==
    LET pool   == pools[id]
        amount == [s \in Side |-> Times(Over(lpTokens, pool.TotalLPTokens), pool.Reserve[s])]
    IN  /\ id \in DOMAIN pools
        /\ ~Less(LPOf(pool, provider), lpTokens)
        /\ Providing(id, [s \in Side |-> Neg(amount[s])], Neg(lpTokens), provider)

\* Mutant of Swapped: the volume is what goes into the pool.
SwappedNet(pool, in, amountIn) ==
    [pool EXCEPT !.Reserve = [s \in Side |-> IF s = in THEN Plus(@[s], Minus(amountIn, Fee(amountIn)))
                                             ELSE NewReserveOut(pool, in, amountIn)],
                 !.TotalVolume = Plus(@, Minus(amountIn, Fee(amountIn))),
                 !.TotalFees = Plus(@, Fee(amountIn)),
                 !.Trades = @ + 1]

\* The pool after a swap: the fee goes into no reserve.
Swapped(pool, in, amountIn) ==
    [pool EXCEPT !.Reserve = [s \in Side |-> IF s = in THEN Plus(@[s], Minus(amountIn, Fee(amountIn)))
                                             ELSE NewReserveOut(pool, in, amountIn)],
                 !.TotalVolume = Plus(@, amountIn),
                 !.TotalFees = Plus(@, Fee(amountIn)),
                 !.Trades = @ + 1]

Result(id, tokenIn, amountIn) ==
    LET in == SideIn(id, tokenIn)
    IN  [PoolID |-> id, TokenIn |-> tokenIn, AmountIn |-> amountIn,
         AmountOut |-> AmountOut(pools[id], in, amountIn), Fee |-> Fee(amountIn)]

\* A swap that is not refused; below minAmountOut it changes nothing.
Swap(id, tokenIn, amountIn, minAmountOut) ==
    LET result == Result(id, tokenIn, amountIn)
    IN  /\ Op
        /\ id \in DOMAIN pools
        /\ Less(Zero, amountIn)
        /\ tokenIn \in {id[1], id[2]}
        /\ ~Less(result.AmountOut, minAmountOut)
        /\ swapHistory' = Append(swapHistory, result)
        /\ pools' = [pools EXCEPT ![id] = Swapped(@, SideIn(id, tokenIn), amountIn)]
        /\ UNCHANGED rounded

\* Mutant of GetQuote: the fee is forgotten.
GetQuoteFeeless(id, tokenIn, amountIn) ==
    LET pool    == pools[id]
        in      == IF tokenIn = id[1] THEN "A" ELSE "B"
        k       == Times(pool.Reserve["A"], pool.Reserve["B"])
        newIn   == Plus(pool.Reserve[in], amountIn)
    IN  [TokenIn |-> tokenIn, AmountIn |-> amountIn, of |-> {pool},
         AmountOut |-> Minus(pool.Reserve[Opposite(in)], Over(k, newIn))]

\* The computation of Swap once more, under the read lock and without its
\* checks: any token but the first counts as the second.  That the quote also
\* remembers the pool it was made of, if any, is for the property below.
GetQuote(id, tokenIn, amountIn) ==
    LET pool    == pools[id]
        in      == IF tokenIn = id[1] THEN "A" ELSE "B"
        k       == Times(pool.Reserve["A"], pool.Reserve["B"])
        newIn   == Plus(pool.Reserve[in], Minus(amountIn, Fee(amountIn)))
    IN  [TokenIn |-> tokenIn, AmountIn |-> amountIn, of |-> {pool},
         AmountOut |-> Minus(pool.Reserve[Opposite(in)], Over(k, newIn))]

\* The last swaps, newest first.
GetSwapHistory(limit) ==
    LET total == Len(swapHistory)
    IN  [i \in 1 .. Lesser(limit, total) |-> swapHistory[total + 1 - i]]

\* Without the sums of volumes and fees over the pools, which are of no
\* particular order and so round in no particular way.
Stats ==
    [TotalPools  |-> Cardinality(DOMAIN pools),
     TotalTrades |-> SumFunction([id \in DOMAIN pools |-> pools[id].Trades])]

----------------------------------------------------------------------------
\* The answers to a request for a quote: none when JSON cannot encode it,
\* and without the pool an error, of which the page makes a quote for nothing:
\* what it then insists on is NaN, sent as null and read as 0.
handleDEXQuote(id, tokenIn, amountIn) ==
    IF id \notin DOMAIN pools
    THEN {[TokenIn |-> tokenIn, AmountIn |-> amountIn, of |-> {}, AmountOut |-> Zero]}
    ELSE {q \in {GetQuote(id, tokenIn, amountIn)} :
             IsFinite(q.AmountOut) /\ IsFinite(PriceImpact(pools[id], SideIn(id, tokenIn), amountIn))}

\* The page: getQuote up to its await; the exchange computes the quote.
TypeAmount(amount) ==
    /\ typed < MaxTyped
    /\ page' = [page EXCEPT !.amt = amount]
    /\ replies' = replies \cup handleDEXQuote(PagePool, page.tIn, amount)
    /\ typed' = typed + 1
    /\ UNCHANGED <<pools, swapHistory, rounded, ops>>

\* Quotes come in in any order; the page keeps the last one to come.
ShowQuote(quote) ==
    /\ quote \in replies
    /\ page' = [page EXCEPT !.qData = quote]
    /\ replies' = replies \ {quote}
    /\ UNCHANGED <<pools, swapHistory, rounded, ops, typed>>

\* The direction is turned round; the quote stays where it is.
flip ==
    /\ typed < MaxTyped
    /\ page' = [page EXCEPT !.tIn = TokenOf(PagePool, Opposite(SideIn(PagePool, @))), !.amt = Nothing]
    /\ typed' = typed + 1
    /\ UNCHANGED <<pools, swapHistory, rounded, ops, replies>>

\* The page swaps.  When the answer is lost or cannot be encoded, or the
\* handler panics on a short name of the trader after all is done, the page
\* shows an error and the input stays, to be sent again.
doSwap(answered) ==
    /\ page.amt # Nothing /\ page.qData # Nothing
    /\ page' = IF answered THEN [page EXCEPT !.amt = Nothing] ELSE page
    /\ UNCHANGED <<replies, typed>>
    /\ Swap(PagePool, page.tIn, page.amt, Times(page.qData.AmountOut, Tolerance))
    /\ answered => IsFinite(PriceImpact(pools[PagePool], SideIn(PagePool, page.tIn), page.amt))

----------------------------------------------------------------------------
\* The requests of other clients.
handleDEXCreatePool ==
    \E id \in Pair, a \in Initial, h \in Holder : CreatePool(id, a[1], a[2], h)

handleDEXAddLiquidity ==
    \E id \in DOMAIN pools, a \in Deposits, h \in Holder : AddLiquidity(id, a[1], a[2], h)

\* Of swaps, those without a minimum.
handleDEXSwap ==
    /\ \E id \in DOMAIN pools, t \in Token, x \in Amounts : Swap(id, t, x, Zero)
    /\ UNCHANGED pageVars

DEXNext ==
    \/ handleDEXCreatePool
    \/ handleDEXAddLiquidity
    \/ \E id \in DOMAIN pools, x \in Withdrawals, h \in Holder : RemoveLiquidity(id, x, h)
    \/ handleDEXSwap
    \/ \E x \in PageAmounts : TypeAmount(x)
    \/ \E quote \in replies : ShowQuote(quote)
    \/ flip
    \/ \E answered \in BOOLEAN : doSwap(answered)

DEXSpec == DEXInit /\ [][DEXNext]_dexVars

----------------------------------------------------------------------------

(***************************************************************************)
(* What shares are worth falls by no more than what float64 rounds off: a  *)
(* swap keeps the product of the reserves up to the rounding of that       *)
(* product and of the division by it, and whoever adds or withdraws leaves *)
(* each share at least its part of either reserve, up to a few last digits.*)
(* So no sequence of calls takes more out of a pool than those who make    *)
(* them have put in, apart from that.                                      *)
(***************************************************************************)
Digits(n) == [num |-> n, den |-> 2^Precision]

HasPrice(pool) == \A x \in {pool.Reserve["A"], pool.Reserve["B"], pool.TotalLPTokens} : Less(Zero, x)

WorthKept(old, new) ==
    LET few  == Product(Digits(6), IF Less(old.TotalLPTokens, new.TotalLPTokens)
                                   THEN new.TotalLPTokens ELSE old.TotalLPTokens)
        k(p) == Product(p.Reserve["A"], p.Reserve["B"])
    IN  IF new.Trades # old.Trades
        THEN ~Less(k(new), Product(k(old), Digits(2^Precision - 2)))
        ELSE \A s \in Side : ~Less(Product(new.Reserve[s], old.TotalLPTokens),
                                   Product(old.Reserve[s], Sum(new.TotalLPTokens, Neg(few))))

SharesKeepTheirWorth ==
    [][\A id \in DOMAIN pools :
          HasPrice(pools[id]) /\ pools'[id] # pools[id] => WorthKept(pools[id], pools'[id])]_dexVars

(***************************************************************************)
(* The record is complete: what a pool says of its trades, volume and fees *)
(* is what the swaps recorded for it add up to, one after the other, and   *)
(* all that is recorded is the trades that Stats counts, whatever pools    *)
(* were created and swapped in meanwhile and whichever swaps were refused  *)
(* or left unanswered.                                                     *)
(***************************************************************************)
InOrder(id, field) ==
    LET total == Len(swapHistory)
        sum[i \in 0 .. total] ==
            IF i = 0 THEN Zero
            ELSE IF swapHistory[i].PoolID # id THEN sum[i - 1]
            ELSE Plus(sum[i - 1], swapHistory[i][field])
    IN  sum[total]

RecordIsComplete ==
    LET record == GetSwapHistory(MaxOps)
    IN  /\ \A id \in DOMAIN pools :
              /\ pools[id].Trades = Cardinality({i \in DOMAIN record : record[i].PoolID = id})
              /\ pools[id].TotalVolume = InOrder(id, "AmountIn")
              /\ pools[id].TotalFees = InOrder(id, "Fee")
        /\ Stats = [TotalPools |-> Cardinality(DOMAIN pools), TotalTrades |-> Len(record)]

(***************************************************************************)
(* Whatever others do to the pool between the quote and the swap, in       *)
(* whichever order quotes come in and however often a swap is sent again,  *)
(* a swap of the page pays at least the "Min received" that it shows or    *)
(* does nothing; and it pays exactly what is quoted when the pool is still *)
(* as it was and the quote is for this token and amount.                   *)
(***************************************************************************)
QuotesAreHonoured ==
    [][\A answered \in BOOLEAN : doSwap(answered) =>
          LET quote == page.qData
              paid  == swapHistory'[Len(swapHistory')].AmountOut
          IN  /\ ~Less(paid, Times(quote.AmountOut, Tolerance))
              /\ (/\ pools[PagePool] \in quote.of
                  /\ quote.TokenIn = page.tIn
                  /\ quote.AmountIn = page.amt) => paid = quote.AmountOut]_dexVars
=============================================================================
