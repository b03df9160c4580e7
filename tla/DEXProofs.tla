----------------------------- MODULE DEXProofs ------------------------------
(***************************************************************************)
(* What the page of the exchange promises a trader (module DEX), for every *)
(* value of the constants, however numbers are rounded.                    *)
(***************************************************************************)
EXTENDS DEX, SequenceTheorems, TLAPS

(***************************************************************************)
(* Quotes.  One that remembers a pool says what a swap in that pool pays,  *)
(* wherever it is on its way.                                              *)
(***************************************************************************)
Quoted(quote) ==
    \A pool \in quote.of :
        quote.AmountOut = AmountOut(pool, SideIn(PagePool, quote.TokenIn), quote.AmountIn)

Recorded(record) == \E S : record \in Seq(S)

QuotesInv ==
    /\ Recorded(swapHistory)
    /\ page = [tIn |-> page.tIn, amt |-> page.amt, qData |-> page.qData]
    /\ \A quote \in replies : Quoted(quote)
    /\ page.qData # Nothing => Quoted(page.qData)

\* One swap more in the record.
LEMMA RecordedAppend ==
  ASSUME NEW record, NEW swap, Recorded(record)
  PROVE  /\ Recorded(Append(record, swap))
         /\ Append(record, swap)[Len(Append(record, swap))] = swap
  <1>1. PICK S : record \in Seq(S)
    BY DEF Recorded
  <1>2. PICK T : T = S \cup {swap}
    OBVIOUS
  <1>3. record \in Seq(T) /\ swap \in T
    BY <1>1, <1>2
  <1>. QED  BY <1>3 DEF Recorded

LEMMA AnswerIsQuoted ==
  ASSUME NEW tokenIn, NEW amount
  PROVE  \A quote \in handleDEXQuote(PagePool, tokenIn, amount) : Quoted(quote)
  <1>1. SUFFICES ASSUME NEW quote \in handleDEXQuote(PagePool, tokenIn, amount)
                 PROVE  Quoted(quote)
    OBVIOUS
  <1>2. CASE PagePool \in DOMAIN pools
    <2>1. PICK pool : pool = pools[PagePool]
      OBVIOUS
    <2>2. /\ quote.of = {pool} /\ quote.TokenIn = tokenIn /\ quote.AmountIn = amount
          /\ quote.AmountOut = AmountOut(pool, SideIn(PagePool, tokenIn), amount)
      BY <1>1, <1>2, <2>1 DEF handleDEXQuote, GetQuote, AmountOut, NewReserveOut, SideIn
    <2>. QED  BY <1>1, <2>2 DEF Quoted
  <1>3. CASE PagePool \notin DOMAIN pools
    <2>1. quote.of = {}
      BY <1>1, <1>3 DEF handleDEXQuote
    <2>. QED  BY <1>1, <2>1 DEF Quoted
  <1>. QED  BY <1>2, <1>3

\* A swap adds its result to the record and asks for no quote.
LEMMA SwapIsRecorded ==
  ASSUME NEW id, NEW tokenIn, NEW amountIn, NEW minAmountOut, Recorded(swapHistory),
         Swap(id, tokenIn, amountIn, minAmountOut)
  PROVE  /\ Recorded(swapHistory')
         /\ swapHistory'[Len(swapHistory')].AmountOut
              = AmountOut(pools[id], SideIn(id, tokenIn), amountIn)
         /\ ~Less(swapHistory'[Len(swapHistory')].AmountOut, minAmountOut)
  <1>1. PICK swap : swap = Result(id, tokenIn, amountIn)
    OBVIOUS
  <1>2. swapHistory' = Append(swapHistory, swap) /\ ~Less(swap.AmountOut, minAmountOut)
    BY <1>1 DEF Swap
  <1>3. swap.AmountOut = AmountOut(pools[id], SideIn(id, tokenIn), amountIn)
    BY <1>1 DEF Result
  <1>4. Recorded(swapHistory') /\ swapHistory'[Len(swapHistory')] = swap
    BY <1>2, RecordedAppend
  <1>. QED  BY <1>2, <1>3, <1>4

LEMMA InitQuotesInv == DEXInit => QuotesInv
  <1>. SUFFICES ASSUME DEXInit PROVE QuotesInv
    OBVIOUS
  <1>1. /\ swapHistory = <<>> /\ replies = {}
        /\ page = [tIn |-> PagePool[2], amt |-> Nothing, qData |-> Nothing]
    BY DEF DEXInit
  <1>2. Recorded(<<>>)
    BY EmptySeq DEF Recorded
  <1>. QED  BY <1>1, <1>2 DEF QuotesInv

LEMMA NextQuotesInv == QuotesInv /\ [DEXNext]_dexVars => QuotesInv'
  <1>. SUFFICES ASSUME QuotesInv, [DEXNext]_dexVars PROVE QuotesInv'
    OBVIOUS
  <1>1. ASSUME UNCHANGED pageVars, Recorded(swapHistory') PROVE QuotesInv'
    BY <1>1 DEF QuotesInv, pageVars, Quoted, AmountOut, NewReserveOut
  <1>2. CASE handleDEXCreatePool \/ handleDEXAddLiquidity
             \/ \E id \in DOMAIN pools, x \in Withdrawals, h \in Holder :
                    RemoveLiquidity(id, x, h)
    <2>1. UNCHANGED <<swapHistory, pageVars>>
      BY <1>2 DEF handleDEXCreatePool, CreatePool, handleDEXAddLiquidity, AddLiquidity,
                  RemoveLiquidity, Providing
    <2>. QED  BY <1>1, <2>1 DEF QuotesInv
  <1>3. CASE handleDEXSwap
    <2>1. PICK id, t, x : Swap(id, t, x, Zero) /\ UNCHANGED pageVars
      BY <1>3 DEF handleDEXSwap
    <2>. QED  BY <1>1, <2>1, SwapIsRecorded DEF QuotesInv
  <1>4. CASE \E x \in PageAmounts : TypeAmount(x)
    <2>1. PICK amount, quotes :
              /\ quotes = handleDEXQuote(PagePool, page.tIn, amount)
              /\ page' = [page EXCEPT !.amt = amount] /\ replies' = replies \cup quotes
              /\ swapHistory' = swapHistory
      BY <1>4 DEF TypeAmount
    <2>2. \A quote \in quotes : Quoted(quote)
      BY <2>1, AnswerIsQuoted
    <2>. QED  BY <2>1, <2>2 DEF QuotesInv, Quoted, AmountOut, NewReserveOut
  <1>5. CASE \E quote \in replies : ShowQuote(quote)
    <2>1. PICK quote \in replies : /\ page' = [page EXCEPT !.qData = quote]
                                   /\ replies' = replies \ {quote}
                                   /\ swapHistory' = swapHistory
      BY <1>5 DEF ShowQuote
    <2>. QED  BY <2>1 DEF QuotesInv, Quoted, AmountOut, NewReserveOut
  <1>6. CASE flip
    <2>1. PICK t : /\ page' = [page EXCEPT !.tIn = t, !.amt = Nothing]
                   /\ replies' = replies /\ swapHistory' = swapHistory
      BY <1>6 DEF flip
    <2>. QED  BY <2>1 DEF QuotesInv, Quoted, AmountOut, NewReserveOut
  <1>7. CASE \E answered \in BOOLEAN : doSwap(answered)
    <2>1. PICK answered \in BOOLEAN : doSwap(answered)
      BY <1>7
    <2>2. Recorded(swapHistory')
      BY <2>1, SwapIsRecorded DEF doSwap, QuotesInv
    <2>3. /\ replies' = replies
          /\ page' = page \/ page' = [page EXCEPT !.amt = Nothing]
      BY <2>1 DEF doSwap
    <2>. QED  BY <2>2, <2>3 DEF QuotesInv, Quoted, AmountOut, NewReserveOut
  <1>8. CASE UNCHANGED dexVars
    BY <1>1, <1>8 DEF dexVars, QuotesInv
  <1>. QED  BY <1>2, <1>3, <1>4, <1>5, <1>6, <1>7, <1>8 DEF DEXNext

(***************************************************************************)
(* Whatever others do to the pool between a quote and the swap, in         *)
(* whichever order quotes come in and however often a swap is sent again,  *)
(* a swap of the page pays the "Min received" that it shows or does        *)
(* nothing, and what is quoted if the pool is still as it was.             *)
(***************************************************************************)
THEOREM QuotesAreHonouredCorrect == DEXSpec => QuotesAreHonoured
  <1>. DEFINE Honoured(answered) ==
                LET quote == page.qData
                    paid  == swapHistory'[Len(swapHistory')].AmountOut
                IN  /\ ~Less(paid, Times(quote.AmountOut, Tolerance))
                    /\ (/\ pools[PagePool] \in quote.of
                        /\ quote.TokenIn = page.tIn
                        /\ quote.AmountIn = page.amt) => paid = quote.AmountOut
  <1>1. ASSUME QuotesInv, NEW answered \in BOOLEAN, doSwap(answered)
        PROVE  Honoured(answered)
    <2>1. PICK paid : paid = swapHistory'[Len(swapHistory')].AmountOut
      OBVIOUS
    <2>2. /\ paid = AmountOut(pools[PagePool], SideIn(PagePool, page.tIn), page.amt)
          /\ ~Less(paid, Times(page.qData.AmountOut, Tolerance))
      BY <1>1, <2>1, SwapIsRecorded DEF doSwap, QuotesInv
    <2>3. Quoted(page.qData)
      BY <1>1 DEF doSwap, QuotesInv
    <2>4. ASSUME pools[PagePool] \in page.qData.of, page.qData.TokenIn = page.tIn,
                 page.qData.AmountIn = page.amt
          PROVE  paid = page.qData.AmountOut
      BY <2>2, <2>3, <2>4 DEF Quoted
    <2>. QED  BY <2>1, <2>2, <2>4
  <1>2. QuotesInv /\ [DEXNext]_dexVars
          => [\A answered \in BOOLEAN : doSwap(answered) => Honoured(answered)]_dexVars
    BY <1>1
  <1>. QED  BY <1>2, InitQuotesInv, NextQuotesInv, PTL DEF DEXSpec, QuotesAreHonoured
=============================================================================
