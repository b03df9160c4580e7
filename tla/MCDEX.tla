-------------------------------- MODULE MCDEX -------------------------------
(* Two tokens and a pool of both; of one token with itself, which the code *)
(* does not refuse.  Numbers have five digits: a pool of four by four is   *)
(* doubled or halved and its shares add up, one of 64 by 64 has lost its   *)
(* minimum, can be emptied and swallows a part of what is swapped.         *)
EXTENDS DEX, TLC

MCMinimumLiquidity == Whole(1)
MCSwapFeeBps == Whole(1)
MCBasisPoints == Whole(5)
MCTolerance == Round([num |-> 9, den |-> 10])
MCInitial == {<<Whole(4), Whole(4)>>, <<Whole(1), Whole(1)>>, <<Whole(64), Whole(64)>>}
MCDeposits == {<<Whole(1), Whole(4)>>}
MCWithdrawals == {Whole(3), Whole(64), Whole(-2)}
MCAmounts == {Whole(5)}
MCPageAmounts == {Whole(5), Whole(10)}
MCPair == {<<"NVX", "USDT">>, <<"NVX", "NVX">>}
MCPagePool == <<"NVX", "USDT">>

MCHolders == Permutations(Holder)

\* Four calls with one change of the page's input, or three with two.
MCFewCalls == ops + typed <= 5
=============================================================================
