------------------------------ MODULE MCLedger ------------------------------
(* Two genesis accounts and a third that is opened by a transfer.          *)
EXTENDS Ledger, TLC

CONSTANTS a, b, c

MCGenesisAmount == a :> 4 @@ b :> 2

\* A reward of a third or of half a unit per unit and hour: roundings occur.
MCRate == [green \in BOOLEAN |-> IF green THEN 3 ELSE 2]

\* Nothing on the way refuses a negative amount.
MCAmounts == {2, -1}

\* Above Exact, half of the numbers are missing.
MCMoreThanHalf(yes, total) ==
    IF total <= Exact THEN 2 * yes > total ELSE 2 * (yes \div 2) > total \div 2
=============================================================================
