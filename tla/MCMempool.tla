----------------------------- MODULE MCMempool -----------------------------
(* A pool of two slots, three transactions and fees on both sides of the   *)
(* minimum, so that the pool fills up, fees tie and transactions expire;   *)
(* two of the largest fees do not fit into an int64.                       *)
EXTENDS Mempool

\* CONSTANT values
MCFee == {-1, 1, 2, 3}
============================================================================
