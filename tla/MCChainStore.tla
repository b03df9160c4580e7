---------------------------- MODULE MCChainStore ----------------------------
(* Blocks with and without transactions, chains of up to three blocks.     *)
EXTENDS ChainStore

CONSTANTS t1, t2

MCTxHash == {t1, t2}
MCBatch == {<<>>, <<t2, t1>>}
=============================================================================
