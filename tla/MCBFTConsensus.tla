--------------------------- MODULE MCBFTConsensus ---------------------------
(* A node alone, as NewNuvexApp sets it up, which another validator joins  *)
(* or not.  HashByte holds the real bytes for heights 1 to 4.              *)
EXTENDS BFTConsensus, TLC

CONSTANTS node, v2

MCFee == {1}
MCHashByte == SubSeq(<<100, 58, 80, 111>>, 1, MaxHeight)

\* Nothing tells one transaction from another.
TxSymmetry == Permutations(TxHash)

\* A run goes on for as long as the timeouts are counted exactly.
FewTimeouts == failedRounds < MaxFailed

Solo == <<node>>
=============================================================================
