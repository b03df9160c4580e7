-------------------------------- MODULE MCP2P -------------------------------
(* Three nodes, two of which have the same ID.  The second connection may  *)
(* be another one of the same two nodes, one of n3 to a node that it cannot*)
(* tell from the first, or one that gives n1 a peer of the other ID.       *)
EXTENDS P2P

CONSTANTS n1, n2, n3, A, B

MCNodeID == [n \in {n1, n2, n3} |-> IF n = n3 THEN B ELSE A]

MCDials == <<{<<n1, n3>>}, {<<n1, n3>>, <<n2, n3>>, <<n2, n1>>}>>
=============================================================================
