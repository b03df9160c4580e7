------------------------------- MODULE Nuvex -------------------------------
(* What the components of a node have in common.                           *)

CONSTANTS
    TxHash,   \* transaction hashes
    Address   \* account and validator addresses
============================================================================
