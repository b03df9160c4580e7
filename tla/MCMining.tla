------------------------------ MODULE MCMining ------------------------------
(* Three validators, one of them green and one not active.                 *)
EXTENDS Mining

CONSTANTS v1, v2, v3, h1

MCValidator ==
    << [Address |-> v1, VotingPower |-> 1, IsActive |-> TRUE,  IsGreen |-> TRUE],
       [Address |-> v2, VotingPower |-> 2, IsActive |-> FALSE, IsGreen |-> FALSE],
       [Address |-> v3, VotingPower |-> 2, IsActive |-> TRUE,  IsGreen |-> FALSE] >>
=============================================================================
