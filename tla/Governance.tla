----------------------------- MODULE Governance -----------------------------
(***************************************************************************)
(* Governance (x/nvx/keeper/governance.go): proposals with a deposit, votes*)
(* weighted with the voter's balance at the time of the vote, and the loop *)
(* that closes a proposal after its voting period.  CreateProposal reads   *)
(* and deducts under two separate locks of the accounts, like Stake.       *)
(* Proposals are kept in memory only.                                      *)
(***************************************************************************)
EXTENDS StateKeeper, SequencesExt

CONSTANTS
    MinDeposit,     \* the least deposit of a proposal
    VotingPeriod,   \* how long a proposal is open, in hours
    QuorumSupply,   \* the supply that finalizeProposal measures a quorum in
    Exact,          \* 2^53: float64 has all integers up to here
    MoreThanHalf(_, _)  \* whether float64 finds yes / total to be more than a half

ASSUME GovernanceAssumption ==
    /\ MinDeposit \in Nat \ {0}
    /\ VotingPeriod \in Nat
    /\ QuorumSupply \in Nat \ {0}
    /\ Exact \in Uint64
    /\ \A yes, total \in Uint64 : MoreThanHalf(yes, total) \in BOOLEAN
    /\ \A yes \in Uint64, total \in 0 .. Exact : MoreThanHalf(yes, total) <=> 2 * yes > total

VARIABLES
    proposals,  \* GovernanceKeeper.proposals; nextID is Len(proposals) + 1
    creating    \* the call of CreateProposal that has checked but not deducted

governanceVars == <<proposals, creating>>

Status == {"voting", "passed", "rejected", "expired"}

\* What a request may name as an option; any other string counts as "other".
VoteOption == {"yes", "no", "abstain", "other"}

VoteRecord == [Voter : Address, Option : VoteOption, Power : Nat]

Proposal == [Proposer : Address, Deposit : Nat, Status : Status, EndTime : Nat,
             Votes : Seq(VoteRecord), Power : [VoteOption -> Nat], TotalPower : Nat]

CreateCall == [proposer : Address, deposit : Nat]

\* A vote is taken out of the tallies or put into them.  The tallies of the
\* named options are YesPower, NoPower and AbstainPower; no tally is kept of
\* the others.
Tally(p, option, power) ==
    [p EXCEPT !.TotalPower = ToUint64(@ + power),
              !.Power[option] = IF option = "other" THEN @ ELSE ToUint64(@ + power)]

\* Mutant of WithoutVote: the vote goes, its power stays.
WithoutRecord(p, voter) ==
    LET own == {i \in 1 .. Len(p.Votes) : p.Votes[i].Voter = voter}
    IN  IF own = {} THEN p ELSE [p EXCEPT !.Votes = RemoveAt(@, Min(own))]

\* The proposal without the first vote of this voter.
WithoutVote(p, voter) ==
    LET own == {i \in 1 .. Len(p.Votes) : p.Votes[i].Voter = voter}
        v   == p.Votes[Min(own)]
    IN  IF own = {} THEN p
        ELSE [Tally(p, v.Option, -v.Power) EXCEPT !.Votes = RemoveAt(@, Min(own))]

WithVote(p, voter, option, power) ==
    [Tally(p, option, power) EXCEPT
        !.Votes = Append(@, [Voter |-> voter, Option |-> option, Power |-> power])]

\* Mutant of Outcome: a proposal without a quorum gets an unknown status.
OutcomeFailed(p) ==
    IF p.TotalPower * 100 < 33 * QuorumSupply THEN "failed"
    ELSE IF MoreThanHalf(p.Power["yes"], p.TotalPower) THEN "passed" ELSE "rejected"

\* finalizeProposal: a third of the supply must have voted, and more than
\* half of the power that did must be for it.
Outcome(p) ==
    IF p.TotalPower * 100 < 33 * QuorumSupply THEN "expired"
    ELSE IF MoreThanHalf(p.Power["yes"], p.TotalPower) THEN "passed" ELSE "rejected"

GovernanceInit ==
    /\ proposals = <<>>
    /\ creating = NoCall

CreateCheck(proposer, deposit) ==
    /\ creating = NoCall
    /\ deposit >= MinDeposit
    /\ ToUint64(GetBalance(proposer)) >= deposit
    /\ creating' = [proposer |-> proposer, deposit |-> deposit]
    /\ UNCHANGED <<stateVars, proposals>>

CreateDeduct ==
    /\ creating # NoCall
    /\ accounts' = Credit(accounts, creating.proposer, -creating.deposit)
    /\ proposals' =
         Append(proposals,
                [Proposer |-> creating.proposer, Deposit |-> creating.deposit,
                 Status |-> "voting", EndTime |-> clock + VotingPeriod, Votes |-> <<>>,
                 Power |-> [o \in VoteOption |-> 0], TotalPower |-> 0])
    /\ creating' = NoCall
    /\ wrapped' = (wrapped \/ ~Fits(creating.proposer, -creating.deposit))
    /\ UNCHANGED <<txs, stateFile, clock>>

Vote(id, voter, option) ==
    LET power == ToUint64(GetBalance(voter))
    IN  /\ creating = NoCall
        /\ id \in 1 .. Len(proposals)
        /\ proposals[id].Status = "voting"
        /\ clock <= proposals[id].EndTime
        /\ power > 0
        /\ proposals' = [proposals EXCEPT
                           ![id] = WithVote(WithoutVote(@, voter), voter, option, power)]
        /\ UNCHANGED <<stateVars, creating>>

\* Mutant of Due: the last moment of the voting period is cut off.
DueEarly == {i \in 1 .. Len(proposals) :
                proposals[i].Status = "voting" /\ clock >= proposals[i].EndTime}

\* Mutant of Due: a proposal nobody voted on is never closed.
DueIfVoted == {i \in 1 .. Len(proposals) :
                 /\ proposals[i].Status = "voting" /\ clock > proposals[i].EndTime
                 /\ proposals[i].TotalPower > 0}

\* The proposals that a round of processLoop closes.
Due == {i \in 1 .. Len(proposals) :
           proposals[i].Status = "voting" /\ clock > proposals[i].EndTime}

\* One round of processLoop; a deposit goes back only if its proposal passed.
ProcessLoop ==
    LET refunded(a) == {i \in Due : Outcome(proposals[i]) = "passed" /\ proposals[i].Proposer = a}
        refund(a)   == SumFunction([i \in refunded(a) |-> proposals[i].Deposit])
    IN  /\ creating = NoCall
        /\ Due # {}
        /\ proposals' = [i \in 1 .. Len(proposals) |->
                            IF i \in Due THEN [proposals[i] EXCEPT !.Status = Outcome(proposals[i])]
                            ELSE proposals[i]]
        /\ accounts' = [a \in DOMAIN accounts |->
                          [accounts[a] EXCEPT !.Balance = ToInt64(@ + refund(a))]]
        /\ wrapped' = (wrapped \/ \E a \in DOMAIN accounts : ~Fits(a, refund(a)))
        /\ UNCHANGED <<txs, stateFile, clock, creating>>

GovernanceCrash ==
    /\ proposals' = <<>>
    /\ creating' = NoCall
=============================================================================
