------------------------------- MODULE Ledger -------------------------------
(***************************************************************************)
(* Accounts, staking and governance as NewNuvexApp composes them: three    *)
(* keepers with a lock each, called by HTTP handlers that run in parallel, *)
(* by two hourly loops, and by processes that die and start again.         *)
(***************************************************************************)
EXTENDS Staking, Governance

CONSTANTS
    Amounts, Fees,  \* what a transfer may move and offer
    Stakes,         \* what a stake may lock
    Deposits,       \* what a proposal may deposit
    MaxTxs,         \* bound on the length of the transfer log
    MaxPositions,   \* bound on the number of positions of one process
    MaxProposals,   \* bound on the number of proposals of one process
    MaxVotes,       \* bound on the number of votes cast on one proposal
    MaxClock,       \* bound on the clock while no proposal is open
    MaxBoots        \* bound on the number of processes

ASSUME LedgerAssumption ==
    /\ Amounts \subseteq Int64 /\ Fees \subseteq Int64
    /\ Stakes \subseteq Uint64 /\ Deposits \subseteq Uint64
    /\ {MaxTxs, MaxPositions, MaxProposals, MaxVotes, MaxClock, MaxBoots} \subseteq Nat

VARIABLES
    running,    \* whether a process is running
    confirmed,  \* the transfers that were answered with success, ever
    casts,      \* votes cast so far in this process
    boots,      \* processes started so far
    rewarded,   \* the rewards that former processes computed
    damaged     \* a start could not read the file, or a save has failed or been
                \* cut short, ever

history == <<rewarded, damaged>>

ledgerVars == <<stateVars, stakingVars, governanceVars, running, confirmed, casts, boots, history>>

LedgerInit ==
    /\ StateInit /\ StakingInit /\ GovernanceInit
    /\ running = FALSE
    /\ confirmed = {}
    /\ casts = 0
    /\ boots = 0
    /\ rewarded = 0
    /\ damaged = FALSE

Start ==
    /\ ~running
    /\ boots < MaxBoots
    /\ \E read \in Reads, saving \in Saves :
          /\ StateStart(read, saving)
          /\ damaged' = (damaged \/ ~read \/ (NeedsGenesis(read) /\ saving # "whole"))
    /\ running' = TRUE
    /\ boots' = boots + 1
    /\ UNCHANGED <<stakingVars, governanceVars, confirmed, casts, rewarded>>

\* POST /tx/send.  Slicing a short address for the log line panics when the
\* transfer is done, and the client gets no answer.
Send ==
    /\ running
    /\ Len(txs) < MaxTxs
    /\ \E from \in DOMAIN accounts, to \in Address, amount \in Amounts, fee \in Fees,
          saving \in Saves :
         /\ SignedTransfer(from, to, amount, fee, accounts[from].Nonce + 1, saving)
         /\ confirmed' = IF {from, to} \cap Short = {} THEN confirmed \cup {txs'[Len(txs')]}
                         ELSE confirmed
         /\ damaged' = (damaged \/ saving # "whole")
    /\ UNCHANGED <<stakingVars, governanceVars, running, casts, boots, rewarded>>

StakingStep ==
    /\ running
    /\ \/ /\ Len(positions) < MaxPositions
          /\ \E owner \in Address, amount \in Stakes, green \in BOOLEAN :
                StakeCheck(owner, amount, green)
       \/ StakeDeduct
       \/ \E owner \in Address, id \in 1 .. Len(positions) : Unstake(owner, id)
       \/ RewardLoop
    /\ UNCHANGED <<governanceVars, running, confirmed, casts, boots, history>>

CreateBegin ==
    /\ running
    /\ Len(proposals) < MaxProposals
    /\ clock <= MaxClock
    /\ \E proposer \in Address, deposit \in Deposits : CreateCheck(proposer, deposit)
    /\ UNCHANGED <<stakingVars, running, confirmed, casts, boots, history>>

CreateEnd ==
    /\ running
    /\ CreateDeduct
    /\ UNCHANGED <<stakingVars, running, confirmed, casts, boots, history>>

Cast ==
    /\ running
    /\ casts < MaxVotes
    /\ \E id \in 1 .. Len(proposals), voter \in Address, option \in VoteOption :
          Vote(id, voter, option)
    /\ casts' = casts + 1
    /\ UNCHANGED <<stakingVars, running, confirmed, boots, history>>

Close ==
    /\ running
    /\ ProcessLoop
    /\ UNCHANGED <<stakingVars, running, confirmed, casts, boots, history>>

\* The clock runs up to its bound, and on for as long as a proposal is open.
Wait ==
    /\ \/ clock < MaxClock
       \/ \E i \in 1 .. Len(proposals) :
             proposals[i].Status = "voting" /\ clock <= proposals[i].EndTime
    /\ Hour
    /\ UNCHANGED <<stakingVars, governanceVars, running, confirmed, casts, boots, history>>

\* The process dies between two saves, or in the save of a transfer.
Die ==
    /\ running
    /\ boots < MaxBoots
    /\ \/ StateCrash /\ UNCHANGED damaged
       \/ /\ Len(txs) < MaxTxs
          /\ \E from \in DOMAIN accounts, to \in Address, amount \in Amounts, fee \in Fees,
                saving \in CrashSaves :
               /\ CrashInTransfer(from, to, amount, fee, accounts[from].Nonce + 1, saving)
               /\ damaged' = (damaged \/ saving = "torn")
    /\ StakingCrash /\ GovernanceCrash
    /\ running' = FALSE
    /\ casts' = 0
    /\ rewarded' = rewarded + TotalRewardsPaid
    /\ UNCHANGED <<confirmed, boots>>

LedgerNext ==
    \/ Start \/ Send \/ StakingStep \/ CreateBegin \/ CreateEnd \/ Cast \/ Close \/ Wait \/ Die

LedgerSpec == LedgerInit /\ [][LedgerNext]_ledgerVars

\* Time passes, calls in progress finish, and processLoop's ticker fires.
LedgerFairness ==
    WF_ledgerVars(Wait) /\ WF_ledgerVars(CreateEnd) /\ WF_ledgerVars(Close)

LedgerFairSpec == LedgerSpec /\ LedgerFairness

----------------------------------------------------------------------------
\* Every variable has its type.
LedgerTypeOK ==
    /\ DOMAIN accounts \subseteq Address
    /\ \A a \in DOMAIN accounts : accounts[a] \in Account
    /\ txs \in Seq(Transaction)
    /\ stateFile.readable \in BOOLEAN /\ stateFile.txs \in Seq(Transaction)
    /\ positions \in Seq(Position) /\ staking \in StakeCall \cup {NoCall}
    /\ proposals \in Seq(Proposal) /\ creating \in CreateCall \cup {NoCall}
    /\ {running, wrapped} \subseteq BOOLEAN
    /\ confirmed \subseteq Transaction
    /\ {clock, casts, boots} \subseteq Nat

\* All coins that somebody holds, has staked, has earned with a stake or has
\* deposited on an open proposal.
Held ==
    SumFunction([a \in DOMAIN accounts |-> accounts[a].Balance])
      + TotalStaked
      + SumFunction([i \in 1 .. Len(positions) |->
                        IF positions[i].IsActive THEN positions[i].TotalRewards ELSE 0])
      + SumFunction([i \in 1 .. Len(proposals) |->
                        IF proposals[i].Status = "voting" THEN proposals[i].Deposit ELSE 0])

\* The genesis amounts and the rewards that GetStats calls paid, without the
\* fees and the deposits that were not given back.  A negative fee, which no
\* handler refuses, issues coins.
Issued ==
    SumFunction(GenesisAmount)
      + TotalRewardsPaid
      - SumFunction([i \in 1 .. Len(txs) |-> txs[i].Fee])
      - SumFunction([i \in 1 .. Len(proposals) |->
                        IF proposals[i].Status \in {"rejected", "expired"}
                        THEN proposals[i].Deposit ELSE 0])

(***************************************************************************)
(* No coin appears or disappears in any interleaving of transfers, stakes, *)
(* rewards, proposals and refunds, although each keeper moves coins under  *)
(* a lock of its own and Stake and CreateProposal in two critical sections *)
(* of the accounts, and although the amounts, the fees and the balances    *)
(* after an overdraft may be negative: until the sum in an account is more *)
(* than an int64 holds and wraps around.                                   *)
(***************************************************************************)
SupplyIsAccounted == running /\ ~wrapped => Held = Issued

(***************************************************************************)
(* The nonce of an account counts the transfers in the log that it sent,   *)
(* and each of them carries its own: no signed request took effect twice,  *)
(* and none is missing from the log, across restarts too.                  *)
(***************************************************************************)
NoncesCountTransfers ==
    \A a \in DOMAIN accounts :
        LET sent == {i \in 1 .. Len(txs) : txs[i].From = a}
        IN  {txs[i].Nonce : i \in sent} = 1 .. accounts[a].Nonce
            /\ Cardinality(sent) = accounts[a].Nonce

(***************************************************************************)
(* No balance is negative: an amount is only deducted from an account that *)
(* has it ("Balance pruefen").                                             *)
(***************************************************************************)
NoOverdraft == \A a \in DOMAIN accounts : accounts[a].Balance >= 0

(***************************************************************************)
(* Deaths, restarts, failed and torn saves, and the panics on short        *)
(* addresses may lose coins (a stake lives in memory only while the next   *)
(* transfer saves the balance it was taken from; the id of a short owner   *)
(* panics between the deduction and the position), but never make any:     *)
(* whatever file a process starts from or fails to read, it holds at most  *)
(* what was issued, until the sum in an account wraps around.              *)
(***************************************************************************)
NoCoinsFromNothing == running /\ ~wrapped => Held <= Issued + rewarded

(***************************************************************************)
(* The transfer log, as a client sees it now or will see it after the next *)
(* start, is a log on disk as DurableLog describes it, with the transfers  *)
(* answered with success as the acknowledged ones: SignedTransfer saves    *)
(* before it answers, and no restart loses, repeats or reorders one, until *)
(* a save is cut short or fails or a start cannot read the file.           *)
(***************************************************************************)
TransferLog ==
    INSTANCE DurableLog WITH log    <- IF running THEN txs ELSE stateFile.txs,
                             acked  <- confirmed,
                             intact <- ~damaged

TransfersAreDurable == TransferLog!Spec

(***************************************************************************)
(* Interest is simple ("linear") however often and late rewardLoop and     *)
(* Unstake compute rewards: a position never earns more than its rate for  *)
(* the time it was held, but for the fraction by which float64 is off, and *)
(* what the repeated rounding down takes from it is less than one unit per *)
(* hour.  What PendingRewards answers for an active position is the part   *)
(* that is not credited yet.                                               *)
(***************************************************************************)
RewardsAreLinear ==
    \A i \in 1 .. Len(positions) :
        LET pos    == positions[i]
            hours  == (IF pos.IsActive THEN clock ELSE pos.LastReward) - pos.StartTime
            earned == pos.Amount * Rate[pos.IsGreen] * hours
        IN  ~wrapped => \A pending \in PendingRewards(i) :
                LET given == pos.TotalRewards + pending
                IN  /\ given * RateUnit * Fine <= earned * (Fine + 1)
                    /\ earned * (Fine - 1) < (given + hours + 1) * RateUnit * Fine

\* The power of a proposal's recorded votes for the options of a set.
PowerOf(p, options) ==
    SumFunction([i \in 1 .. Len(p.Votes) |->
                    IF p.Votes[i].Option \in options THEN p.Votes[i].Power ELSE 0])

(***************************************************************************)
(* The tallies that votes are added to and taken from are the sums, as     *)
(* uint64, of the votes on record, of which every voter has at most one,   *)
(* and a closed proposal has the outcome that its votes on record give it, *)
(* as long as they weigh no more than float64 can tell apart: the quorum   *)
(* is a third of QuorumSupply, not of the supply in circulation.           *)
(***************************************************************************)
OutcomeFollowsFromVotes ==
    \A id \in 1 .. Len(proposals) :
        LET p     == proposals[id]
            voted == PowerOf(p, VoteOption)
            yes   == PowerOf(p, {"yes"})
        IN  /\ \A o \in VoteOption \ {"other"} : p.Power[o] = ToUint64(PowerOf(p, {o}))
            /\ p.TotalPower = ToUint64(voted)
            /\ \A i, j \in 1 .. Len(p.Votes) : p.Votes[i].Voter = p.Votes[j].Voter => i = j
            /\ voted <= Exact =>
                 /\ p.Status = "passed" => voted * 100 >= 33 * QuorumSupply /\ 2 * yes > voted
                 /\ p.Status = "rejected" => voted * 100 >= 33 * QuorumSupply /\ 2 * yes <= voted
                 /\ p.Status = "expired" => voted * 100 < 33 * QuorumSupply

(***************************************************************************)
(* A proposal is open for its whole voting period, and once it is closed   *)
(* neither its status nor its votes change while the process lives.        *)
(***************************************************************************)
ClosedForGood ==
    [][running' =>
       \A id \in 1 .. Len(proposals) :
          LET p == proposals[id]
              q == proposals'[id]
          IN  /\ p.Status # q.Status => p.Status = "voting" /\ clock > p.EndTime
              /\ p.Status # "voting" => q = p]_ledgerVars

(***************************************************************************)
(* Every proposal is closed in the end, unless the process dies with it.   *)
(***************************************************************************)
VotingEnds ==
    \A id \in 1 .. MaxProposals :
        (id <= Len(proposals) /\ proposals[id].Status = "voting")
            ~> (~running \/ (id <= Len(proposals) /\ proposals[id].Status # "voting"))
=============================================================================
