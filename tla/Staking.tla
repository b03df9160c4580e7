------------------------------ MODULE Staking ------------------------------
(***************************************************************************)
(* Staking (x/nvx/keeper/staking.go).  A stake is deducted from the owner's*)
(* account and kept in memory only.  Stake() reads the balance under the   *)
(* lock of the accounts, gives that lock back, and takes it again to       *)
(* deduct, so other keepers act in between; StakingKeeper.mu is held all   *)
(* along, so other staking operations do not.                              *)
(*                                                                         *)
(* Positions are numbered in the order of their creation (the code makes   *)
(* the id of the owner and the clock's nanoseconds).  Rewards are computed *)
(* in float64, whose results are off by a small fraction of themselves.    *)
(***************************************************************************)
EXTENDS StateKeeper

CONSTANTS
    MinStake,   \* the least amount of a position
    Rate,       \* Rate[green] / RateUnit: the reward of one unit in one hour
    RateUnit,
    Fine        \* what float64 makes of a reward is off by at most 1 / Fine of it

ASSUME StakingAssumption ==
    /\ MinStake \in Nat \ {0}
    /\ Rate \in [BOOLEAN -> Nat]
    /\ RateUnit \in Nat \ {0}
    /\ Fine \in Nat \ {0}

VARIABLES
    positions,  \* StakingKeeper.positions, by number
    staking     \* the call of Stake that has checked but not deducted

stakingVars == <<positions, staking>>

Position == [Owner : Address, Amount : Nat, StartTime : Nat, LastReward : Nat,
             TotalRewards : Nat, IsGreen : BOOLEAN, IsActive : BOOLEAN]

StakeCall == [owner : Address, amount : Nat, green : BOOLEAN]

\* What calculateRewards may find for the time since the last reward: the
\* product of amount, rate and time, give or take, rounded down.
rewards(pos) ==
    LET exact == pos.Amount * Rate[pos.IsGreen] * (clock - pos.LastReward)
    IN  (exact * (Fine - 1)) \div (RateUnit * Fine) .. (exact * (Fine + 1)) \div (RateUnit * Fine)

\* Mutant of calculateRewards: the time is not started anew.
RewardsFromStart(pos, reward) ==
    IF reward > 0 THEN [pos EXCEPT !.TotalRewards = ToUint64(@ + reward)] ELSE pos

\* The rest of calculateRewards: a reward that rounds to nothing leaves the
\* time to add up, any other starts it anew.
calculateRewards(pos, reward) ==
    IF reward > 0
    THEN [pos EXCEPT !.TotalRewards = ToUint64(@ + reward), !.LastReward = clock]
    ELSE pos

\* Whether the rewards of a position have room for one more.
RewardFits(pos, reward) == pos.TotalRewards + reward \in Uint64

StakingInit ==
    /\ positions = <<>>
    /\ staking = NoCall

StakeCheck(owner, amount, green) ==
    /\ staking = NoCall
    /\ amount >= MinStake
    /\ ToUint64(GetBalance(owner)) >= amount
    /\ staking' = [owner |-> owner, amount |-> amount, green |-> green]
    /\ UNCHANGED <<stateVars, positions>>

\* The rest of Stake.  Slicing a short owner for the id panics when the
\* amount is already deducted; the deferred unlock lets the keeper go on.
StakeDeduct ==
    /\ staking # NoCall
    /\ accounts' = Credit(accounts, staking.owner, -staking.amount)
    /\ positions' =
         IF staking.owner \in Short THEN positions
         ELSE Append(positions,
                     [Owner |-> staking.owner, Amount |-> staking.amount,
                      StartTime |-> clock, LastReward |-> clock, TotalRewards |-> 0,
                      IsGreen |-> staking.green, IsActive |-> TRUE])
    /\ staking' = NoCall
    /\ wrapped' = (wrapped \/ ~Fits(staking.owner, -staking.amount))
    /\ UNCHANGED <<txs, stateFile, clock>>

\* Mutant of Unstake: the position stays active.
UnstakeAgain(owner, id) ==
    /\ staking = NoCall
    /\ id \in 1 .. Len(positions)
    /\ positions[id].Owner = owner
    /\ positions[id].IsActive
    /\ \E reward \in rewards(positions[id]) :
          LET pos   == calculateRewards(positions[id], reward)
              total == pos.Amount + pos.TotalRewards
          IN  /\ accounts' = Credit(accounts, owner, total)
              /\ positions' = [positions EXCEPT ![id] = pos]
              /\ wrapped' = (wrapped \/ ~RewardFits(positions[id], reward) \/ ~Fits(owner, total))
    /\ UNCHANGED <<txs, stateFile, clock, staking>>

Unstake(owner, id) ==
    /\ staking = NoCall
    /\ id \in 1 .. Len(positions)
    /\ positions[id].Owner = owner
    /\ positions[id].IsActive
    /\ \E reward \in rewards(positions[id]) :
          LET pos   == calculateRewards(positions[id], reward)
              total == pos.Amount + pos.TotalRewards
          IN  /\ accounts' = Credit(accounts, owner, total)
              /\ positions' = [positions EXCEPT ![id] = [pos EXCEPT !.IsActive = FALSE]]
              /\ wrapped' = (wrapped \/ ~RewardFits(positions[id], reward) \/ ~Fits(owner, total))
    /\ UNCHANGED <<txs, stateFile, clock, staking>>

\* One round of rewardLoop.
RewardLoop ==
    /\ staking = NoCall
    /\ \E reward \in [1 .. Len(positions) ->
                        UNION {rewards(positions[i]) : i \in 1 .. Len(positions)}] :
          /\ \A i \in 1 .. Len(positions) : reward[i] \in rewards(positions[i])
          /\ positions' = [i \in 1 .. Len(positions) |->
                              IF positions[i].IsActive
                              THEN calculateRewards(positions[i], reward[i]) ELSE positions[i]]
          /\ wrapped' = (wrapped \/ \E i \in 1 .. Len(positions) :
                             positions[i].IsActive /\ ~RewardFits(positions[i], reward[i]))
    /\ UNCHANGED <<accounts, txs, stateFile, clock, staking>>

\* What a request for the pending rewards of a position may be answered.
PendingRewards(id) ==
    IF id \in 1 .. Len(positions) /\ positions[id].IsActive THEN rewards(positions[id]) ELSE {0}

\* The sums of GetStats.  The rewards it calls paid include those of active
\* positions, which are paid when the position is given up.
TotalStaked ==
    SumFunction([id \in 1 .. Len(positions) |->
                    IF positions[id].IsActive THEN positions[id].Amount ELSE 0])

TotalRewardsPaid ==
    SumFunction([id \in 1 .. Len(positions) |-> positions[id].TotalRewards])

StakingCrash ==
    /\ positions' = <<>>
    /\ staking' = NoCall
============================================================================
