------------------------------- MODULE Mining -------------------------------
(***************************************************************************)
(* Block rewards and the fee burn: x/nvx/keeper/mining.go, consensus.go    *)
(* and burn.go.  App.Run processes one block after the other; the handler  *)
(* of /mining calls GetStats, which runs checkHalving on the same          *)
(* unprotected HalvingState.  checkHalving is therefore taken apart into   *)
(* its loads and stores; the rest of a block, which only App.Run's thread  *)
(* writes, is one step.                                                    *)
(*                                                                         *)
(* The hash that picks the leader's slot is any slot.                      *)
(***************************************************************************)
EXTENDS Nuvex, Integers, Sequences, FiniteSets, FiniteSetsExt, Functions

CONSTANTS
    InitialBlockReward, BlocksPerHalving, MaxHalvings, MaxMineable,
    MaxSupply,   \* what NewBurnKeeper takes to be in circulation
    Validator,   \* ConsensusEngine.validators, a sequence
    Api,         \* the handlers of /mining that may run at the same time
    BlockFees,   \* what ProcessBlock may be told of the fees of a block
    MaxHeight,   \* bound on the block height
    MaxBoots     \* bound on the number of processes

ASSUME MiningAssumption ==
    /\ {InitialBlockReward, MaxHalvings, MaxMineable, MaxSupply} \subseteq Nat
    /\ BlocksPerHalving \in Nat \ {0}
    /\ Validator \in Seq([Address : Address, VotingPower : Nat,
                          IsActive : BOOLEAN, IsGreen : BOOLEAN])
    /\ Validator # <<>>
    /\ "run" \notin Api
    /\ BlockFees \subseteq Nat
    /\ MaxHeight \in Nat /\ MaxBoots \in Nat

VARIABLES
    halving,      \* HalvingState
    TotalMined,   \* HalvingState.TotalMined
    totalBurned, circulating,  \* BurnKeeper of the engine
    TotalEarned,  \* Validator.TotalEarned, by position
    Height,       \* App.Height
    call,         \* where each thread is in checkHalving
    paid,         \* the latest reward of this process: its block, its amount
                  \* without bonus, and how many it has paid with it
    fees,         \* all fees that ProcessBlock was told of
    boots,        \* processes started so far
    raced         \* whether a call of checkHalving has found another one at work

miningVars == <<halving, TotalMined, totalBurned, circulating, TotalEarned, Height,
                call, paid, fees, boots, raced>>

Thread == {"run"} \cup Api

\* checkHalving updates three fields, each by a load and a store.
Field == <<"CurrentReward", "CurrentEpoch", "NextHalvingBlock">>

Updated(field, x) ==
    CASE field = "CurrentReward"    -> x \div 2
      [] field = "CurrentEpoch"     -> x + 1
      [] field = "NextHalvingBlock" -> x + BlocksPerHalving

\* at "idle": no call; "check": the guards are next; "load", "store": field
\* f is next; "done": checkHalving has returned.
Idle == [at |-> "idle", height |-> 0, f |-> 1, reg |-> 0]

Entered(height) == [at |-> "check", height |-> height, f |-> 1, reg |-> 0]

Call == [at : {"idle", "check", "load", "store", "done"}, height : Nat, f : 1 .. 3, reg : Nat]

BurnAmount(fee) == (fee * 10) \div 10000

BurnFromFee(fee) ==
    /\ totalBurned' = totalBurned + BurnAmount(fee)
    /\ circulating' = circulating - BurnAmount(fee)

Power(i) == IF Validator[i].IsActive THEN Validator[i].VotingPower ELSE 0

\* The running sum of SelectLeader, over the validators up to place i.
PowerUpTo(i) == SumFunction([j \in 1 .. i |-> Power(j)])

TotalPower == PowerUpTo(Len(Validator))

\* Mutant of SelectLeader: a slot more for the first, one less for the last.
LeaderOffByOne(slot) ==
    IF TotalPower = 0 THEN 1
    ELSE Min({i \in 1 .. Len(Validator) :
                Validator[i].IsActive /\ slot <= PowerUpTo(i)})

\* The validator that owns a slot: the first one whose active predecessors
\* and itself have more power than the slot's number.
SelectLeader(slot) ==
    IF TotalPower = 0 THEN 1
    ELSE Min({i \in 1 .. Len(Validator) :
                Validator[i].IsActive /\ slot < PowerUpTo(i)})

Slots == IF TotalPower = 0 THEN {0} ELSE 0 .. TotalPower - 1

\* Mutant of BlockReward: the last reward is not cut to what is left.
BlockRewardUncut == IF TotalMined >= MaxMineable THEN 0 ELSE halving.CurrentReward

\* GetBlockReward, after its checkHalving.  Its two reads of CurrentReward,
\* without a store or a call between them, are one load in the build.
BlockReward ==
    IF TotalMined >= MaxMineable THEN 0
    ELSE IF MaxMineable - TotalMined < halving.CurrentReward THEN MaxMineable - TotalMined
    ELSE halving.CurrentReward

\* Mutant of Bonus: five percent instead of half a percent.
BonusTenfold(i, reward) == IF Validator[i].IsGreen THEN (reward * 5) \div 100 ELSE 0

Bonus(i, reward) == IF Validator[i].IsGreen THEN (reward * 5) \div 1000 ELSE 0

NewMiningKeeper ==
    [CurrentReward |-> InitialBlockReward, CurrentEpoch |-> 0,
     NextHalvingBlock |-> BlocksPerHalving]

NothingEarned == [i \in 1 .. Len(Validator) |-> 0]

NoThread == [t \in Thread |-> Idle]

NothingPaid == [height |-> 0, reward |-> InitialBlockReward, blocks |-> 0]

MiningInit ==
    /\ halving = NewMiningKeeper
    /\ TotalMined = 0
    /\ totalBurned = 0 /\ circulating = MaxSupply
    /\ TotalEarned = NothingEarned
    /\ Height = 0
    /\ call = NoThread
    /\ paid = NothingPaid
    /\ fees = 0
    /\ boots = 1
    /\ raced = FALSE

\* App.Run goes on to the next block, and ProcessBlock burns of its fees.
StartBlock(fee) ==
    /\ call["run"].at = "idle"
    /\ Height < MaxHeight
    /\ Height' = Height + 1
    /\ fees' = fees + fee
    /\ BurnFromFee(fee)
    /\ call' = [call EXCEPT !["run"] = Entered(Height + 1)]
    /\ UNCHANGED <<halving, TotalMined, TotalEarned, paid, boots, raced>>

\* GET /mining
GetStats(t) ==
    /\ call[t].at = "idle"
    /\ call' = [call EXCEPT ![t] = Entered(Height)]
    /\ UNCHANGED <<halving, TotalMined, totalBurned, circulating, TotalEarned, Height,
                   paid, fees, boots, raced>>

\* A call of checkHalving has decided to halve and has not done so yet.
AtWork == \E t \in Thread : call[t].at \in {"load", "store"}

\* Mutant of Check: the block of the halving itself is still paid in full.
CheckLate(t) ==
    /\ call[t].at = "check"
    /\ raced' = (raced \/ AtWork)
    /\ call' = [call EXCEPT ![t].at =
                  IF \/ call[t].height <= halving.NextHalvingBlock
                     \/ halving.CurrentEpoch >= MaxHalvings
                  THEN "done" ELSE "load"]
    /\ UNCHANGED halving

\* One step of checkHalving.
Check(t) ==
    /\ call[t].at = "check"
    /\ raced' = (raced \/ AtWork)
    /\ call' = [call EXCEPT ![t].at =
                  IF \/ call[t].height < halving.NextHalvingBlock
                     \/ halving.CurrentEpoch >= MaxHalvings
                  THEN "done" ELSE "load"]
    /\ UNCHANGED halving

LoadField(t) ==
    /\ call[t].at = "load"
    /\ call' = [call EXCEPT ![t] = [@ EXCEPT !.at = "store", !.reg = halving[Field[call[t].f]]]]
    /\ UNCHANGED <<halving, raced>>

AfterStore(c) ==
    IF c.f = 3 THEN [c EXCEPT !.at = "done"] ELSE [c EXCEPT !.at = "load", !.f = @ + 1]

StoreField(t) ==
    /\ call[t].at = "store"
    /\ LET field == Field[call[t].f]
       IN  halving' = [halving EXCEPT ![field] = Updated(field, call[t].reg)]
    /\ call' = [call EXCEPT ![t] = AfterStore(@)]
    /\ UNCHANGED raced

checkHalving(t) ==
    /\ Check(t) \/ LoadField(t) \/ StoreField(t)
    /\ UNCHANGED <<TotalMined, totalBurned, circulating, TotalEarned, Height,
                   paid, fees, boots>>

\* The rest of GetStats only reads.
Answer(t) ==
    /\ call[t].at = "done"
    /\ call' = [call EXCEPT ![t] = Idle]
    /\ UNCHANGED <<halving, TotalMined, totalBurned, circulating, TotalEarned, Height,
                   paid, fees, boots, raced>>

\* The rest of ProcessBlock: the reward, the bonus and the leader's earnings.
PayReward(slot) ==
    LET i == SelectLeader(slot)
    IN  /\ call["run"].at = "done"
        /\ TotalMined' = TotalMined + BlockReward
        /\ TotalEarned' = [j \in 1 .. Len(Validator) |->
                             IF Validator[j].Address = Validator[i].Address
                             THEN TotalEarned[j] + BlockReward + Bonus(i, BlockReward)
                             ELSE TotalEarned[j]]
        /\ paid' = [height |-> call["run"].height, reward |-> BlockReward,
                     blocks |-> paid.blocks + 1]
        /\ call' = [call EXCEPT !["run"] = Idle]
        /\ UNCHANGED <<halving, totalBurned, circulating, Height, fees, boots, raced>>

\* The process dies and another one starts at the height of its chain.  The
\* engine keeps nothing on disk.
Reboot(height) ==
    /\ boots < MaxBoots
    /\ boots' = boots + 1
    /\ halving' = NewMiningKeeper
    /\ TotalMined' = 0
    /\ totalBurned' = 0 /\ circulating' = MaxSupply
    /\ TotalEarned' = NothingEarned
    /\ Height' = height
    /\ call' = NoThread
    /\ fees' = 0
    /\ raced' = FALSE
    /\ paid' = NothingPaid

\* GetHalvingSchedule: the reward of an epoch, in whole units, and the epoch
\* of a block.
Scheduled(epoch) == InitialBlockReward \div 2 ^ epoch

Due(height) == Min({height \div BlocksPerHalving, MaxHalvings})

MiningNext ==
    \/ \E fee \in BlockFees : StartBlock(fee)
    \/ \E t \in Api : GetStats(t) \/ Answer(t)
    \/ \E t \in Thread : checkHalving(t)
    \/ \E slot \in Slots : PayReward(slot)
    \/ \E height \in 0 .. Height : Reboot(height)

MiningSpec == MiningInit /\ [][MiningNext]_miningVars

----------------------------------------------------------------------------
(***************************************************************************)
(* No process mines more than the pool, also while handlers halve the      *)
(* reward in the middle of a block.                                        *)
(***************************************************************************)
MinedWithinPool == TotalMined <= MaxMineable

(***************************************************************************)
(* Unless two calls of checkHalving met, the reward between two halvings   *)
(* is the initial one halved once per epoch, whichever thread halved it;   *)
(* and the first process pays each block what GetHalvingSchedule gives it. *)
(* A process that starts on a longer chain counts its halvings from zero:  *)
(* it makes up for at least one with each block, so that it pays too much  *)
(* for fewer blocks than there were halvings, and no block too little.     *)
(* Less than the schedule is paid only when the pool ends.                 *)
(***************************************************************************)
ScheduleIsKept ==
    ~raced =>
        /\ ~AtWork =>
              /\ halving.CurrentReward = Scheduled(halving.CurrentEpoch)
              /\ halving.NextHalvingBlock = (halving.CurrentEpoch + 1) * BlocksPerHalving
        /\ \E epoch \in Min({paid.blocks, Due(paid.height)}) .. Due(paid.height) :
              \/ paid.reward = Scheduled(epoch)
              \/ paid.reward < Scheduled(epoch) /\ TotalMined = MaxMineable

(***************************************************************************)
(* Whoever's slots the blocks fell into, what the validators earned is     *)
(* what was mined and at most half a percent more; what is burned is a     *)
(* thousandth of the fees, rounded down by less than one unit per block,   *)
(* and it is what is no longer in circulation.                             *)
(***************************************************************************)
EarningsAddUp ==
    LET earned == SumFunction(TotalEarned)
    IN  /\ TotalMined <= earned /\ earned * 1000 <= TotalMined * 1005
        /\ totalBurned * 1000 <= fees
        /\ fees <= totalBurned * 1000 + 999 * Height
        /\ circulating = MaxSupply - totalBurned

(***************************************************************************)
(* A validator leads as many slots as it has voting power while it is      *)
(* active, and none otherwise; so all that was ever earned went to         *)
(* addresses that have power.                                              *)
(***************************************************************************)
LeadsByPower ==
    TotalPower > 0 =>
        \A i \in 1 .. Len(Validator) :
            /\ Cardinality({slot \in Slots : SelectLeader(slot) = i}) = Power(i)
            /\ TotalEarned[i] > 0 =>
                  \E j \in 1 .. Len(Validator) :
                      Validator[j].Address = Validator[i].Address /\ Power(j) > 0
=============================================================================
