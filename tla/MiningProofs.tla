---------------------------- MODULE MiningProofs ----------------------------
(***************************************************************************)
(* Theorems about block rewards, for any number of handlers that halve the *)
(* reward at the same time, any schedule, any list of validators and any   *)
(* number of restarts.  What the slots of SelectLeader add up to, and what *)
(* the validators have earned, are sums over finite sets: see SumLemmas.   *)
(***************************************************************************)
EXTENDS Mining, SumLemmas, FiniteSetTheorems, TLAPS

HalvingState == [CurrentReward : Nat, CurrentEpoch : Nat, NextHalvingBlock : Nat]

\* What the amount of a reward depends on.
MiningInv ==
    /\ halving \in HalvingState
    /\ call \in [Thread -> Call]
    /\ TotalMined \in Nat
    /\ MinedWithinPool

----------------------------------------------------------------------------
\* Each of the three updates makes a number of a number.
LEMMA UpdatedType ==
    ASSUME NEW f \in 1 .. 3, NEW x \in Nat
    PROVE  Updated(Field[f], x) \in Nat
  <1>1. CASE f = 1
    BY <1>1 DEF Updated, Field
  <1>2. CASE f = 2
    BY <1>2 DEF Updated, Field
  <1>3. CASE f = 3
    BY <1>3, MiningAssumption DEF Updated, Field
  <1>. QED  BY <1>1, <1>2, <1>3

\* A field that is loaded is a number, and storing one keeps the state typed.
LEMMA FieldType ==
    ASSUME NEW f \in 1 .. 3, NEW x \in Nat, halving \in HalvingState
    PROVE  /\ halving[Field[f]] \in Nat
           /\ [halving EXCEPT ![Field[f]] = x] \in HalvingState
  <1>1. CASE f = 1
    BY <1>1 DEF Field, HalvingState
  <1>2. CASE f = 2
    BY <1>2 DEF Field, HalvingState
  <1>3. CASE f = 3
    BY <1>3 DEF Field, HalvingState
  <1>. QED  BY <1>1, <1>2, <1>3

\* The reward of a block fits into what is left of the pool.
LEMMA RewardFits ==
    ASSUME MiningInv
    PROVE  BlockReward \in Nat /\ TotalMined + BlockReward <= MaxMineable
  <1>1. MaxMineable \in Nat /\ TotalMined \in Nat /\ halving.CurrentReward \in Nat
        /\ TotalMined <= MaxMineable
    BY MiningAssumption DEF MiningInv, HalvingState, MinedWithinPool
  <1>. QED  BY <1>1 DEF BlockReward

\* A thread enters checkHalving with a height.
LEMMA BegunType ==
    ASSUME NEW h \in Nat
    PROVE  Entered(h) \in Call
  BY DEF Entered, Call

LEMMA IdleType == NoThread \in [Thread -> Call] /\ Idle \in Call
  BY DEF NoThread, Idle, Call

LEMMA InitMiningInv == MiningInit => MiningInv
  <1>. SUFFICES ASSUME MiningInit PROVE MiningInv
    OBVIOUS
  <1>1. halving \in HalvingState
    BY MiningAssumption DEF MiningInit, NewMiningKeeper, HalvingState
  <1>2. call \in [Thread -> Call]
    BY IdleType DEF MiningInit
  <1>3. TotalMined \in Nat /\ MinedWithinPool
    BY MiningAssumption DEF MiningInit, MinedWithinPool
  <1>. QED  BY <1>1, <1>2, <1>3 DEF MiningInv

LEMMA StartBlockInv ==
    ASSUME MiningInv, Height \in Nat, NEW fee, StartBlock(fee)
    PROVE  MiningInv'
  <1>1. Entered(Height + 1) \in Call
    <2>1. Height + 1 \in Nat
      OBVIOUS
    <2>. QED  BY <2>1, BegunType
  <1>2. call' \in [Thread -> Call]
    BY <1>1 DEF StartBlock, MiningInv
  <1>. QED  BY <1>2 DEF StartBlock, MiningInv, MinedWithinPool

LEMMA GetStatsInv ==
    ASSUME MiningInv, Height \in Nat, NEW t \in Api, GetStats(t)
    PROVE  MiningInv'
  <1>1. Entered(Height) \in Call
    BY BegunType
  <1>2. call' \in [Thread -> Call]
    BY <1>1 DEF GetStats, MiningInv
  <1>. QED  BY <1>2 DEF GetStats, MiningInv, MinedWithinPool

LEMMA CheckHalvingInv ==
    ASSUME MiningInv, NEW t \in Thread, checkHalving(t)
    PROVE  MiningInv'
  <1>1. call[t] \in Call /\ call[t].f \in 1 .. 3 /\ call[t].reg \in Nat
    BY DEF MiningInv, Call
  <1>2. UNCHANGED TotalMined
    BY DEF checkHalving
  <1>3. CASE Check(t)
    <2>1. call' \in [Thread -> Call]
      BY <1>1, <1>3 DEF Check, MiningInv, Call
    <2>. QED  BY <1>2, <1>3, <2>1 DEF Check, MiningInv, MinedWithinPool
  <1>4. CASE LoadField(t)
    <2>1. halving[Field[call[t].f]] \in Nat
      BY <1>1, FieldType DEF MiningInv
    <2>2. call' \in [Thread -> Call]
      BY <1>1, <1>4, <2>1 DEF LoadField, MiningInv, Call
    <2>. QED  BY <1>2, <1>4, <2>2 DEF LoadField, MiningInv, MinedWithinPool
  <1>5. CASE StoreField(t)
    <2>1. Updated(Field[call[t].f], call[t].reg) \in Nat
      BY <1>1, UpdatedType
    <2>2. halving' \in HalvingState
      BY <1>1, <1>5, <2>1, FieldType DEF StoreField, MiningInv
    <2>3. call' \in [Thread -> Call]
      <3>1. [call[t] EXCEPT !.at = "done"] \in Call
        BY <1>1 DEF Call
      <3>2. ASSUME call[t].f # 3 PROVE [call[t] EXCEPT !.at = "load", !.f = @ + 1] \in Call
        <4>1. call[t].f + 1 \in 1 .. 3
          BY <1>1, <3>2
        <4>. QED  BY <1>1, <4>1 DEF Call
      <3>3. AfterStore(call[t]) \in Call
        BY <3>1, <3>2 DEF AfterStore
      <3>. QED  BY <1>5, <3>3 DEF StoreField, MiningInv
    <2>. QED  BY <1>2, <2>2, <2>3 DEF MiningInv, MinedWithinPool
  <1>. QED  BY <1>3, <1>4, <1>5 DEF checkHalving

LEMMA PayRewardInv ==
    ASSUME MiningInv, NEW slot, PayReward(slot)
    PROVE  MiningInv'
  <1>1. TotalMined' = TotalMined + BlockReward /\ UNCHANGED halving
    BY DEF PayReward
  <1>2. TotalMined' \in Nat /\ TotalMined' <= MaxMineable
    BY <1>1, RewardFits DEF MiningInv
  <1>3. call' \in [Thread -> Call]
    BY IdleType DEF PayReward, MiningInv
  <1>. QED  BY <1>1, <1>2, <1>3 DEF MiningInv, MinedWithinPool

LEMMA RebootInv ==
    ASSUME MiningInv, NEW height, Reboot(height)
    PROVE  MiningInv'
  <1>1. halving' \in HalvingState
    BY MiningAssumption DEF Reboot, NewMiningKeeper, HalvingState
  <1>2. call' \in [Thread -> Call]
    BY IdleType DEF Reboot
  <1>3. TotalMined' \in Nat /\ MinedWithinPool'
    BY MiningAssumption DEF Reboot, MinedWithinPool
  <1>. QED  BY <1>1, <1>2, <1>3 DEF MiningInv

\* The height is a number; nothing else is needed of it.
LEMMA HeightInv ==
    /\ MiningInit => Height \in Nat
    /\ Height \in Nat /\ [MiningNext]_miningVars => Height' \in Nat
  <1>1. MiningInit => Height \in Nat
    BY DEF MiningInit
  <1>2. ASSUME Height \in Nat, [MiningNext]_miningVars PROVE Height' \in Nat
    <2>1. CASE \E fee \in BlockFees : StartBlock(fee)
      BY <1>2, <2>1 DEF StartBlock
    <2>2. CASE \E t \in Api : GetStats(t) \/ Answer(t)
      BY <1>2, <2>2 DEF GetStats, Answer
    <2>3. CASE \E t \in Thread : checkHalving(t)
      BY <1>2, <2>3 DEF checkHalving
    <2>4. CASE \E slot \in Slots : PayReward(slot)
      BY <1>2, <2>4 DEF PayReward
    <2>5. CASE \E height \in 0 .. Height : Reboot(height)
      BY <1>2, <2>5 DEF Reboot
    <2>6. CASE UNCHANGED miningVars
      BY <1>2, <2>6 DEF miningVars
    <2>. QED  BY <1>2, <2>1, <2>2, <2>3, <2>4, <2>5, <2>6 DEF MiningNext
  <1>. QED  BY <1>1, <1>2

LEMMA NextMiningInv ==
    MiningInv /\ Height \in Nat /\ [MiningNext]_miningVars => MiningInv'
  <1>. SUFFICES ASSUME MiningInv, Height \in Nat, [MiningNext]_miningVars PROVE MiningInv'
    OBVIOUS
  <1>1. CASE \E fee \in BlockFees : StartBlock(fee)
    BY <1>1, StartBlockInv
  <1>2. ASSUME NEW t \in Api, Answer(t) PROVE MiningInv'
    <2>1. call' \in [Thread -> Call]
      BY <1>2, IdleType DEF Answer, MiningInv
    <2>. QED  BY <1>2, <2>1 DEF Answer, MiningInv, MinedWithinPool
  <1>3. CASE \E t \in Api : GetStats(t)
    BY <1>3, GetStatsInv
  <1>4. CASE \E t \in Thread : checkHalving(t)
    BY <1>4, CheckHalvingInv
  <1>5. CASE \E slot \in Slots : PayReward(slot)
    BY <1>5, PayRewardInv
  <1>6. CASE \E height \in 0 .. Height : Reboot(height)
    BY <1>6, RebootInv
  <1>7. CASE UNCHANGED miningVars
    BY <1>7 DEF miningVars, MiningInv, MinedWithinPool
  <1>. QED  BY <1>1, <1>2, <1>3, <1>4, <1>5, <1>6, <1>7 DEF MiningNext

----------------------------------------------------------------------------
(***************************************************************************)
(* No process mines more than the pool, whatever the schedule and however  *)
(* the unprotected halvings of the handlers of /mining are interleaved.    *)
(***************************************************************************)
THEOREM MinedWithinPoolCorrect == MiningSpec => []MinedWithinPool
  <1>1. MiningInit => MiningInv /\ Height \in Nat
    BY InitMiningInv, HeightInv
  <1>2. (MiningInv /\ Height \in Nat) /\ [MiningNext]_miningVars
          => (MiningInv /\ Height \in Nat)'
    BY NextMiningInv, HeightInv
  <1>3. MiningInv => MinedWithinPool
    BY DEF MiningInv
  <1>. QED  BY <1>1, <1>2, <1>3, PTL DEF MiningSpec

----------------------------------------------------------------------------
\* The number of validators and what they weigh.
LEMMA ValidatorTypes ==
  /\ Len(Validator) \in Nat \ {0}
  /\ \A i \in 1 .. Len(Validator) : Power(i) \in Nat
  <1>1. PICK V : V = [Address : Address, VotingPower : Nat, IsActive : BOOLEAN, IsGreen : BOOLEAN]
    OBVIOUS
  <1>2. Validator \in Seq(V) /\ Validator # <<>>
    BY <1>1, MiningAssumption
  <1>3. Len(Validator) \in Nat \ {0}
    BY <1>2
  <1>4. ASSUME NEW i \in 1 .. Len(Validator) PROVE Power(i) \in Nat
    <2>1. Validator[i] \in V
      BY <1>2
    <2>2. Validator[i].VotingPower \in Nat
      BY <1>1, <2>1
    <2>. QED  BY <2>2 DEF Power
  <1>. QED  BY <1>3, <1>4

Powers(i) == [j \in 1 .. i |-> Power(j)]

LEMMA PowerTerms ==
  ASSUME NEW i \in 0 .. Len(Validator)
  PROVE  /\ PowerUpTo(i) = SumFunctionOnSet(Powers(i), 1 .. i)
         /\ Terms(Powers(i), 1 .. i) /\ PowerUpTo(i) \in Nat
         /\ \A j \in 1 .. i : Powers(i)[j] = Power(j)
  <1>1. PICK f : f = Powers(i)
    OBVIOUS
  <1>2. PICK n \in Nat : n = i
    BY ValidatorTypes
  <1>3. \A j \in 1 .. n : f[j] = Power(j) /\ Power(j) \in Nat
    BY <1>1, <1>2, ValidatorTypes DEF Powers
  <1>4. IsFiniteSet(1 .. n)
    BY FS_Interval
  <1>5. Terms(f, 1 .. n) /\ \A j \in 1 .. n : f[j] >= 0
    BY <1>3, <1>4 DEF Terms
  <1>6. SumFunctionOnSet(f, 1 .. n) \in Nat
    BY <1>5, SumNat
  <1>7. PowerUpTo(i) = SumFunctionOnSet(f, 1 .. n)
    BY <1>1, <1>2 DEF PowerUpTo, SumFunction, Powers
  <1>. QED  BY <1>1, <1>2, <1>3, <1>5, <1>6, <1>7

LEMMA PowerOfFirst ==
  /\ PowerUpTo(0) = 0
  /\ \A i \in 1 .. Len(Validator) : PowerUpTo(i) = PowerUpTo(i - 1) + Power(i)
  <1>1. PowerUpTo(0) = 0
    <2>1. PICK f : f = Powers(0)
      OBVIOUS
    <2>2. 0 \in 0 .. Len(Validator) /\ 1 .. 0 = {}
      BY ValidatorTypes
    <2>3. PowerUpTo(0) = SumFunctionOnSet(f, {})
      BY <2>1, <2>2, PowerTerms
    <2>. QED  BY <2>3, SumEmpty
  <1>2. ASSUME NEW i \in 1 .. Len(Validator) PROVE PowerUpTo(i) = PowerUpTo(i - 1) + Power(i)
    <2>1. PICK n \in Nat : i = n + 1 /\ n = i - 1
      <3>1. i - 1 \in Nat /\ i = (i - 1) + 1
        BY ValidatorTypes
      <3>. QED  BY <3>1
    <2>2. n \in 0 .. Len(Validator) /\ n + 1 \in 0 .. Len(Validator)
      BY <2>1, ValidatorTypes
    <2>3. PICK f, g : f = Powers(n) /\ g = Powers(n + 1)
      OBVIOUS
    <2>4. /\ Terms(g, 1 .. n + 1) /\ \A j \in 1 .. n : f[j] = Power(j)
          /\ \A j \in 1 .. n + 1 : g[j] = Power(j)
          /\ PowerUpTo(n) = SumFunctionOnSet(f, 1 .. n)
          /\ PowerUpTo(n + 1) = SumFunctionOnSet(g, 1 .. n + 1)
      BY <2>2, <2>3, PowerTerms
    <2>5. \A j \in 1 .. n : f[j] = g[j]
      BY <2>4
    <2>6. SumFunctionOnSet(g, 1 .. n + 1) = SumFunctionOnSet(f, 1 .. n) + g[n + 1]
      BY <2>4, <2>5, SumOneMore
    <2>7. g[n + 1] = Power(n + 1)
      BY <2>4
    <2>. QED  BY <2>1, <2>4, <2>6, <2>7
  <1>. QED  BY <1>1, <1>2

\* The running sum never falls.
LEMMA PowerGrows ==
  ASSUME NEW i \in 0 .. Len(Validator), NEW j \in 0 .. Len(Validator), i <= j
  PROVE  PowerUpTo(i) <= PowerUpTo(j)
  <1>1. PICK f, g, h : /\ f = Powers(i) /\ g = Powers(j)
                       /\ h = [k \in 1 .. j |-> IF k \in 1 .. i THEN f[k] ELSE 0]
    OBVIOUS
  <1>2. PICK R, S : R = 1 .. i /\ S = 1 .. j
    OBVIOUS
  <1>3. i \in Nat /\ j \in Nat
    BY ValidatorTypes
  <1>4. R \in SUBSET S
    BY <1>2, <1>3
  <1>5. /\ Terms(f, R) /\ Terms(g, S)
        /\ PowerUpTo(i) = SumFunctionOnSet(f, R) /\ PowerUpTo(j) = SumFunctionOnSet(g, S)
        /\ \A k \in R : f[k] = Power(k)
        /\ \A k \in S : g[k] = Power(k)
    BY <1>1, <1>2, PowerTerms
  <1>6. Picks(f, h, R, S)
    BY <1>1, <1>2 DEF Picks
  <1>7. \A k \in S : Power(k) \in Nat
    BY <1>2, <1>3, ValidatorTypes
  <1>8. Terms(h, S) /\ NoMoreThan(h, g, S)
    <2>1. ASSUME NEW k \in S PROVE h[k] \in Int /\ h[k] <= g[k]
      <3>1. h[k] = IF k \in R THEN f[k] ELSE 0
        BY <1>6 DEF Picks
      <3>. QED  BY <1>5, <1>7, <3>1
    <2>. QED  BY <1>5, <2>1 DEF Terms, NoMoreThan
  <1>9. SumFunctionOnSet(h, S) = SumFunctionOnSet(f, R)
    BY <1>4, <1>5, <1>6, SumPicks DEF Terms
  <1>10. SumFunctionOnSet(h, S) <= SumFunctionOnSet(g, S)
    BY <1>5, <1>8, SumMonotone
  <1>. QED  BY <1>5, <1>9, <1>10

----------------------------------------------------------------------------
\* Min is the least element of a set of numbers.
LEMMA MinIsLeast ==
  ASSUME NEW T, T \subseteq Nat, T # {}
  PROVE  Min(T) \in T /\ \A y \in T : Min(T) <= y
  <1>1. \E m \in T : \A y \in T : m <= y
    BY LeastNumber
  <1>. QED  BY <1>1 DEF Min

\* The validators whose running sum is above a slot.
Above(slot) == {k \in 1 .. Len(Validator) : slot < PowerUpTo(k)}

LEMMA SlotTypes ==
  ASSUME TotalPower > 0
  PROVE  /\ TotalPower \in Nat /\ TotalPower = PowerUpTo(Len(Validator))
         /\ Slots = 0 .. TotalPower - 1
  <1>1. Len(Validator) \in 0 .. Len(Validator)
    BY ValidatorTypes
  <1>2. TotalPower \in Nat /\ TotalPower = PowerUpTo(Len(Validator))
    BY <1>1, PowerTerms DEF TotalPower
  <1>. QED  BY <1>2 DEF Slots

\* The leader of a slot is the one whose share of the sum the slot falls in.
LEMMA LeaderIs ==
  ASSUME TotalPower > 0, NEW slot \in Slots
  PROVE  LET i == SelectLeader(slot)
         IN  /\ i \in 1 .. Len(Validator) /\ Power(i) > 0
             /\ PowerUpTo(i - 1) <= slot /\ slot < PowerUpTo(i)
  <1>1. PICK n \in Nat \ {0} : n = Len(Validator)
    BY ValidatorTypes
  <1>2. PICK T, A : T = Above(slot) /\ A = {k \in 1 .. n : Validator[k].IsActive /\ slot < PowerUpTo(k)}
    OBVIOUS
  <1>3. slot \in Nat /\ slot < PowerUpTo(n)
    BY <1>1, SlotTypes
  <1>4. T \subseteq Nat /\ T # {}
    BY <1>1, <1>2, <1>3 DEF Above
  <1>5. PICK i : i \in T /\ \A y \in T : i <= y
    BY <1>4, LeastNumber
  <1>6. i \in 1 .. n /\ slot < PowerUpTo(i)
    BY <1>1, <1>2, <1>5 DEF Above
  <1>7. PowerUpTo(i - 1) <= slot /\ i - 1 \in 0 .. n /\ PowerUpTo(i - 1) \in Nat
    <2>1. i - 1 \in 0 .. n
      BY <1>6
    <2>2. PowerUpTo(i - 1) \in Nat
      BY <1>1, <2>1, PowerTerms
    <2>3. CASE i = 1
      <3>1. i - 1 = 0
        BY <2>3
      <3>. QED  BY <1>3, <2>1, <2>2, <3>1, PowerOfFirst
    <2>4. CASE i # 1
      <3>1. i - 1 \in 1 .. n /\ ~(i <= i - 1)
        BY <1>6, <2>4
      <3>2. i - 1 \notin T
        BY <1>5, <3>1
      <3>3. ~(slot < PowerUpTo(i - 1))
        BY <1>1, <1>2, <3>1, <3>2 DEF Above
      <3>. QED  BY <1>3, <2>1, <2>2, <3>3
    <2>. QED  BY <2>3, <2>4
  <1>8. Power(i) \in Nat /\ Power(i) > 0
    <2>1. PowerUpTo(i) = PowerUpTo(i - 1) + Power(i) /\ Power(i) \in Nat
      BY <1>1, <1>6, PowerOfFirst, ValidatorTypes
    <2>. QED  BY <1>3, <1>6, <1>7, <2>1
  <1>9. i \in A
    <2>1. Validator[i].IsActive
      BY <1>8 DEF Power
    <2>. QED  BY <1>2, <1>6, <2>1
  <1>10. A \subseteq T
    BY <1>1, <1>2 DEF Above
  <1>11. PICK k : k = Min(A)
    OBVIOUS
  <1>12. k \in A /\ \A y \in A : k <= y
    BY <1>4, <1>9, <1>10, <1>11, MinIsLeast
  <1>13. k = i
    <2>1. k <= i /\ i <= k /\ k \in Nat /\ i \in Nat
      BY <1>4, <1>5, <1>9, <1>10, <1>12
    <2>. QED  BY <2>1
  <1>14. SelectLeader(slot) = i
    BY <1>1, <1>2, <1>11, <1>13 DEF SelectLeader
  <1>. QED  BY <1>1, <1>6, <1>7, <1>8, <1>14

\* What is paid is paid to somebody.
LEMMA LeaderExists ==
  ASSUME NEW slot \in Slots
  PROVE  SelectLeader(slot) \in 1 .. Len(Validator)
  <1>1. CASE TotalPower = 0
    BY <1>1, ValidatorTypes DEF SelectLeader
  <1>2. CASE TotalPower # 0
    <2>1. Len(Validator) \in 0 .. Len(Validator)
      BY ValidatorTypes
    <2>2. TotalPower \in Nat
      BY <2>1, PowerTerms DEF TotalPower
    <2>3. TotalPower > 0
      BY <1>2, <2>2
    <2>. QED  BY <2>3, LeaderIs
  <1>. QED  BY <1>1, <1>2

LEMMA LeaderSlots ==
  ASSUME TotalPower > 0, NEW i \in 1 .. Len(Validator)
  PROVE  {slot \in Slots : SelectLeader(slot) = i} = PowerUpTo(i - 1) .. PowerUpTo(i) - 1
  <1>1. PICK n \in Nat : n = Len(Validator)
    BY ValidatorTypes
  <1>2. i - 1 \in 0 .. n /\ i \in 0 .. n /\ i \in Nat /\ n \in 0 .. n /\ i <= n
    BY <1>1
  <1>3. PICK lo \in Nat, hi \in Nat, top \in Nat :
            /\ lo = PowerUpTo(i - 1) /\ hi = PowerUpTo(i) /\ top = PowerUpTo(n)
    BY <1>1, <1>2, PowerTerms
  <1>4. hi <= top
    BY <1>1, <1>2, <1>3, PowerGrows
  <1>5. Slots = 0 .. top - 1
    BY <1>1, <1>3, SlotTypes
  <1>6. ASSUME NEW slot \in Slots, SelectLeader(slot) = i PROVE slot \in lo .. hi - 1
    <2>1. lo <= slot /\ slot < hi
      BY <1>3, <1>6, LeaderIs
    <2>. QED  BY <1>5, <2>1
  <1>7. ASSUME NEW slot \in lo .. hi - 1 PROVE slot \in Slots /\ SelectLeader(slot) = i
    <2>1. slot \in Slots
      BY <1>4, <1>5
    <2>2. PICK k : k = SelectLeader(slot)
      OBVIOUS
    <2>3. /\ k \in 1 .. n /\ PowerUpTo(k - 1) <= slot /\ slot < PowerUpTo(k)
      BY <1>1, <2>1, <2>2, LeaderIs
    <2>4. k - 1 \in 0 .. n /\ k \in 0 .. n
      BY <2>3
    <2>5. PowerUpTo(k - 1) \in Nat /\ PowerUpTo(k) \in Nat
      BY <1>1, <2>4, PowerTerms
    <2>6. ~(k < i)
      <3>. SUFFICES ASSUME k < i PROVE FALSE
        OBVIOUS
      <3>1. k <= i - 1
        BY <1>2, <2>3
      <3>2. PowerUpTo(k) <= lo
        BY <1>1, <1>2, <1>3, <2>4, <3>1, PowerGrows
      <3>. QED  BY <1>3, <2>3, <2>5, <3>2
    <2>7. ~(i < k)
      <3>. SUFFICES ASSUME i < k PROVE FALSE
        OBVIOUS
      <3>1. i <= k - 1
        BY <1>2, <2>3
      <3>2. hi <= PowerUpTo(k - 1)
        BY <1>1, <1>2, <1>3, <2>4, <3>1, PowerGrows
      <3>. QED  BY <1>3, <2>3, <2>5, <3>2
    <2>8. k = i
      BY <1>2, <2>3, <2>6, <2>7
    <2>. QED  BY <2>1, <2>2, <2>8
  <1>8. {slot \in Slots : SelectLeader(slot) = i} = lo .. hi - 1
    BY <1>6, <1>7
  <1>. QED  BY <1>3, <1>8

LEMMA LeadsItsShare ==
  ASSUME TotalPower > 0, NEW i \in 1 .. Len(Validator)
  PROVE  Cardinality({slot \in Slots : SelectLeader(slot) = i}) = Power(i)
  <1>1. i - 1 \in 0 .. Len(Validator) /\ i \in 0 .. Len(Validator)
    BY ValidatorTypes
  <1>2. PICK lo \in Nat, hi \in Nat, w \in Nat :
            lo = PowerUpTo(i - 1) /\ hi = PowerUpTo(i) /\ w = Power(i)
    BY <1>1, PowerTerms, ValidatorTypes
  <1>3. hi = lo + w
    BY <1>2, PowerOfFirst
  <1>4. PICK b \in Int : b = hi - 1
    OBVIOUS
  <1>5. Cardinality(lo .. b) = IF lo > b THEN 0 ELSE b - lo + 1
    BY FS_Interval
  <1>6. Cardinality(lo .. hi - 1) = w
    BY <1>2, <1>3, <1>4, <1>5
  <1>7. {slot \in Slots : SelectLeader(slot) = i} = lo .. hi - 1
    BY <1>2, LeaderSlots
  <1>. QED  BY <1>2, <1>6, <1>7

----------------------------------------------------------------------------
(***************************************************************************)
(* What was earned went to addresses that have power, and the books of the *)
(* burn are those of the fees.                                             *)
(***************************************************************************)
Earners ==
    TotalPower > 0 =>
        \A i \in 1 .. Len(Validator) : TotalEarned[i] > 0 =>
            \E j \in 1 .. Len(Validator) :
                Validator[j].Address = Validator[i].Address /\ Power(j) > 0

Burned ==
    /\ totalBurned \in Nat /\ fees \in Nat /\ circulating = MaxSupply - totalBurned
    /\ totalBurned * 1000 <= fees
    /\ fees <= totalBurned * 1000 + 999 * Height

EarningInv ==
    /\ Height \in Nat
    /\ TotalEarned \in [1 .. Len(Validator) -> Nat]
    /\ Earners
    /\ Burned

LEMMA BonusIs ==
  ASSUME NEW i, NEW reward \in Nat
  PROVE  Bonus(i, reward) \in Nat /\ Bonus(i, reward) * 1000 <= reward * 5
  <1>1. (reward * 5) \div 1000 \in Nat /\ ((reward * 5) \div 1000) * 1000 <= reward * 5
    OBVIOUS
  <1>. QED  BY <1>1 DEF Bonus

LEMMA BurnIs ==
  ASSUME NEW fee \in Nat
  PROVE  LET b == BurnAmount(fee)
         IN  b \in Nat /\ b * 1000 <= fee /\ fee <= b * 1000 + 999
  <1>1. PICK b : b = (fee * 10) \div 10000
    OBVIOUS
  <1>2. b \in Nat /\ b * 10000 <= fee * 10 /\ fee * 10 < b * 10000 + 10000
    BY <1>1
  <1>3. b * 1000 <= fee /\ fee <= b * 1000 + 999
    BY <1>2
  <1>. QED  BY <1>1, <1>2, <1>3 DEF BurnAmount

LEMMA NothingIsEarned ==
  /\ NothingEarned \in [1 .. Len(Validator) -> Nat]
  /\ \A i \in 1 .. Len(Validator) : NothingEarned[i] = 0
  BY DEF NothingEarned

LEMMA InitEarningInv == MiningInit => EarningInv
  <1>. SUFFICES ASSUME MiningInit PROVE EarningInv
    OBVIOUS
  <1>1. /\ TotalEarned = NothingEarned /\ Height = 0 /\ totalBurned = 0 /\ fees = 0
        /\ circulating = MaxSupply
    BY DEF MiningInit
  <1>2. Earners
    BY <1>1, NothingIsEarned DEF Earners
  <1>3. Burned
    BY <1>1, MiningAssumption DEF Burned
  <1>. QED  BY <1>1, <1>2, <1>3, NothingIsEarned DEF EarningInv

\* What a validator earns by a block.
LEMMA PaidOut ==
  ASSUME MiningInv, EarningInv, NEW slot \in Slots, PayReward(slot)
  PROVE  LET i == SelectLeader(slot)
             x == BlockReward + Bonus(i, BlockReward)
         IN  /\ i \in 1 .. Len(Validator) /\ x \in Nat
             /\ TotalEarned' \in [1 .. Len(Validator) -> Nat]
             /\ \A j \in 1 .. Len(Validator) :
                   TotalEarned'[j] = TotalEarned[j]
                     + (IF Validator[j].Address = Validator[i].Address THEN x ELSE 0)
  <1>1. PICK i, r : i = SelectLeader(slot) /\ r = BlockReward
    OBVIOUS
  <1>2. i \in 1 .. Len(Validator) /\ r \in Nat
    BY <1>1, LeaderExists, RewardFits
  <1>3. PICK b \in Nat : b = Bonus(i, r)
    BY <1>2, BonusIs
  <1>4. PICK next : next = TotalEarned'
    OBVIOUS
  <1>5. next = [j \in 1 .. Len(Validator) |->
                  IF Validator[j].Address = Validator[i].Address
                  THEN TotalEarned[j] + r + b ELSE TotalEarned[j]]
    BY <1>1, <1>3, <1>4 DEF PayReward
  <1>6. ASSUME NEW j \in 1 .. Len(Validator)
        PROVE  /\ next[j] \in Nat
               /\ next[j] = TotalEarned[j]
                    + (IF Validator[j].Address = Validator[i].Address THEN r + b ELSE 0)
    <2>1. PICK e \in Nat : e = TotalEarned[j]
      BY DEF EarningInv
    <2>. QED  BY <1>2, <1>5, <2>1
  <1>7. next \in [1 .. Len(Validator) -> Nat]
    BY <1>5, <1>6
  <1>. QED  BY <1>1, <1>2, <1>3, <1>4, <1>6, <1>7

LEMMA PaidEarners ==
  ASSUME MiningInv, EarningInv, NEW slot \in Slots, PayReward(slot)
  PROVE  EarningInv'
  <1>1. PICK i, x, next : /\ i = SelectLeader(slot) /\ x = BlockReward + Bonus(i, BlockReward)
                          /\ next = TotalEarned'
    OBVIOUS
  <1>2. /\ i \in 1 .. Len(Validator) /\ x \in Nat
        /\ next \in [1 .. Len(Validator) -> Nat]
        /\ \A j \in 1 .. Len(Validator) :
              next[j] = TotalEarned[j]
                + (IF Validator[j].Address = Validator[i].Address THEN x ELSE 0)
    BY <1>1, PaidOut
  <1>3. UNCHANGED <<Height, totalBurned, circulating, fees>>
    BY DEF PayReward
  <1>4. Earners'
    <2>. SUFFICES ASSUME TotalPower > 0, NEW k \in 1 .. Len(Validator), next[k] > 0
                  PROVE  \E j \in 1 .. Len(Validator) :
                            Validator[j].Address = Validator[k].Address /\ Power(j) > 0
      BY <1>1 DEF Earners, TotalPower, PowerUpTo, Power
    <2>1. CASE Validator[k].Address = Validator[i].Address
      <3>1. Power(i) > 0
        BY <1>1, LeaderIs
      <3>. QED  BY <1>2, <2>1, <3>1
    <2>2. CASE Validator[k].Address # Validator[i].Address
      <3>1. PICK e \in Nat : e = TotalEarned[k]
        BY DEF EarningInv
      <3>2. TotalEarned[k] > 0
        BY <1>2, <2>2, <3>1
      <3>. QED  BY <3>2 DEF EarningInv, Earners
    <2>. QED  BY <2>1, <2>2
  <1>5. Burned' /\ Height' \in Nat
    BY <1>3 DEF EarningInv, Burned
  <1>. QED  BY <1>1, <1>2, <1>4, <1>5 DEF EarningInv

LEMMA BurnedMore ==
  ASSUME EarningInv, NEW fee \in BlockFees, StartBlock(fee)
  PROVE  EarningInv'
  <1>1. PICK b, h, e, sum, burnt : /\ b = BurnAmount(fee) /\ h = Height /\ e = TotalEarned
                                   /\ sum = fees /\ burnt = totalBurned
    OBVIOUS
  <1>2. /\ h \in Nat /\ fee \in Nat /\ sum \in Nat /\ burnt \in Nat
        /\ burnt * 1000 <= sum /\ sum <= burnt * 1000 + 999 * h
        /\ circulating = MaxSupply - burnt
    BY <1>1, MiningAssumption DEF EarningInv, Burned
  <1>3. b \in Nat /\ b * 1000 <= fee /\ fee <= b * 1000 + 999
    BY <1>1, <1>2, BurnIs
  <1>4. /\ Height' = h + 1 /\ TotalEarned' = e /\ fees' = sum + fee
        /\ totalBurned' = burnt + b /\ circulating' = (MaxSupply - burnt) - b
    BY <1>1, <1>2 DEF StartBlock, BurnFromFee
  <1>5. Burned'
    <2>1. /\ burnt + b \in Nat /\ sum + fee \in Nat
          /\ (burnt + b) * 1000 <= sum + fee
          /\ sum + fee <= (burnt + b) * 1000 + 999 * (h + 1)
      BY <1>2, <1>3
    <2>2. (MaxSupply - burnt) - b = MaxSupply - (burnt + b)
      BY <1>2, <1>3, MiningAssumption
    <2>. QED  BY <1>4, <2>1, <2>2 DEF Burned
  <1>6. Earners'
    BY <1>1, <1>4 DEF EarningInv, Earners, TotalPower, PowerUpTo, Power
  <1>7. Height' \in Nat /\ TotalEarned' \in [1 .. Len(Validator) -> Nat]
    BY <1>1, <1>2, <1>4 DEF EarningInv
  <1>. QED  BY <1>5, <1>6, <1>7 DEF EarningInv

LEMMA BootEarners ==
  ASSUME EarningInv, NEW height \in 0 .. Height, Reboot(height)
  PROVE  EarningInv'
  <1>1. /\ TotalEarned' = NothingEarned /\ Height' = height /\ totalBurned' = 0 /\ fees' = 0
        /\ circulating' = MaxSupply
    BY DEF Reboot
  <1>2. height \in Nat
    BY DEF EarningInv
  <1>3. Earners'
    BY <1>1, NothingIsEarned DEF Earners, TotalPower, PowerUpTo, Power
  <1>4. Burned'
    BY <1>1, <1>2, MiningAssumption DEF Burned
  <1>. QED  BY <1>1, <1>2, <1>3, <1>4, NothingIsEarned DEF EarningInv

\* Steps that leave the books alone.
LEMMA SameEarners ==
  ASSUME EarningInv, UNCHANGED <<TotalEarned, Height, totalBurned, circulating, fees>>
  PROVE  EarningInv'
  BY DEF EarningInv, Earners, Burned, TotalPower, PowerUpTo, Power

LEMMA NextEarningInv ==
  MiningInv /\ EarningInv /\ [MiningNext]_miningVars => EarningInv'
  <1>. SUFFICES ASSUME MiningInv, EarningInv, [MiningNext]_miningVars PROVE EarningInv'
    OBVIOUS
  <1>1. CASE \E fee \in BlockFees : StartBlock(fee)
    BY <1>1, BurnedMore
  <1>2. CASE \E t \in Api : GetStats(t) \/ Answer(t)
    BY <1>2, SameEarners DEF GetStats, Answer
  <1>3. CASE \E t \in Thread : checkHalving(t)
    BY <1>3, SameEarners DEF checkHalving
  <1>4. CASE \E slot \in Slots : PayReward(slot)
    BY <1>4, PaidEarners
  <1>5. CASE \E height \in 0 .. Height : Reboot(height)
    BY <1>5, BootEarners
  <1>6. CASE UNCHANGED miningVars
    BY <1>6, SameEarners DEF miningVars
  <1>. QED  BY <1>1, <1>2, <1>3, <1>4, <1>5, <1>6 DEF MiningNext

(***************************************************************************)
(* A validator leads as many of the slots of SelectLeader as it has voting *)
(* power, and only addresses that have power ever earn anything.           *)
(***************************************************************************)
THEOREM LeadsByPowerCorrect == MiningSpec => []LeadsByPower
  <1>1. MiningInit => MiningInv /\ Height \in Nat /\ EarningInv
    BY InitMiningInv, HeightInv, InitEarningInv
  <1>2. (MiningInv /\ Height \in Nat /\ EarningInv) /\ [MiningNext]_miningVars
          => (MiningInv /\ Height \in Nat /\ EarningInv)'
    BY NextMiningInv, HeightInv, NextEarningInv
  <1>3. EarningInv => LeadsByPower
    BY LeadsItsShare DEF EarningInv, Earners, LeadsByPower
  <1>. QED  BY <1>1, <1>2, <1>3, PTL DEF MiningSpec

----------------------------------------------------------------------------
(***************************************************************************)
(* A reward is credited to every entry with the leader's address, so the   *)
(* books of the rewards add up where no address is listed twice.           *)
(***************************************************************************)
ListedOnce ==
    \A i, j \in 1 .. Len(Validator) : Validator[i].Address = Validator[j].Address => i = j

EarnedInv ==
    LET earned == SumFunction(TotalEarned)
    IN  earned \in Nat /\ TotalMined <= earned /\ earned * 1000 <= TotalMined * 1005

LEMMA EarnedIs ==
  ASSUME NEW e, e \in [1 .. Len(Validator) -> Nat]
  PROVE  /\ SumFunction(e) = SumFunctionOnSet(e, 1 .. Len(Validator))
         /\ Terms(e, 1 .. Len(Validator))
         /\ SumFunction(e) \in Nat
  <1>1. PICK n \in Nat : n = Len(Validator)
    BY ValidatorTypes
  <1>2. IsFiniteSet(1 .. n)
    BY FS_Interval
  <1>3. Terms(e, 1 .. n) /\ \A j \in 1 .. n : e[j] >= 0
    BY <1>1, <1>2 DEF Terms
  <1>4. SumFunctionOnSet(e, 1 .. n) \in Nat
    BY <1>3, SumNat
  <1>5. SumFunction(e) = SumFunctionOnSet(e, 1 .. n)
    BY <1>1 DEF SumFunction
  <1>. QED  BY <1>1, <1>3, <1>4, <1>5

LEMMA NothingAddsUp == SumFunction(NothingEarned) = 0
  <1>1. PICK e : e = NothingEarned
    OBVIOUS
  <1>2. /\ SumFunction(e) = SumFunctionOnSet(e, 1 .. Len(Validator))
        /\ Terms(e, 1 .. Len(Validator))
        /\ \A j \in 1 .. Len(Validator) : e[j] = 0
    BY <1>1, NothingIsEarned, EarnedIs
  <1>3. SumFunctionOnSet(e, 1 .. Len(Validator)) = 0
    BY <1>2, SumZero DEF Terms
  <1>. QED  BY <1>1, <1>2, <1>3

LEMMA PaidAddsUp ==
  ASSUME ListedOnce, MiningInv, EarningInv, EarnedInv, NEW slot \in Slots, PayReward(slot)
  PROVE  EarnedInv'
  <1>1. PICK i, b, r, e, next : /\ i = SelectLeader(slot) /\ r = BlockReward
                                /\ b = Bonus(i, r)
                                /\ e = TotalEarned /\ next = TotalEarned'
    OBVIOUS
  <1>2. r \in Nat /\ TotalMined' = TotalMined + r
    BY <1>1, RewardFits DEF PayReward
  <1>3. b \in Nat /\ b * 1000 <= r * 5
    BY <1>1, <1>2, BonusIs
  <1>4. PICK V : V = 1 .. Len(Validator)
    OBVIOUS
  <1>5. /\ i \in V /\ next \in [V -> Nat]
        /\ \A j \in V : next[j] = e[j] + (IF Validator[j].Address = Validator[i].Address
                                          THEN r + b ELSE 0)
    BY <1>1, <1>4, PaidOut
  <1>6. e \in [V -> Nat]
    BY <1>1, <1>4 DEF EarningInv
  <1>7. /\ SumFunction(e) = SumFunctionOnSet(e, V) /\ Terms(e, V) /\ SumFunction(e) \in Nat
    BY <1>4, <1>6, EarnedIs
  <1>8. /\ SumFunction(next) = SumFunctionOnSet(next, V) /\ Terms(next, V)
    BY <1>4, <1>5, EarnedIs
  <1>9. SameBut(e, next, V, i)
    <2>1. ASSUME NEW j \in V, j # i PROVE next[j] = e[j]
      <3>1. Validator[j].Address # Validator[i].Address
        BY <1>4, <1>5, <2>1 DEF ListedOnce
      <3>2. e[j] \in Nat
        BY <1>6
      <3>. QED  BY <1>5, <3>1, <3>2
    <2>. QED  BY <2>1 DEF SameBut
  <1>10. PICK s \in Nat, o \in Nat, m \in Nat : s = SumFunction(e) /\ o = e[i] /\ m = TotalMined
    BY <1>5, <1>6, <1>7 DEF MiningInv
  <1>11. next[i] = o + (r + b)
    BY <1>5, <1>10
  <1>12. SumFunction(next) = s - o + (o + (r + b))
    BY <1>5, <1>7, <1>8, <1>9, <1>10, <1>11, SumChange
  <1>13. SumFunction(next) = s + r + b
    BY <1>2, <1>3, <1>10, <1>12
  <1>14. m <= s /\ s * 1000 <= m * 1005
    BY <1>1, <1>10 DEF EarnedInv
  <1>15. /\ s + r + b \in Nat /\ m + r <= s + r + b
         /\ (s + r + b) * 1000 <= (m + r) * 1005
    BY <1>2, <1>3, <1>10, <1>14
  <1>. QED  BY <1>1, <1>2, <1>10, <1>13, <1>15 DEF EarnedInv

LEMMA NextEarnedInv ==
  ASSUME ListedOnce, MiningInv, EarningInv, EarnedInv, [MiningNext]_miningVars
  PROVE  EarnedInv'
  <1>1. ASSUME UNCHANGED <<TotalEarned, TotalMined>> PROVE EarnedInv'
    BY <1>1 DEF EarnedInv
  <1>2. CASE \E fee \in BlockFees : StartBlock(fee)
    BY <1>1, <1>2 DEF StartBlock
  <1>3. CASE \E t \in Api : GetStats(t) \/ Answer(t)
    BY <1>1, <1>3 DEF GetStats, Answer
  <1>4. CASE \E t \in Thread : checkHalving(t)
    BY <1>1, <1>4 DEF checkHalving
  <1>5. CASE \E slot \in Slots : PayReward(slot)
    BY <1>5, PaidAddsUp
  <1>6. CASE \E height \in 0 .. Height : Reboot(height)
    <2>1. TotalEarned' = NothingEarned /\ TotalMined' = 0
      BY <1>6 DEF Reboot
    <2>. QED  BY <2>1, NothingAddsUp DEF EarnedInv
  <1>7. CASE UNCHANGED miningVars
    BY <1>1, <1>7 DEF miningVars
  <1>. QED  BY <1>2, <1>3, <1>4, <1>5, <1>6, <1>7 DEF MiningNext

(***************************************************************************)
(* What the validators earned is what was mined and at most half a percent *)
(* more, and the burn keeps the books of the fees; SelectLeader is given a *)
(* list in which no address occurs twice.                                  *)
(***************************************************************************)
THEOREM EarningsAddUpCorrect ==
  ASSUME ListedOnce
  PROVE  MiningSpec => []EarningsAddUp
  <1>1. MiningInit => MiningInv /\ Height \in Nat /\ EarningInv /\ EarnedInv
    <2>1. MiningInit => EarnedInv
      BY NothingAddsUp DEF MiningInit, EarnedInv
    <2>. QED  BY <2>1, InitMiningInv, HeightInv, InitEarningInv
  <1>2. (MiningInv /\ Height \in Nat /\ EarningInv /\ EarnedInv) /\ [MiningNext]_miningVars
          => (MiningInv /\ Height \in Nat /\ EarningInv /\ EarnedInv)'
    BY NextMiningInv, HeightInv, NextEarningInv, NextEarnedInv
  <1>3. EarningInv /\ EarnedInv => EarningsAddUp
    BY DEF EarningInv, Burned, EarnedInv, EarningsAddUp
  <1>. QED  BY <1>1, <1>2, <1>3, PTL DEF MiningSpec

----------------------------------------------------------------------------
(***************************************************************************)
(* The halvings.  Between two of them the fields of HalvingState belong to *)
(* one epoch (stage 1); the thread that halves has updated the reward (2)  *)
(* and then the epoch (3) when its next field is the second or the third.  *)
(***************************************************************************)
StageOf(h, f) ==
    /\ h.CurrentReward = InitialBlockReward \div 2 ^ (IF f = 2 THEN h.CurrentEpoch + 1 ELSE h.CurrentEpoch)
    /\ h.NextHalvingBlock = (IF f = 3 THEN h.CurrentEpoch ELSE h.CurrentEpoch + 1) * BlocksPerHalving

Halves(t) == call[t].at \in {"load", "store"}

\* What a store makes of the fields.
LEMMA StoreMakes ==
  ASSUME NEW h \in HalvingState, NEW f \in 1 .. 3, StageOf(h, f)
  PROVE  LET g == [h EXCEPT ![Field[f]] = Updated(Field[f], h[Field[f]])]
         IN  /\ g \in HalvingState
             /\ f # 3 => StageOf(g, f + 1) /\ g.NextHalvingBlock = h.NextHalvingBlock
             /\ f = 3 => StageOf(g, 1) /\ g.NextHalvingBlock = h.NextHalvingBlock + BlocksPerHalving
             /\ g.CurrentEpoch = IF f = 2 THEN h.CurrentEpoch + 1 ELSE h.CurrentEpoch
  <1>1. PICK r \in Nat, e \in Nat, n \in Nat :
            /\ r = h.CurrentReward /\ e = h.CurrentEpoch /\ n = h.NextHalvingBlock
            /\ h = [CurrentReward |-> r, CurrentEpoch |-> e, NextHalvingBlock |-> n]
    BY DEF HalvingState
  <1>2. PICK g : g = [h EXCEPT ![Field[f]] = Updated(Field[f], h[Field[f]])]
    OBVIOUS
  <1>3. PICK B \in Nat, I \in Nat : B = BlocksPerHalving /\ I = InitialBlockReward
    BY MiningAssumption
  <1>4. /\ r = I \div 2 ^ (IF f = 2 THEN e + 1 ELSE e)
        /\ n = (IF f = 3 THEN e ELSE e + 1) * B
    BY <1>1, <1>3 DEF StageOf
  <1>6. CASE f = 1
    <2>1. g = [CurrentReward |-> r \div 2, CurrentEpoch |-> e, NextHalvingBlock |-> n]
      BY <1>1, <1>2, <1>6 DEF Field, Updated
    <2>2. PICK p \in Nat : p = 2 ^ e /\ p > 0 /\ 2 ^ (e + 1) = p * 2
      BY PowerOfTwo
    <2>3. r = I \div p
      BY <1>4, <1>6, <2>2
    <2>4. r \div 2 = I \div 2 ^ (e + 1)
      <3>1. (I \div p) \div 2 = I \div (p * 2)
        BY <2>2, QuotientTwice
      <3>. QED  BY <2>2, <2>3, <3>1
    <2>5. StageOf(g, 2)
      BY <1>3, <1>4, <1>6, <2>1, <2>4 DEF StageOf
    <2>6. r \div 2 \in Nat
      OBVIOUS
    <2>. QED  BY <1>1, <1>2, <1>6, <2>1, <2>5, <2>6 DEF HalvingState
  <1>7. CASE f = 2
    <2>1. g = [CurrentReward |-> r, CurrentEpoch |-> e + 1, NextHalvingBlock |-> n]
      BY <1>1, <1>2, <1>7 DEF Field, Updated
    <2>2. StageOf(g, 3)
      BY <1>3, <1>4, <1>7, <2>1 DEF StageOf
    <2>. QED  BY <1>1, <1>2, <1>7, <2>1, <2>2 DEF HalvingState
  <1>8. CASE f = 3
    <2>1. g = [CurrentReward |-> r, CurrentEpoch |-> e, NextHalvingBlock |-> n + B]
      BY <1>1, <1>2, <1>3, <1>8 DEF Field, Updated
    <2>2. n + B = (e + 1) * B
      BY <1>4, <1>8
    <2>3. StageOf(g, 1)
      BY <1>3, <1>4, <1>8, <2>1, <2>2 DEF StageOf
    <2>. QED  BY <1>1, <1>2, <1>3, <1>8, <2>1, <2>3 DEF HalvingState
  <1>. QED  BY <1>6, <1>7, <1>8

\* What NewMiningKeeper starts with.
LEMMA FirstStage == StageOf(NewMiningKeeper, 1)
  <1>1. PICK I \in Nat, B \in Nat : I = InitialBlockReward /\ B = BlocksPerHalving
    BY MiningAssumption
  <1>2. 2 ^ 0 = 1 /\ I \div 1 = I /\ (0 + 1) * B = B
    BY PowerOfTwo
  <1>. QED  BY <1>1, <1>2 DEF StageOf, NewMiningKeeper

(***************************************************************************)
(* Unless two calls met, at most one thread is at work, the fields are in  *)
(* the stage it has come to, and what it has loaded is still there.        *)
(***************************************************************************)
InStages ==
    /\ \A t \in Thread : call[t].at = "check" => call[t].f = 1
    /\ ~raced =>
          /\ \A t, u \in Thread : Halves(t) /\ Halves(u) => t = u
          /\ \A t \in Thread : Halves(t) =>
                /\ StageOf(halving, call[t].f)
                /\ call[t].at = "store" => call[t].reg = halving[Field[call[t].f]]
          /\ ~AtWork => StageOf(halving, 1)

(***************************************************************************)
(* Unless two calls met, nobody halves before the block of the halving.    *)
(***************************************************************************)
OnTime ==
    ~raced =>
        /\ \A t \in Thread : call[t].height <= Height
        /\ call["run"].at # "idle" => call["run"].height = Height
        /\ halving.CurrentEpoch <= MaxHalvings
        /\ halving.CurrentEpoch * BlocksPerHalving <= Height
        /\ \A t \in Thread : Halves(t) =>
              /\ halving.NextHalvingBlock <= Height
              /\ call[t].f # 3 => halving.CurrentEpoch < MaxHalvings

(***************************************************************************)
(* The halvings keep up with the blocks: e of them are as many as the k    *)
(* blocks of this process, or no other one is due at block h.  App.Run's   *)
(* thread, which stands at c, sees to that before it pays.                 *)
(***************************************************************************)
Reaches(k, e, h) == k <= e \/ h < (e + 1) * BlocksPerHalving \/ MaxHalvings <= e

Pursues(c, e, k, h) ==
    /\ c.at = "idle" => Reaches(k, e, h)
    /\ c.at = "check" => Reaches(k + 1, e + 1, h)
    /\ c.at \in {"load", "store"} => Reaches(k + 1, IF c.f = 3 THEN e ELSE e + 1, h)
    /\ c.at = "done" => Reaches(k + 1, e, h)

Pursued == ~raced => Pursues(call["run"], halving.CurrentEpoch, paid.blocks, Height)

Proceeds(pay, mined) ==
    \E epoch \in Min({pay.blocks, Due(pay.height)}) .. Due(pay.height) :
        \/ pay.reward = Scheduled(epoch)
        \/ pay.reward < Scheduled(epoch) /\ mined = MaxMineable

PaidAsScheduled == ~raced => Proceeds(paid, TotalMined)

ScheduleInv ==
    /\ raced \in BOOLEAN /\ Height \in Nat
    /\ paid.blocks \in Nat /\ paid.height \in Nat
    /\ MiningInv
    /\ InStages
    /\ OnTime
    /\ Pursued
    /\ PaidAsScheduled

LEMMA RunIsThread == "run" \in Thread
  BY DEF Thread

LEMMA CallTypes ==
  ASSUME MiningInv, NEW t \in Thread
  PROVE  /\ call[t] \in Call /\ call[t].f \in 1 .. 3 /\ call[t].height \in Nat
         /\ call[t].at \in {"idle", "check", "load", "store", "done"}
         /\ halving \in HalvingState
         /\ halving.CurrentEpoch \in Nat /\ halving.NextHalvingBlock \in Nat
         /\ halving.CurrentReward \in Nat
  BY DEF MiningInv, Call, HalvingState

\* One halving more keeps up with one block more.
LEMMA ReachesOn ==
  ASSUME NEW k \in Nat, NEW e \in Nat, NEW h \in Nat, Reaches(k, e, h)
  PROVE  Reaches(k + 1, e + 1, h + 1) /\ Reaches(k, e + 1, h)
  <1>1. PICK B \in Nat, x \in Nat : B = BlocksPerHalving /\ B > 0 /\ x = MaxHalvings
    BY MiningAssumption
  <1>2. k <= e \/ h < (e + 1) * B \/ x <= e
    BY <1>1 DEF Reaches
  <1>3. (e + 1 + 1) * B = (e + 1) * B + B
    BY <1>1
  <1>4. PICK n \in Nat : n = (e + 1) * B
    BY <1>1
  <1>5. /\ k + 1 <= e + 1 \/ h + 1 < n + B \/ x <= e + 1
        /\ k <= e + 1 \/ h < n + B \/ x <= e + 1
    BY <1>1, <1>2, <1>4
  <1>. QED  BY <1>1, <1>3, <1>4, <1>5 DEF Reaches

LEMMA PursuesOn ==
  ASSUME NEW c, NEW k \in Nat, NEW e \in Nat, NEW h \in Nat, Pursues(c, e, k, h),
         c.at \notin {"load", "store"}
  PROVE  Pursues(c, e + 1, k, h)
  <1>1. k + 1 \in Nat /\ e + 1 \in Nat
    OBVIOUS
  <1>2. ASSUME Reaches(k, e, h) PROVE Reaches(k, e + 1, h)
    BY <1>2, ReachesOn
  <1>3. PICK j \in Nat, d \in Nat : j = k + 1 /\ d = e + 1
    BY <1>1
  <1>4. ASSUME Reaches(j, e, h) PROVE Reaches(j, e + 1, h)
    BY <1>4, ReachesOn
  <1>5. ASSUME Reaches(j, d, h) PROVE Reaches(j, d + 1, h)
    BY <1>5, ReachesOn
  <1>. QED  BY <1>2, <1>3, <1>4, <1>5 DEF Pursues

\* The epoch that is due is the last one that has begun.
LEMMA DueIs ==
  ASSUME NEW h \in Nat
  PROVE  /\ Due(h) \in Nat
         /\ \A e \in Nat : e <= MaxHalvings /\ e * BlocksPerHalving <= h => e <= Due(h)
         /\ \A e \in Nat : h < (e + 1) * BlocksPerHalving \/ MaxHalvings <= e => Due(h) <= e
  <1>1. PICK B \in Nat, q \in Nat, x \in Nat :
            B = BlocksPerHalving /\ B > 0 /\ q = h \div B /\ x = MaxHalvings
    <2>1. PICK B \in Nat : B = BlocksPerHalving /\ B > 0
      BY MiningAssumption
    <2>2. h \div B \in Nat
      BY <2>1, Quotient
    <2>. QED  BY <2>1, <2>2, MiningAssumption
  <1>2. PICK T, d : T = {q, x} /\ d = Min(T)
    OBVIOUS
  <1>3. d \in T /\ \A y \in T : d <= y
    BY <1>2, MinIsLeast
  <1>4. Due(h) = d
    BY <1>1, <1>2 DEF Due
  <1>5. ASSUME NEW e \in Nat, e <= x, e * B <= h PROVE e <= d
    <2>1. B * e <= h
      BY <1>5
    <2>2. e <= q
      BY <1>1, <2>1, QuotientAtLeast
    <2>. QED  BY <1>2, <1>3, <1>5, <2>2
  <1>6. ASSUME NEW e \in Nat, h < (e + 1) * B \/ x <= e PROVE d <= e
    <2>1. d <= q /\ d <= x /\ d \in Nat
      BY <1>1, <1>2, <1>3
    <2>2. CASE h < (e + 1) * B
      <3>1. SUFFICES ASSUME e + 1 <= q PROVE FALSE
        BY <1>1, <2>1
      <3>2. B * q <= h
        BY <1>1, Quotient
      <3>3. B * (e + 1) <= B * q
        BY <1>1, <3>1
      <3>. QED  BY <1>1, <2>2, <3>2, <3>3
    <2>. QED  BY <1>1, <1>6, <2>1, <2>2
  <1>. QED  BY <1>1, <1>2, <1>3, <1>4, <1>5, <1>6

LEMMA ReachesDue ==
  ASSUME NEW k \in Nat, NEW e \in Nat, NEW h \in Nat, Reaches(k, e, h)
  PROVE  Min({k, Due(h)}) \in Nat /\ Min({k, Due(h)}) <= e
  <1>1. PICK d \in Nat : d = Due(h) /\ (h < (e + 1) * BlocksPerHalving \/ MaxHalvings <= e => d <= e)
    BY DueIs
  <1>2. PICK T, m : T = {k, d} /\ m = Min(T)
    OBVIOUS
  <1>3. m \in T /\ \A y \in T : m <= y
    BY <1>2, MinIsLeast
  <1>4. k <= e \/ d <= e
    BY <1>1 DEF Reaches
  <1>. QED  BY <1>1, <1>2, <1>3, <1>4

\* Before the first block of a process.
LEMMA NothingProceeds == ASSUME NEW mined PROVE Proceeds(NothingPaid, mined)
  <1>1. PICK d \in Nat : d = Due(0) /\ (0 < (0 + 1) * BlocksPerHalving => d <= 0)
    BY DueIs
  <1>2. PICK B \in Nat : B = BlocksPerHalving /\ B > 0
    BY MiningAssumption
  <1>3. d = 0
    BY <1>1, <1>2
  <1>4. PICK T, m : T = {0, d} /\ m = Min(T)
    OBVIOUS
  <1>5. m = 0
    BY <1>3, <1>4, MinIsLeast
  <1>6. 0 \in m .. d
    BY <1>3, <1>5
  <1>7. PICK I \in Nat : I = InitialBlockReward
    BY MiningAssumption
  <1>8. Scheduled(0) = I
    <2>1. I \div 1 = I
      OBVIOUS
    <2>. QED  BY <1>7, <2>1, PowerOfTwo DEF Scheduled
  <1>9. /\ NothingPaid.blocks = 0 /\ NothingPaid.height = 0
        /\ NothingPaid.reward = I
    BY <1>7 DEF NothingPaid
  <1>. QED  BY <1>1, <1>4, <1>6, <1>8, <1>9 DEF Proceeds

----------------------------------------------------------------------------
\* A thread that is not at work and does not begin to work is no matter.
LEMMA QuietStages ==
  ASSUME MiningInv, InStages, NEW t \in Thread, NEW c \in Call, ~Halves(t),
         call' = [call EXCEPT ![t] = c], c.at \notin {"load", "store"},
         c.at = "check" => c.f = 1, halving' = halving, ~raced' => ~raced
  PROVE  /\ InStages'
         /\ \A u \in Thread : Halves(u)' => Halves(u) /\ call'[u] = call[u]
         /\ AtWork' => AtWork
         /\ AtWork => AtWork'
  <1>1. PICK next : next = call'
    OBVIOUS
  <1>2. /\ call \in [Thread -> Call] /\ next[t] = c
        /\ \A u \in Thread : u # t => next[u] = call[u]
    BY <1>1 DEF MiningInv
  <1>3. \A u \in Thread : Halves(u)' => Halves(u) /\ next[u] = call[u]
    BY <1>1, <1>2 DEF Halves
  <1>4. \A u \in Thread : Halves(u) => Halves(u)'
    BY <1>1, <1>2 DEF Halves
  <1>5. (AtWork' => AtWork) /\ (AtWork => AtWork')
    BY <1>3, <1>4 DEF AtWork, Halves
  <1>6. \A u \in Thread : next[u].at = "check" => next[u].f = 1
    BY <1>2 DEF InStages
  <1>7. ASSUME ~raced'
        PROVE  /\ \A u, v \in Thread : Halves(u)' /\ Halves(v)' => u = v
               /\ \A u \in Thread : Halves(u)' =>
                     /\ StageOf(halving, next[u].f)
                     /\ next[u].at = "store" => next[u].reg = halving[Field[next[u].f]]
               /\ ~AtWork' => StageOf(halving, 1)
    BY <1>3, <1>5, <1>7 DEF InStages
  <1>8. InStages'
    BY <1>1, <1>6, <1>7 DEF InStages, StageOf
  <1>. QED  BY <1>1, <1>3, <1>5, <1>8

LEMMA InitScheduleInv == MiningInit => ScheduleInv
  <1>. SUFFICES ASSUME MiningInit PROVE ScheduleInv
    OBVIOUS
  <1>1. /\ call = NoThread /\ halving = NewMiningKeeper /\ raced = FALSE
        /\ Height = 0 /\ paid = NothingPaid
    BY DEF MiningInit
  <1>2. \A t \in Thread : ~Halves(t) /\ call[t].at = "idle" /\ call[t].height = 0
    BY <1>1 DEF Halves, NoThread, Idle
  <1>3. ~AtWork
    BY <1>2 DEF AtWork
  <1>4. InStages
    BY <1>1, <1>2, FirstStage DEF InStages
  <1>5. /\ halving.CurrentEpoch = 0 /\ MaxHalvings \in Nat /\ 0 <= MaxHalvings
        /\ 0 * BlocksPerHalving = 0 /\ 0 <= 0
    BY <1>1, MiningAssumption DEF NewMiningKeeper
  <1>6. OnTime
    BY <1>1, <1>2, <1>5, RunIsThread DEF OnTime
  <1>7. paid.blocks = 0 /\ paid.height = 0 /\ Pursued
    <2>1. paid.blocks = 0 /\ paid.height = 0
      BY <1>1 DEF NothingPaid
    <2>2. Reaches(0, 0, 0) /\ call["run"].at = "idle"
      BY <1>2, RunIsThread DEF Reaches
    <2>. QED  BY <1>1, <1>5, <2>1, <2>2 DEF Pursued, Pursues
  <1>8. PaidAsScheduled
    BY <1>1, NothingProceeds DEF PaidAsScheduled
  <1>9. raced \in BOOLEAN /\ Height \in Nat /\ 0 \in Nat
    BY <1>1
  <1>. QED  BY <1>4, <1>6, <1>7, <1>8, <1>9, InitMiningInv, Zenon DEF ScheduleInv

\* As long as nothing is paid and no process starts, what was paid is right.
LEMMA PaidStays ==
  ASSUME PaidAsScheduled, UNCHANGED <<paid, TotalMined>>, ~raced' => ~raced
  PROVE  PaidAsScheduled'
  BY DEF PaidAsScheduled, Proceeds, Due, Scheduled

LEMMA StartBlockSchedule ==
  ASSUME ScheduleInv, NEW fee, StartBlock(fee)
  PROVE  InStages' /\ OnTime' /\ Pursued' /\ PaidAsScheduled'
  <1>1. PICK c : c = Entered(Height + 1)
    OBVIOUS
  <1>2. /\ call["run"].at = "idle" /\ Height' = Height + 1
        /\ call' = [call EXCEPT !["run"] = c]
        /\ halving' = halving /\ raced' = raced
        /\ paid' = paid /\ TotalMined' = TotalMined
    BY <1>1 DEF StartBlock
  <1>3. PICK h, next : h \in Nat /\ h = Height /\ next = call'
    BY DEF ScheduleInv
  <1>4. /\ "run" \in Thread /\ ~Halves("run") /\ c \in Call
        /\ c.at = "check" /\ c.f = 1 /\ c.height = h + 1
    <2>1. h + 1 \in Nat /\ c = Entered(h + 1)
      BY <1>1, <1>3
    <2>. QED  BY <1>2, <2>1, RunIsThread, BegunType DEF Halves, Entered
  <1>5. /\ InStages'
        /\ \A u \in Thread : Halves(u)' => Halves(u) /\ next[u] = call[u]
    BY <1>2, <1>3, <1>4, QuietStages DEF ScheduleInv
  <1>6. PICK e \in Nat, n \in Nat, B \in Nat, k \in Nat :
            /\ e = halving.CurrentEpoch /\ n = halving.NextHalvingBlock /\ B = BlocksPerHalving
            /\ k = paid.blocks
    BY <1>4, CallTypes, MiningAssumption DEF ScheduleInv
  <1>7. /\ call \in [Thread -> Call] /\ next["run"] = c
        /\ \A u \in Thread : u # "run" => next[u] = call[u]
    BY <1>2, <1>3, <1>4 DEF ScheduleInv, MiningInv
  <1>8. ASSUME ~raced
        PROVE  /\ \A t \in Thread : next[t].height <= h + 1
               /\ next["run"].height = h + 1
               /\ e <= MaxHalvings /\ e * B <= h + 1
               /\ \A t \in Thread : Halves(t)' => n <= h + 1 /\ (next[t].f # 3 => e < MaxHalvings)
    <2>1. /\ \A t \in Thread : call[t].height <= h
          /\ e <= MaxHalvings /\ e * B <= h
          /\ \A t \in Thread : Halves(t) => n <= h /\ (call[t].f # 3 => e < MaxHalvings)
      BY <1>2, <1>3, <1>6, <1>8 DEF ScheduleInv, OnTime
    <2>2. \A t \in Thread : next[t].height <= h + 1
      <3>1. ASSUME NEW t \in Thread PROVE next[t].height <= h + 1
        <4>1. CASE t = "run"
          BY <1>3, <1>4, <1>7, <4>1
        <4>2. CASE t # "run"
          <5>1. PICK i \in Nat : i = call[t].height
            BY CallTypes DEF ScheduleInv
          <5>2. i <= h /\ next[t].height = i
            BY <1>7, <2>1, <4>2, <5>1
          <5>. QED  BY <1>3, <5>2
        <4>. QED  BY <4>1, <4>2
      <3>. QED  BY <3>1
    <2>3. e * B <= h + 1
      <3>1. PICK x \in Nat : x = e * B
        BY <1>6
      <3>. QED  BY <1>3, <2>1, <3>1
    <2>4. ASSUME NEW t \in Thread, Halves(t)'
          PROVE  n <= h + 1 /\ (next[t].f # 3 => e < MaxHalvings)
      <3>1. n <= h /\ (next[t].f # 3 => e < MaxHalvings)
        BY <1>5, <2>1, <2>4
      <3>. QED  BY <1>3, <1>6, <3>1
    <2>. QED  BY <1>4, <1>7, <2>1, <2>2, <2>3, <2>4
  <1>9. OnTime'
    BY <1>2, <1>3, <1>6, <1>8 DEF OnTime
  <1>10. Pursued'
    <2>1. ASSUME ~raced PROVE Reaches(k + 1, e + 1, h + 1)
      <3>1. Reaches(k, e, h)
        BY <1>2, <1>3, <1>6, <2>1 DEF ScheduleInv, Pursued, Pursues
      <3>. QED  BY <1>3, <1>6, <3>1, ReachesOn
    <2>2. ASSUME ~raced PROVE Pursues(c, e, k, h + 1)
      BY <1>4, <2>1, <2>2 DEF Pursues
    <2>. QED  BY <1>2, <1>3, <1>6, <1>7, <2>2 DEF Pursued
  <1>11. PaidAsScheduled'
    BY <1>2, PaidStays DEF ScheduleInv
  <1>. QED  BY <1>5, <1>9, <1>10, <1>11

\* A handler that enters or leaves checkHalving changes nothing.
LEMMA HandlerSchedule ==
  ASSUME ScheduleInv, NEW t \in Api, GetStats(t) \/ Answer(t)
  PROVE  InStages' /\ OnTime' /\ Pursued' /\ PaidAsScheduled'
  <1>1. PICK c \in Call : /\ call' = [call EXCEPT ![t] = c]
                          /\ c.at \in {"idle", "check"} /\ c.f = 1
                          /\ c.height <= Height
    <2>1. CASE GetStats(t)
      <3>1. PICK c : c = Entered(Height)
        OBVIOUS
      <3>2. c \in Call /\ c.at = "check" /\ c.f = 1 /\ c.height = Height /\ Height <= Height
        BY <3>1, BegunType DEF ScheduleInv, Entered
      <3>. QED  BY <2>1, <3>1, <3>2 DEF GetStats
    <2>2. CASE Answer(t)
      <3>1. Idle \in Call /\ Idle.at = "idle" /\ Idle.f = 1 /\ Idle.height <= Height
        BY IdleType DEF ScheduleInv, Idle
      <3>. QED  BY <2>2, <3>1 DEF Answer
    <2>. QED  BY <2>1, <2>2
  <1>2. call[t].at \in {"idle", "done"} /\ UNCHANGED <<halving, raced, paid, TotalMined, Height>>
    BY DEF GetStats, Answer
  <1>3. t \in Thread /\ t # "run" /\ "run" \in Thread
    BY MiningAssumption DEF Thread
  <1>4. PICK next : next = call'
    OBVIOUS
  <1>5. /\ InStages'
        /\ \A u \in Thread : Halves(u)' => Halves(u) /\ next[u] = call[u]
    <2>1. ~Halves(t)
      BY <1>2 DEF Halves
    <2>. QED  BY <1>1, <1>2, <1>3, <1>4, <2>1, QuietStages DEF ScheduleInv
  <1>6. /\ call \in [Thread -> Call] /\ next[t] = c
        /\ \A u \in Thread : u # t => next[u] = call[u]
        /\ next["run"] = call["run"]
    BY <1>1, <1>3, <1>4 DEF ScheduleInv, MiningInv
  <1>7. ASSUME ~raced PROVE \A u \in Thread : next[u].height <= Height
    BY <1>1, <1>6, <1>7 DEF ScheduleInv, OnTime
  <1>8. OnTime'
    BY <1>2, <1>4, <1>5, <1>6, <1>7 DEF ScheduleInv, OnTime
  <1>9. Pursued'
    BY <1>2, <1>4, <1>6 DEF ScheduleInv, Pursued
  <1>10. PaidAsScheduled'
    BY <1>2, PaidStays DEF ScheduleInv
  <1>. QED  BY <1>5, <1>8, <1>9, <1>10

(***************************************************************************)
(* The guards of checkHalving: whoever finds another one at work is noted, *)
(* and whoever begins to work is the only one.                             *)
(***************************************************************************)
LEMMA CheckSchedule ==
  ASSUME ScheduleInv, NEW t \in Thread, checkHalving(t), Check(t)
  PROVE  InStages' /\ OnTime' /\ Pursued' /\ PaidAsScheduled'
  <1>1. /\ call[t].at = "check" /\ call[t].f = 1 /\ ~Halves(t)
        /\ raced' = (raced \/ AtWork)
        /\ UNCHANGED <<halving, paid, TotalMined, Height>>
    BY DEF Check, checkHalving, ScheduleInv, InStages, Halves
  <1>2. PICK e \in Nat, n \in Nat, B \in Nat, h \in Nat, k \in Nat, x \in Nat, b \in Nat :
            /\ e = halving.CurrentEpoch /\ n = halving.NextHalvingBlock
            /\ B = BlocksPerHalving /\ h = Height /\ k = call[t].height /\ x = MaxHalvings
            /\ b = paid.blocks
    BY CallTypes, MiningAssumption DEF ScheduleInv
  <1>3. PICK c : c = [call[t] EXCEPT !.at = IF k < n \/ e >= x THEN "done" ELSE "load"]
    OBVIOUS
  <1>4. call' = [call EXCEPT ![t] = c]
    BY <1>2, <1>3 DEF Check
  <1>5. /\ c \in Call /\ c.f = 1 /\ c.height = k
        /\ c.at = IF k < n \/ e >= x THEN "done" ELSE "load"
    BY <1>1, <1>2, <1>3, CallTypes DEF ScheduleInv, Call
  <1>6. PICK next : next = call'
    OBVIOUS
  <1>7. /\ call \in [Thread -> Call] /\ next[t] = c
        /\ \A u \in Thread : u # t => next[u] = call[u]
        /\ "run" \in Thread
    BY <1>4, <1>6, RunIsThread DEF ScheduleInv, MiningInv
  <1>8. ASSUME ~raced' PROVE ~raced /\ ~AtWork /\ \A u \in Thread : ~Halves(u)
    BY <1>1, <1>8 DEF AtWork, Halves
  <1>9. ASSUME ~raced'
        PROVE  /\ \A u \in Thread : call[u].height <= h
               /\ call["run"].at # "idle" => call["run"].height = h
               /\ e <= x /\ e * B <= h /\ n = (e + 1) * B
    <2>1. StageOf(halving, 1)
      BY <1>8, <1>9 DEF ScheduleInv, InStages
    <2>2. n = (e + 1) * B
      BY <1>2, <2>1 DEF StageOf
    <2>. QED  BY <1>2, <1>8, <1>9, <2>2 DEF ScheduleInv, OnTime
  <1>10. \A u \in Thread : Halves(u)' => Halves(u) \/ (u = t /\ c.at = "load")
    BY <1>5, <1>6, <1>7 DEF Halves
  <1>11. OnTime'
    <2>1. ASSUME ~raced'
          PROVE  /\ \A u \in Thread : next[u].height <= h
                 /\ next["run"].at # "idle" => next["run"].height = h
                 /\ e <= x /\ e * B <= h
                 /\ \A u \in Thread : Halves(u)' => n <= h /\ e < x
      <3>1. \A u \in Thread : next[u].height <= h
        BY <1>2, <1>5, <1>7, <1>9, <2>1
      <3>2. next["run"].at # "idle" => next["run"].height = h
        <4>1. CASE t = "run"
          <5>1. next["run"].height = k /\ k = h
            BY <1>1, <1>2, <1>5, <1>7, <1>9, <2>1, <4>1
          <5>. QED  BY <5>1
        <4>2. CASE t # "run"
          BY <1>7, <1>9, <2>1, <4>2
        <4>. QED  BY <4>1, <4>2
      <3>3. ASSUME NEW u \in Thread, Halves(u)' PROVE n <= h /\ e < x
        <4>1. c.at = "load" /\ k <= h
          BY <1>2, <1>8, <1>9, <1>10, <2>1, <3>3
        <4>2. ~(k < n) /\ ~(e >= x)
          BY <1>5, <4>1
        <4>. QED  BY <1>2, <4>1, <4>2
      <3>. QED  BY <1>9, <2>1, <3>1, <3>2, <3>3
    <2>. QED  BY <1>1, <1>2, <1>6, <2>1 DEF OnTime
  <1>12. Pursued'
    <2>1. ASSUME ~raced' PROVE Pursues(next["run"], e, b, h)
      <3>1. Pursues(call["run"], e, b, h)
        BY <1>2, <1>8, <2>1 DEF ScheduleInv, Pursued
      <3>2. CASE t = "run"
        <4>1. Reaches(b + 1, e + 1, h) /\ k = h /\ n = (e + 1) * B
          BY <1>1, <1>2, <1>9, <2>1, <3>1, <3>2 DEF Pursues
        <4>2. CASE c.at = "done"
          <5>1. h < n \/ x <= e
            BY <1>2, <1>5, <4>1, <4>2
          <5>2. Reaches(b + 1, e, h)
            BY <1>2, <4>1, <5>1 DEF Reaches
          <5>. QED  BY <1>7, <3>2, <4>2, <5>2 DEF Pursues
        <4>3. CASE c.at = "load"
          BY <1>5, <1>7, <3>2, <4>1, <4>3 DEF Pursues
        <4>. QED  BY <1>5, <4>2, <4>3
      <3>3. CASE t # "run"
        BY <1>7, <3>1, <3>3
      <3>. QED  BY <3>2, <3>3
    <2>. QED  BY <1>1, <1>2, <1>6, <2>1 DEF Pursued
  <1>13. PaidAsScheduled'
    BY <1>1, <1>8, PaidStays DEF ScheduleInv
  <1>14. InStages'
    <2>1. CASE c.at = "done"
      BY <1>1, <1>4, <1>5, <1>6, <1>8, <2>1, QuietStages DEF ScheduleInv
    <2>2. CASE c.at = "load"
      <3>1. Halves(t)' /\ AtWork'
        BY <1>6, <1>7, <2>2 DEF Halves, AtWork
      <3>2. \A u \in Thread : next[u].at = "check" => next[u].f = 1
        BY <1>5, <1>7 DEF ScheduleInv, InStages
      <3>3. ASSUME ~raced'
            PROVE  /\ \A u, v \in Thread : Halves(u)' /\ Halves(v)' => u = v
                   /\ \A u \in Thread : Halves(u)' =>
                         /\ StageOf(halving, next[u].f)
                         /\ next[u].at = "store" => next[u].reg = halving[Field[next[u].f]]
        <4>1. StageOf(halving, 1) /\ \A u \in Thread : Halves(u)' => u = t
          BY <1>8, <1>10, <3>3 DEF ScheduleInv, InStages
        <4>. QED  BY <1>5, <1>7, <2>2, <4>1
      <3>. QED  BY <1>1, <1>6, <3>1, <3>2, <3>3 DEF InStages, StageOf
    <2>. QED  BY <1>5, <2>1, <2>2
  <1>. QED  BY <1>11, <1>12, <1>13, <1>14

\* Loading a field keeps its value at hand.
LEMMA LoadSchedule ==
  ASSUME ScheduleInv, NEW t \in Thread, checkHalving(t), LoadField(t)
  PROVE  InStages' /\ OnTime' /\ Pursued' /\ PaidAsScheduled'
  <1>1. PICK c : c = [call[t] EXCEPT !.at = "store", !.reg = halving[Field[call[t].f]]]
    OBVIOUS
  <1>2. /\ call[t].at = "load" /\ Halves(t) /\ call' = [call EXCEPT ![t] = c]
        /\ UNCHANGED <<halving, raced, paid, TotalMined, Height>>
    BY <1>1 DEF LoadField, checkHalving, Halves
  <1>3. /\ c.at = "store" /\ c.f = call[t].f /\ c.height = call[t].height
        /\ c.reg = halving[Field[c.f]]
    BY <1>1, CallTypes DEF ScheduleInv, Call
  <1>4. PICK next : next = call'
    OBVIOUS
  <1>5. /\ next[t] = c /\ "run" \in Thread
        /\ \A u \in Thread : u # t => next[u] = call[u]
    BY <1>2, <1>4, RunIsThread DEF ScheduleInv, MiningInv
  <1>6. /\ \A u \in Thread : Halves(u)' => Halves(u)
        /\ \A u \in Thread : Halves(u) => Halves(u)'
    BY <1>2, <1>3, <1>4, <1>5 DEF Halves
  <1>7. (AtWork' => AtWork) /\ (AtWork => AtWork')
    BY <1>6 DEF AtWork, Halves
  <1>8. \A u \in Thread : next[u].f = call[u].f /\ next[u].height = call[u].height
    BY <1>3, <1>5
  <1>9. InStages'
    <2>1. \A u \in Thread : next[u].at = "check" => next[u].f = 1
      BY <1>3, <1>5 DEF ScheduleInv, InStages
    <2>2. ASSUME ~raced
          PROVE  /\ \A u, v \in Thread : Halves(u)' /\ Halves(v)' => u = v
                 /\ \A u \in Thread : Halves(u)' =>
                       /\ StageOf(halving, next[u].f)
                       /\ next[u].at = "store" => next[u].reg = halving[Field[next[u].f]]
                 /\ ~AtWork' => StageOf(halving, 1)
      <3>1. \A u, v \in Thread : Halves(u)' /\ Halves(v)' => u = v
        BY <1>6, <2>2 DEF ScheduleInv, InStages
      <3>2. \A u \in Thread : Halves(u)' => StageOf(halving, next[u].f)
        BY <1>6, <1>8, <2>2 DEF ScheduleInv, InStages
      <3>3. ASSUME NEW u \in Thread, Halves(u)', next[u].at = "store"
            PROVE  next[u].reg = halving[Field[next[u].f]]
        <4>1. u = t
          BY <1>2, <1>6, <2>2, <3>3 DEF ScheduleInv, InStages
        <4>. QED  BY <1>3, <1>5, <4>1
      <3>4. ~AtWork' => StageOf(halving, 1)
        BY <1>7, <2>2 DEF ScheduleInv, InStages
      <3>. QED  BY <3>1, <3>2, <3>3, <3>4
    <2>. QED  BY <1>2, <1>4, <2>1, <2>2 DEF InStages, StageOf
  <1>10. OnTime'
    <2>1. ASSUME ~raced
          PROVE  /\ \A u \in Thread : next[u].height <= Height
                 /\ next["run"].at # "idle" => next["run"].height = Height
                 /\ \A u \in Thread : Halves(u)' =>
                       /\ halving.NextHalvingBlock <= Height
                       /\ next[u].f # 3 => halving.CurrentEpoch < MaxHalvings
      <3>1. \A u \in Thread : next[u].height <= Height
        BY <1>8, <2>1 DEF ScheduleInv, OnTime
      <3>2. next["run"].at # "idle" => call["run"].at # "idle"
        BY <1>2, <1>5
      <3>3. next["run"].at # "idle" => next["run"].height = Height
        BY <1>5, <1>8, <2>1, <3>2 DEF ScheduleInv, OnTime
      <3>. QED  BY <1>6, <1>8, <2>1, <3>1, <3>3 DEF ScheduleInv, OnTime
    <2>. QED  BY <1>2, <1>4, <2>1 DEF ScheduleInv, OnTime
  <1>11. Pursued'
    <2>1. ASSUME ~raced
          PROVE  Pursues(next["run"], halving.CurrentEpoch, paid.blocks, Height)
      <3>1. Pursues(call["run"], halving.CurrentEpoch, paid.blocks, Height)
        BY <2>1 DEF ScheduleInv, Pursued
      <3>2. CASE t = "run"
        BY <1>2, <1>3, <1>5, <3>1, <3>2 DEF Pursues
      <3>3. CASE t # "run"
        BY <1>5, <3>1, <3>3
      <3>. QED  BY <3>2, <3>3
    <2>. QED  BY <1>2, <1>4, <2>1 DEF Pursued
  <1>12. PaidAsScheduled'
    BY <1>2, PaidStays DEF ScheduleInv
  <1>. QED  BY <1>9, <1>10, <1>11, <1>12

\* Storing a field brings the fields to the next stage; after the last one
\* the next halving is ahead.
LEMMA StoreSchedule ==
  ASSUME ScheduleInv, NEW t \in Thread, checkHalving(t), StoreField(t)
  PROVE  InStages' /\ OnTime' /\ Pursued' /\ PaidAsScheduled'
  <1>1. PICK f, c, g : /\ f \in 1 .. 3 /\ f = call[t].f /\ c = AfterStore(call[t])
                      /\ g = [halving EXCEPT ![Field[f]] = Updated(Field[f], call[t].reg)]
    BY CallTypes DEF ScheduleInv
  <1>2. /\ call[t].at = "store" /\ Halves(t) /\ call' = [call EXCEPT ![t] = c] /\ halving' = g
        /\ UNCHANGED <<raced, paid, TotalMined, Height>>
    BY <1>1 DEF StoreField, checkHalving, Halves, ScheduleInv, MiningInv
  <1>3. /\ c.height = call[t].height
        /\ f = 3 => c.at = "done" /\ c.f = 3
        /\ f # 3 => c.at = "load" /\ c.f = f + 1
    BY <1>1, CallTypes DEF ScheduleInv, Call, AfterStore
  <1>4. PICK next : next = call'
    OBVIOUS
  <1>5. /\ next[t] = c /\ "run" \in Thread
        /\ \A u \in Thread : u # t => next[u] = call[u]
    BY <1>2, <1>4, RunIsThread DEF ScheduleInv, MiningInv
  <1>6. \A u \in Thread : next[u].height = call[u].height
    BY <1>3, <1>5
  <1>7. ASSUME ~raced
        PROVE  /\ StageOf(halving, f) /\ \A u \in Thread : Halves(u) => u = t
               /\ \A u \in Thread : Halves(u)' => u = t
               /\ f # 3 => AtWork' /\ StageOf(g, f + 1) /\ g.NextHalvingBlock = halving.NextHalvingBlock
               /\ f = 3 => /\ StageOf(g, 1) /\ ~AtWork' /\ \A u \in Thread : ~Halves(u)'
                           /\ g.NextHalvingBlock = halving.NextHalvingBlock + BlocksPerHalving
               /\ g.CurrentEpoch = IF f = 2 THEN halving.CurrentEpoch + 1 ELSE halving.CurrentEpoch
    <2>1. /\ StageOf(halving, f) /\ call[t].reg = halving[Field[f]]
          /\ \A u \in Thread : Halves(u) => u = t
      BY <1>1, <1>2, <1>7 DEF ScheduleInv, InStages
    <2>2. PICK h : h = halving /\ h \in HalvingState
      BY DEF ScheduleInv, MiningInv
    <2>3. StageOf(h, f) /\ g = [h EXCEPT ![Field[f]] = Updated(Field[f], h[Field[f]])]
      BY <1>1, <2>1, <2>2
    <2>4. /\ f # 3 => StageOf(g, f + 1) /\ g.NextHalvingBlock = h.NextHalvingBlock
          /\ f = 3 => StageOf(g, 1) /\ g.NextHalvingBlock = h.NextHalvingBlock + BlocksPerHalving
          /\ g.CurrentEpoch = IF f = 2 THEN h.CurrentEpoch + 1 ELSE h.CurrentEpoch
      <3>1. f \in 1 .. 3 /\ h \in HalvingState
        BY <1>1, <2>2
      <3>. QED  BY <2>3, <3>1, StoreMakes
    <2>5. \A u \in Thread : Halves(u)' => u = t
      BY <1>4, <1>5, <2>1 DEF Halves
    <2>6. f # 3 => AtWork'
      BY <1>3, <1>4, <1>5 DEF AtWork
    <2>7. f = 3 => ~AtWork' /\ \A u \in Thread : ~Halves(u)'
      BY <1>3, <1>4, <1>5, <2>5 DEF AtWork, Halves
    <2>. QED  BY <2>1, <2>2, <2>4, <2>5, <2>6, <2>7
  <1>8. InStages'
    <2>1. \A u \in Thread : next[u].at = "check" => next[u].f = 1
      BY <1>3, <1>5 DEF ScheduleInv, InStages
    <2>2. ASSUME ~raced
          PROVE  /\ \A u, v \in Thread : Halves(u)' /\ Halves(v)' => u = v
                 /\ \A u \in Thread : Halves(u)' =>
                       StageOf(g, next[u].f) /\ next[u].at # "store"
                 /\ ~AtWork' => StageOf(g, 1)
      <3>1. \A u, v \in Thread : Halves(u)' /\ Halves(v)' => u = v
        BY <1>7, <2>2
      <3>2. ASSUME NEW u \in Thread, Halves(u)'
            PROVE  StageOf(g, next[u].f) /\ next[u].at # "store"
        <4>1. u = t /\ f # 3
          BY <1>7, <2>2, <3>2
        <4>. QED  BY <1>3, <1>5, <1>7, <2>2, <4>1
      <3>. QED  BY <1>7, <2>2, <3>1, <3>2
    <2>. QED  BY <1>2, <1>4, <2>1, <2>2 DEF InStages, StageOf
  <1>9. PICK e \in Nat, n \in Nat, B \in Nat, h \in Nat, x \in Nat, b \in Nat :
            /\ e = halving.CurrentEpoch /\ n = halving.NextHalvingBlock
            /\ B = BlocksPerHalving /\ B > 0 /\ h = Height /\ x = MaxHalvings /\ b = paid.blocks
    <2>1. halving.CurrentEpoch \in Nat /\ halving.NextHalvingBlock \in Nat
      BY <1>5, CallTypes DEF ScheduleInv
    <2>2. /\ Height \in Nat /\ paid.blocks \in Nat /\ BlocksPerHalving \in Nat /\ BlocksPerHalving > 0
          /\ MaxHalvings \in Nat
      BY MiningAssumption DEF ScheduleInv
    <2>. QED  BY <2>1, <2>2
  <1>10. ASSUME ~raced
         PROVE  /\ \A u \in Thread : call[u].height <= h
                /\ call["run"].at # "idle" => call["run"].height = h
                /\ e <= x /\ e * B <= h /\ n <= h /\ (f # 3 => e < x)
                /\ n = (IF f = 3 THEN e ELSE e + 1) * B
    <2>1. n = (IF f = 3 THEN e ELSE e + 1) * B
      BY <1>7, <1>9, <1>10 DEF StageOf
    <2>. QED  BY <1>1, <1>2, <1>9, <1>10, <2>1 DEF ScheduleInv, OnTime
  <1>11. PICK d \in Nat : d = g.CurrentEpoch /\ (~raced => d = IF f = 2 THEN e + 1 ELSE e)
    <2>1. g.CurrentEpoch \in Nat
      <3>1. halving' = g /\ MiningInv'
        BY <1>2, NextMiningInv DEF ScheduleInv, MiningNext
      <3>. QED  BY <3>1 DEF MiningInv, HalvingState
    <2>. QED  BY <1>7, <1>9, <2>1
  <1>12. OnTime'
    <2>1. ASSUME ~raced
          PROVE  /\ \A u \in Thread : next[u].height <= h
                 /\ next["run"].at # "idle" => next["run"].height = h
                 /\ d <= x /\ d * B <= h
                 /\ \A u \in Thread : Halves(u)' =>
                       g.NextHalvingBlock <= h /\ (next[u].f # 3 => d < x)
      <3>1. d <= x /\ d * B <= h
        <4>1. CASE f = 2
          BY <1>10, <1>11, <2>1, <4>1
        <4>2. CASE f # 2
          BY <1>10, <1>11, <2>1, <4>2
        <4>. QED  BY <4>1, <4>2
      <3>2. /\ \A u \in Thread : next[u].height <= h
            /\ next["run"].at # "idle" => next["run"].height = h
        <4>1. next["run"].at # "idle" => call["run"].at # "idle"
          BY <1>2, <1>5
        <4>. QED  BY <1>5, <1>6, <1>10, <2>1, <4>1
      <3>3. ASSUME NEW u \in Thread, Halves(u)'
            PROVE  g.NextHalvingBlock <= h /\ (next[u].f # 3 => d < x)
        <4>1. u = t /\ f # 3
          BY <1>7, <2>1, <3>3
        <4>2. g.NextHalvingBlock = n /\ n <= h
          BY <1>7, <1>9, <1>10, <2>1, <4>1
        <4>3. ASSUME next[u].f # 3 PROVE d < x
          <5>1. next[u].f = f + 1 /\ f \in 1 .. 3
            BY <1>1, <1>3, <1>5, <4>1
          <5>2. f = 1
            BY <4>1, <4>3, <5>1
          <5>. QED  BY <1>10, <1>11, <2>1, <5>2
        <4>. QED  BY <4>2, <4>3
      <3>. QED  BY <3>1, <3>2, <3>3
    <2>. QED  BY <1>2, <1>4, <1>9, <1>11, <2>1 DEF OnTime
  <1>13. Pursued'
    <2>1. ASSUME ~raced PROVE Pursues(next["run"], d, b, h)
      <3>1. Pursues(call["run"], e, b, h)
        BY <1>9, <2>1 DEF ScheduleInv, Pursued
      <3>2. CASE t = "run"
        <4>1. Reaches(b + 1, IF f = 3 THEN e ELSE e + 1, h)
          BY <1>1, <1>2, <3>1, <3>2 DEF Pursues
        <4>2. f = 3 => Reaches(b + 1, d, h) /\ c.at = "done"
          BY <1>3, <1>11, <2>1, <4>1
        <4>3. f = 2 => Reaches(b + 1, d, h) /\ c.at = "load" /\ c.f = 3
          BY <1>3, <1>11, <2>1, <4>1
        <4>4. f = 1 => Reaches(b + 1, d + 1, h) /\ c.at = "load" /\ c.f = 2
          BY <1>3, <1>11, <2>1, <4>1
        <4>5. f = 1 \/ f = 2 \/ f = 3
          BY <1>1
        <4>. QED  BY <1>5, <3>2, <4>2, <4>3, <4>4, <4>5 DEF Pursues
      <3>3. CASE t # "run"
        <4>1. next["run"] = call["run"] /\ call["run"].at \notin {"load", "store"}
          BY <1>5, <1>7, <2>1, <3>3 DEF Halves
        <4>2. Pursues(call["run"], e + 1, b, h)
          BY <1>9, <3>1, <4>1, PursuesOn
        <4>. QED  BY <1>11, <2>1, <3>1, <4>1, <4>2
      <3>. QED  BY <3>2, <3>3
    <2>. QED  BY <1>2, <1>4, <1>9, <1>11, <2>1 DEF Pursued
  <1>14. PaidAsScheduled'
    BY <1>2, PaidStays DEF ScheduleInv
  <1>. QED  BY <1>8, <1>12, <1>13, <1>14

\* App.Run's thread has kept up with the blocks, so what it pays is what the
\* schedule gives an epoch that its process may be in, or what is left of the
\* pool; a handler at work may have updated the reward and not yet the epoch.
LEMMA PaySchedule ==
  ASSUME ScheduleInv, NEW slot, PayReward(slot)
  PROVE  InStages' /\ OnTime' /\ Pursued' /\ PaidAsScheduled'
  <1>1. /\ call["run"].at = "done" /\ ~Halves("run") /\ call' = [call EXCEPT !["run"] = Idle]
        /\ TotalMined' = TotalMined + BlockReward
        /\ paid' = [height |-> call["run"].height, reward |-> BlockReward,
                    blocks |-> paid.blocks + 1]
        /\ UNCHANGED <<halving, raced, Height>>
    BY DEF PayReward, Halves
  <1>2. "run" \in Thread /\ Idle \in Call /\ Idle.at = "idle" /\ Idle.height = 0
    BY RunIsThread, IdleType DEF Idle
  <1>3. PICK next : next = call'
    OBVIOUS
  <1>4. /\ InStages'
        /\ \A u \in Thread : Halves(u)' => Halves(u) /\ next[u] = call[u]
    BY <1>1, <1>2, <1>3, QuietStages DEF ScheduleInv
  <1>5. /\ next["run"] = Idle
        /\ \A u \in Thread : u # "run" => next[u] = call[u]
    BY <1>1, <1>2, <1>3 DEF ScheduleInv, MiningInv
  <1>6. PICK e \in Nat, h \in Nat, r \in Nat, m \in Nat, pool \in Nat, b \in Nat, k \in Nat :
            /\ e = halving.CurrentEpoch /\ h = Height /\ r = halving.CurrentReward
            /\ m = TotalMined /\ pool = MaxMineable /\ m <= pool /\ b = paid.blocks /\ k = b + 1
    <2>1. halving.CurrentEpoch \in Nat /\ halving.CurrentReward \in Nat
      BY <1>2, CallTypes DEF ScheduleInv
    <2>2. /\ Height \in Nat /\ TotalMined \in Nat /\ MaxMineable \in Nat /\ paid.blocks \in Nat
          /\ TotalMined <= MaxMineable /\ paid.blocks + 1 \in Nat
      BY MiningAssumption DEF ScheduleInv, MiningInv, MinedWithinPool
    <2>. QED  BY <2>1, <2>2
  <1>7. OnTime'
    <2>1. ASSUME ~raced PROVE \A u \in Thread : next[u].height <= h
      <3>1. 0 <= h
        OBVIOUS
      <3>. QED  BY <1>2, <1>5, <1>6, <2>1, <3>1 DEF ScheduleInv, OnTime
    <2>. QED  BY <1>1, <1>2, <1>3, <1>4, <1>5, <1>6, <2>1 DEF ScheduleInv, OnTime
  <1>8. ASSUME ~raced PROVE Reaches(k, e, h) /\ call["run"].height = h
    BY <1>1, <1>6, <1>8 DEF ScheduleInv, Pursued, Pursues, OnTime
  <1>9. Pursued'
    <2>1. ASSUME ~raced PROVE Pursues(Idle, e, k, h)
      BY <1>2, <1>8, <2>1 DEF Pursues
    <2>2. paid'.blocks = k
      BY <1>1, <1>6
    <2>. QED  BY <1>1, <1>3, <1>5, <1>6, <2>1, <2>2 DEF Pursued
  <1>10. PaidAsScheduled'
    <2>1. ASSUME ~raced
          PROVE  \E i \in Nat : i >= e /\ i <= Due(h) /\ r = Scheduled(i)
      <3>1. /\ e <= MaxHalvings /\ e * BlocksPerHalving <= h
            /\ \A u \in Thread : Halves(u) =>
                  halving.NextHalvingBlock <= h /\ (call[u].f # 3 => e < MaxHalvings)
        BY <1>6, <2>1 DEF ScheduleInv, OnTime
      <3>2. PICK d \in Nat : d = Due(h) /\ \A i \in Nat : i <= MaxHalvings /\ i * BlocksPerHalving <= h => i <= d
        BY DueIs
      <3>3. e <= d
        BY <3>1, <3>2
      <3>4. CASE AtWork
        <4>1. PICK u \in Thread : Halves(u)
          BY <3>4 DEF AtWork, Halves
        <4>2. PICK f \in 1 .. 3 : f = call[u].f
          BY CallTypes DEF ScheduleInv
        <4>3. StageOf(halving, f)
          BY <2>1, <4>1, <4>2 DEF ScheduleInv, InStages
        <4>4. CASE f = 2
          <5>1. PICK i \in Nat : i = e + 1
            OBVIOUS
          <5>2. r = Scheduled(i) /\ halving.NextHalvingBlock = i * BlocksPerHalving
            BY <1>6, <4>3, <4>4, <5>1 DEF StageOf, Scheduled
          <5>3. i <= MaxHalvings
            <6>1. MaxHalvings \in Nat
              BY MiningAssumption
            <6>2. f # 3
              BY <4>4
            <6>3. call[u].f # 3
              BY <4>2, <6>2
            <6>4. e < MaxHalvings
              BY <3>1, <4>1, <6>3
            <6>. QED  BY <5>1, <6>1, <6>4
          <5>4. i <= d
            BY <3>1, <3>2, <4>1, <5>2, <5>3
          <5>. QED  BY <3>2, <5>1, <5>2, <5>4
        <4>5. CASE f # 2
          <5>1. r = Scheduled(e)
            BY <1>6, <4>3, <4>5 DEF StageOf, Scheduled
          <5>. QED  BY <3>2, <3>3, <5>1
        <4>. QED  BY <4>4, <4>5
      <3>5. CASE ~AtWork
        <4>1. StageOf(halving, 1)
          BY <2>1, <3>5 DEF ScheduleInv, InStages
        <4>2. r = Scheduled(e)
          BY <1>6, <4>1 DEF StageOf, Scheduled
        <4>. QED  BY <3>2, <3>3, <4>2
      <3>. QED  BY <3>4, <3>5
    <2>2. PICK paying : paying = BlockReward
      OBVIOUS
    <2>3. paying = r \/ (paying < r /\ m + paying = pool)
      <3>1. /\ m >= pool => paying = 0
            /\ ~(m >= pool) /\ pool - m < r => paying = pool - m
            /\ ~(m >= pool) /\ ~(pool - m < r) => paying = r
        BY <1>6, <2>2 DEF BlockReward
      <3>. QED  BY <1>6, <3>1
    <2>4. PICK pay : pay = [height |-> h, reward |-> paying, blocks |-> k]
      OBVIOUS
    <2>5. ASSUME ~raced PROVE Proceeds(pay, m + paying)
      <3>1. PICK i \in Nat : i >= e /\ i <= Due(h) /\ r = Scheduled(i)
        BY <2>1, <2>5
      <3>2. PICK d \in Nat, low \in Nat : d = Due(h) /\ low = Min({k, Due(h)}) /\ low <= e
        <4>1. Reaches(k, e, h)
          BY <1>8, <2>5
        <4>. QED  BY <4>1, ReachesDue, DueIs
      <3>3. i \in low .. d
        BY <3>1, <3>2
      <3>4. paying = Scheduled(i) \/ (paying < Scheduled(i) /\ m + paying = MaxMineable)
        BY <1>6, <2>3, <3>1
      <3>. QED  BY <2>4, <3>2, <3>3, <3>4 DEF Proceeds
    <2>6. ASSUME ~raced PROVE paid' = pay
      BY <1>1, <1>6, <1>8, <2>2, <2>4, <2>6
    <2>7. TotalMined' = m + paying /\ raced' = raced
      BY <1>1, <1>6, <2>2
    <2>8. ASSUME ~raced PROVE Proceeds(paid', TotalMined')
      BY <2>5, <2>6, <2>7, <2>8
    <2>. QED  BY <2>7, <2>8 DEF PaidAsScheduled, Proceeds, Due, Scheduled
  <1>. QED  BY <1>4, <1>7, <1>9, <1>10

\* A new process starts at the first stage, whatever its height.
LEMMA RebootSchedule ==
  ASSUME ScheduleInv, NEW height \in Nat, Reboot(height)
  PROVE  InStages' /\ OnTime' /\ Pursued' /\ PaidAsScheduled'
  <1>1. /\ call' = NoThread /\ halving' = NewMiningKeeper /\ paid' = NothingPaid
        /\ Height' = height
    BY DEF Reboot
  <1>2. \A t \in Thread : NoThread[t].at = "idle" /\ NoThread[t].height = 0
    BY DEF NoThread, Idle
  <1>3. \A t \in Thread : ~Halves(t)'
    BY <1>1, <1>2 DEF Halves
  <1>4. StageOf(NewMiningKeeper, 1)
    BY FirstStage
  <1>5. InStages'
    BY <1>1, <1>2, <1>3, <1>4 DEF InStages, StageOf
  <1>6. OnTime'
    <2>1. /\ NewMiningKeeper.CurrentEpoch = 0 /\ MaxHalvings \in Nat /\ 0 <= MaxHalvings
          /\ 0 * BlocksPerHalving = 0 /\ 0 <= height
      BY MiningAssumption DEF NewMiningKeeper
    <2>. QED  BY <1>1, <1>2, <1>3, <2>1, RunIsThread DEF OnTime
  <1>7. Pursued'
    <2>1. NewMiningKeeper.CurrentEpoch = 0 /\ NothingPaid.blocks = 0
      BY DEF NewMiningKeeper, NothingPaid
    <2>2. Reaches(0, 0, height)
      BY DEF Reaches
    <2>3. Pursues(NoThread["run"], 0, 0, height)
      BY <1>2, <2>2, RunIsThread DEF Pursues
    <2>. QED  BY <1>1, <2>1, <2>3 DEF Pursued
  <1>8. PaidAsScheduled'
    <2>1. Proceeds(NothingPaid, TotalMined')
      BY NothingProceeds
    <2>. QED  BY <1>1, <2>1 DEF PaidAsScheduled, Proceeds, Due, Scheduled
  <1>. QED  BY <1>5, <1>6, <1>7, <1>8

LEMMA NextScheduleInv == ScheduleInv /\ [MiningNext]_miningVars => ScheduleInv'
  <1>. SUFFICES ASSUME ScheduleInv, [MiningNext]_miningVars PROVE ScheduleInv'
    OBVIOUS
  <1>1. MiningInv' /\ Height' \in Nat
    BY NextMiningInv, HeightInv DEF ScheduleInv
  <1>2. raced' \in BOOLEAN
    <2>1. raced \in BOOLEAN
      BY DEF ScheduleInv
    <2>2. raced' = raced \/ raced' = FALSE \/ raced' = (raced \/ AtWork)
      BY Zenon DEF MiningNext, StartBlock, GetStats, Answer, checkHalving, Check, LoadField,
                   StoreField, PayReward, Reboot, miningVars
    <2>. QED  BY <2>1, <2>2, Zenon
  <1>3. paid'.blocks \in Nat /\ paid'.height \in Nat
    <2>1. paid' = paid \/ paid' = NothingPaid \/ \E slot : PayReward(slot)
      BY DEF MiningNext, StartBlock, GetStats, Answer, checkHalving, Reboot, miningVars
    <2>2. NothingPaid.blocks \in Nat /\ NothingPaid.height \in Nat
      BY DEF NothingPaid
    <2>3. ASSUME NEW slot, PayReward(slot) PROVE paid'.blocks \in Nat /\ paid'.height \in Nat
      <3>1. paid'.height = call["run"].height /\ paid'.blocks = paid.blocks + 1
        BY <2>3 DEF PayReward
      <3>2. paid.blocks \in Nat /\ call["run"].height \in Nat
        BY RunIsThread, CallTypes DEF ScheduleInv
      <3>. QED  BY <3>1, <3>2
    <2>. QED  BY <2>1, <2>2, <2>3 DEF ScheduleInv
  <1>4. InStages' /\ OnTime' /\ Pursued' /\ PaidAsScheduled'
    <2>1. CASE \E fee \in BlockFees : StartBlock(fee)
      BY <2>1, StartBlockSchedule
    <2>2. CASE \E t \in Api : GetStats(t) \/ Answer(t)
      BY <2>2, HandlerSchedule
    <2>3. CASE \E t \in Thread : checkHalving(t)
      <3>1. PICK t \in Thread : checkHalving(t)
        BY <2>3
      <3>2. Check(t) \/ LoadField(t) \/ StoreField(t)
        BY <3>1 DEF checkHalving
      <3>. QED  BY <3>1, <3>2, CheckSchedule, LoadSchedule, StoreSchedule
    <2>4. CASE \E slot \in Slots : PayReward(slot)
      BY <2>4, PaySchedule
    <2>5. CASE \E height \in 0 .. Height : Reboot(height)
      <3>1. PICK height \in 0 .. Height : Reboot(height)
        BY <2>5
      <3>2. height \in Nat
        BY DEF ScheduleInv
      <3>. QED  BY <3>1, <3>2, RebootSchedule
    <2>6. CASE UNCHANGED miningVars
      BY <2>6 DEF miningVars, ScheduleInv, InStages, OnTime, Pursued, PaidAsScheduled, Proceeds,
                  Due, StageOf, Halves, AtWork, Scheduled
    <2>. QED  BY <2>1, <2>2, <2>3, <2>4, <2>5, <2>6 DEF MiningNext
  <1>. QED  BY <1>1, <1>2, <1>3, <1>4, Zenon DEF ScheduleInv

(***************************************************************************)
(* checkHalving and GetBlockReward: whichever threads halve, as long as no *)
(* two of them meet, the reward is the initial one halved once per epoch,  *)
(* the first process pays each block what the schedule gives it until the  *)
(* pool is empty, and a later one pays too much for fewer blocks than there*)
(* were halvings before it.                                                *)
(***************************************************************************)
THEOREM ScheduleIsKeptCorrect == MiningSpec => []ScheduleIsKept
  <1>1. MiningInit => ScheduleInv
    BY InitScheduleInv
  <1>2. ScheduleInv /\ [MiningNext]_miningVars => ScheduleInv'
    BY NextScheduleInv
  <1>3. ScheduleInv => ScheduleIsKept
    <2>. SUFFICES ASSUME ScheduleInv, ~raced PROVE ScheduleIsKept
      BY DEF ScheduleIsKept
    <2>1. ~AtWork =>
            /\ halving.CurrentReward = Scheduled(halving.CurrentEpoch)
            /\ halving.NextHalvingBlock = (halving.CurrentEpoch + 1) * BlocksPerHalving
      BY DEF ScheduleInv, InStages, StageOf, Scheduled
    <2>2. Proceeds(paid, TotalMined)
      BY DEF ScheduleInv, PaidAsScheduled
    <2>. QED  BY <2>1, <2>2 DEF ScheduleIsKept, Proceeds
  <1>. QED  BY <1>1, <1>2, <1>3, PTL DEF MiningSpec
=============================================================================
