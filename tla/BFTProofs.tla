----------------------------- MODULE BFTProofs -----------------------------
(***************************************************************************)
(* Theorems about the mempool, for every set of transactions and every     *)
(* value of its limits, and about a node that produces blocks.  The        *)
(* invariant BFTInv holds for every set of validators, votes and           *)
(* goroutines; SoloInv for the node that NewNuvexApp sets up, whose only   *)
(* validator is the node itself.                                           *)
(***************************************************************************)
EXTENDS BFTConsensus, BlockProofs, SumLemmas, FiniteSetTheorems, SequenceTheorems, TLAPS

----------------------------------------------------------------------------
(* The mempool.                                                            *)

(***************************************************************************)
(* The order of n transactions is a sequence, and n are its places.        *)
(***************************************************************************)
LEMMA OrderIsSeq ==
    ASSUME NEW S, NEW n \in Nat, NEW f \in [1 .. n -> S]
    PROVE  f \in Seq(S) /\ Len(f) = n /\ DOMAIN f = 1 .. n
  OBVIOUS

LEMMA PlacesAreCounted ==
    ASSUME NEW n \in Nat
    PROVE  IsFiniteSet(1 .. n) /\ Cardinality(1 .. n) = n
  <1>1. /\ IsFiniteSet(1 .. n)
        /\ Cardinality(1 .. n) = IF 1 > n THEN 0 ELSE n - 1 + 1
    BY FS_Interval
  <1>. QED  BY <1>1

(***************************************************************************)
(* Truncate returns a prefix of a sequence that is not longer than n.      *)
(***************************************************************************)
LEMMA TruncateIsPrefix ==
    ASSUME NEW S, NEW p \in Seq(S), NEW n \in Nat
    PROVE  /\ Truncate(p, n) \in Seq(S)
           /\ Len(Truncate(p, n)) <= Len(p) /\ Len(Truncate(p, n)) <= n
           /\ \A i \in 1 .. Len(Truncate(p, n)) : Truncate(p, n)[i] = p[i]
  <1>. DEFINE m == IF Len(p) > n THEN n ELSE Len(p)
  <1>1. m \in Nat /\ m <= Len(p) /\ m <= n
    BY LenProperties
  <1>2. /\ SubSeq(p, 1, m) \in Seq(S)
        /\ Len(SubSeq(p, 1, m)) = m
        /\ \A i \in 1 .. m : SubSeq(p, 1, m)[i] = p[i]
    <2>1. \A i \in 1 .. m : p[i] \in S
      BY <1>1, ElementOfSeq
    <2>. QED  BY <1>1, <2>1
  <1>. QED  BY <1>1, <1>2 DEF Truncate

(***************************************************************************)
(* What SelectForBlock returns: pooled transactions that have not expired, *)
(* none of them twice, so that Len counts them.                            *)
(***************************************************************************)
LEMMA SelectionFacts ==
    ASSUME MempoolTypeOK, IsFiniteSet(pending), NEW n \in Nat, NEW q \in Selections(n)
    PROVE  /\ q \in Seq(TxHash)
           /\ Range(q) \subseteq {h \in pending : ~Expired(h)}
           /\ IsInjective(q)
           /\ IsFiniteSet(Range(q)) /\ Cardinality(Range(q)) = Len(q)
           /\ Len(q) <= MaxTxPerBlock
  <1>. DEFINE S     == {h \in pending : ~Expired(h)}
              limit == IF n > MaxTxPerBlock THEN MaxTxPerBlock ELSE n
              c     == Cardinality(S)
  <1>1. c \in Nat
    <2>1. S \in SUBSET pending
      OBVIOUS
    <2>. QED  BY <2>1, FS_Subset, FS_CardinalityType
  <1>2. limit \in Nat /\ limit <= MaxTxPerBlock
    BY MempoolAssumption
  <1>3. PICK p \in ByPriority(S) : q = Truncate(p, limit)
    BY DEF Selections
  <1>4. p \in [1 .. c -> S] /\ IsInjective(p)
    BY DEF ByPriority
  <1>5. p \in Seq(S) /\ Len(p) = c /\ DOMAIN p = 1 .. c
    BY <1>1, <1>4, OrderIsSeq
  <1>6. /\ q \in Seq(S)
        /\ Len(q) <= c /\ Len(q) <= limit
        /\ \A i \in 1 .. Len(q) : q[i] = p[i]
    BY <1>2, <1>3, <1>5, TruncateIsPrefix
  <1>7. Len(q) \in Nat /\ DOMAIN q = 1 .. Len(q) /\ \A i \in 1 .. Len(q) : q[i] \in S
    BY <1>6, LenProperties, ElementOfSeq
  <1>8. IsInjective(q)
    BY <1>1, <1>4, <1>5, <1>6, <1>7 DEF IsInjective
  <1>9. Range(q) \subseteq S
    BY <1>7 DEF Range
  <1>10. IsFiniteSet(Range(q)) /\ Cardinality(Range(q)) = Len(q)
    <2>1. q \in [1 .. Len(q) -> Range(q)]
      BY <1>6, <1>7 DEF Range
    <2>2. q \in Bijection(1 .. Len(q), Range(q))
      BY <2>1, <1>7, <1>8 DEF Bijection, Injection, Surjection, Range
    <2>3. IsFiniteSet(1 .. Len(q)) /\ Cardinality(1 .. Len(q)) = Len(q)
      BY <1>7, PlacesAreCounted
    <2>. QED  BY <2>2, <2>3, FS_Bijection DEF ExistsBijection
  <1>11. q \in Seq(TxHash)
    <2>1. S \subseteq TxHash
      BY DEF MempoolTypeOK
    <2>. QED  BY <1>6, <1>7, <2>1
  <1>12. Len(q) <= MaxTxPerBlock
    BY <1>2, <1>6, <1>7, MempoolAssumption
  <1>. QED  BY <1>8, <1>9, <1>10, <1>11, <1>12

----------------------------------------------------------------------------
\* The empty pool satisfies the invariant.
LEMMA InitMempoolInv == MempoolInit => MempoolInv
  <1>. SUFFICES ASSUME MempoolInit PROVE MempoolInv
    OBVIOUS
  <1>1. MempoolTypeOK
    BY MempoolAssumption DEF MempoolInit, MempoolTypeOK, PendingTx, NoTx, Age
  <1>2. SizeIsExact
    BY FS_EmptySet, MempoolAssumption DEF MempoolInit, SizeIsExact
  <1>3. ConfirmedWereLive
    BY DEF MempoolInit, ConfirmedWereLive, NoTx
  <1>. QED  BY <1>1, <1>2, <1>3 DEF MempoolInit, MempoolInv

\* Submit adds one new object and counts it.
LEMMA SubmitMempoolInv ==
    ASSUME MempoolInv, NEW h \in TxHash, NEW fee \in Fee, Submit(h, fee)
    PROVE  MempoolInv'
  <1>. USE DEF MempoolInv
  <1>1. MempoolTypeOK'
    BY MempoolAssumption DEF Submit, MempoolTypeOK, PendingTx, Age
  <1>2. SizeIsExact'
    <2>1. h \notin pending
      BY DEF Submit, MempoolTypeOK
    <2>2. /\ IsFiniteSet(pending \cup {h})
          /\ Cardinality(pending \cup {h}) = Cardinality(pending) + 1
      BY <2>1, FS_AddElement DEF SizeIsExact
    <2>. QED  BY <2>2, MempoolAssumption DEF Submit, SizeIsExact, MempoolTypeOK
  <1>3. ConfirmedWereLive'
    BY DEF Submit, ConfirmedWereLive, MempoolTypeOK
  <1>4. \A g \in pending' : txs'[g].Status = "pending" /\ txs'[g].Fee >= MinFee
    BY DEF Submit, MempoolTypeOK
  <1>. QED  BY <1>1, <1>2, <1>3, <1>4

\* SelectForBlock takes as many objects as it subtracts.
LEMMA SelectMempoolInv ==
    ASSUME MempoolInv, NEW n \in Nat, NEW q \in Selections(n), SelectForBlock(q)
    PROVE  MempoolInv'
  <1>. USE DEF MempoolInv
  <1>1. /\ Range(q) \subseteq {h \in pending : ~Expired(h)}
        /\ IsFiniteSet(Range(q)) /\ Cardinality(Range(q)) = Len(q)
        /\ Len(q) \in Nat
    BY SelectionFacts, LenProperties DEF SizeIsExact
  <1>2. MempoolTypeOK'
    BY <1>1 DEF SelectForBlock, MempoolTypeOK, PendingTx
  <1>3. SizeIsExact'
    <2>1. Range(q) \in SUBSET pending
      BY <1>1
    <2>2. /\ IsFiniteSet(pending \ Range(q))
          /\ Cardinality(pending \ Range(q)) = Cardinality(pending) - Cardinality(pending \cap Range(q))
      BY FS_Difference, <1>1 DEF SizeIsExact
    <2>3. pending \cap Range(q) = Range(q)
      BY <2>1
    <2>4. Cardinality(pending') = size' /\ IsFiniteSet(pending')
      BY <1>1, <2>2, <2>3 DEF SelectForBlock, SizeIsExact
    <2>5. size' <= MaxMempoolSize
      BY <1>1, MempoolAssumption DEF SelectForBlock, SizeIsExact, MempoolTypeOK
    <2>. QED  BY <2>4, <2>5 DEF SizeIsExact
  <1>4. ConfirmedWereLive'
    BY <1>1, MempoolAssumption DEF SelectForBlock, ConfirmedWereLive, MempoolTypeOK, PendingTx, Age, Expired
  <1>5. \A g \in pending' : txs'[g].Status = "pending" /\ txs'[g].Fee >= MinFee
    BY DEF SelectForBlock, MempoolTypeOK
  <1>. QED  BY <1>2, <1>3, <1>4, <1>5

\* cleanupRoutine takes as many objects as it subtracts.
LEMMA CleanupMempoolInv ==
    ASSUME MempoolInv, Cleanup
    PROVE  MempoolInv'
  <1>. USE DEF MempoolInv
  <1>. DEFINE old == {h \in pending : Expired(h)}
  <1>1. old \in SUBSET pending
    OBVIOUS
  <1>2. /\ IsFiniteSet(old) /\ Cardinality(old) \in Nat
        /\ IsFiniteSet(pending \ old)
        /\ Cardinality(pending \ old) = Cardinality(pending) - Cardinality(pending \cap old)
    <2>1. IsFiniteSet(old)
      BY <1>1, FS_Subset DEF SizeIsExact
    <2>. QED  BY <2>1, FS_Difference, FS_CardinalityType DEF SizeIsExact
  <1>3. pending \cap old = old
    BY <1>1
  <1>4. pending' = pending \ old /\ size' = size - Cardinality(old) /\ txs' = txs
    BY DEF Cleanup
  <1>. HIDE DEF old
  <1>5. MempoolTypeOK'
    BY <1>2, <1>4 DEF MempoolTypeOK
  <1>6. SizeIsExact'
    <2>1. IsFiniteSet(pending') /\ size' = Cardinality(pending')
      BY <1>2, <1>3, <1>4 DEF SizeIsExact
    <2>2. size' <= MaxMempoolSize
      BY <1>2, <1>4, MempoolAssumption DEF SizeIsExact, MempoolTypeOK
    <2>. QED  BY <2>1, <2>2 DEF SizeIsExact
  <1>7. ConfirmedWereLive'
    BY <1>4 DEF ConfirmedWereLive
  <1>8. \A g \in pending' : txs'[g].Status = "pending" /\ txs'[g].Fee >= MinFee
    BY <1>4
  <1>. QED  BY <1>5, <1>6, <1>7, <1>8

\* Time changes ages only.
LEMMA TickMempoolInv ==
    ASSUME MempoolInv, Tick
    PROVE  MempoolInv'
  <1>. USE DEF MempoolInv
  <1>1. MempoolTypeOK'
    BY MempoolAssumption DEF Tick, MempoolTypeOK, PendingTx, Age, Expired
  <1>2. SizeIsExact'
    BY DEF Tick, SizeIsExact
  <1>3. ConfirmedWereLive'
    BY DEF Tick, ConfirmedWereLive, MempoolTypeOK, PendingTx
  <1>4. \A g \in pending' : txs'[g].Status = "pending" /\ txs'[g].Fee >= MinFee
    BY DEF Tick, MempoolTypeOK, PendingTx
  <1>. QED  BY <1>1, <1>2, <1>3, <1>4

----------------------------------------------------------------------------
\* Every step of the pool preserves its invariant.
LEMMA NextMempoolInv == MempoolInv /\ [MempoolNext]_mempoolVars => MempoolInv'
  <1>. SUFFICES ASSUME MempoolInv, [MempoolNext]_mempoolVars PROVE MempoolInv'
    OBVIOUS
  <1>1. ASSUME NEW h \in TxHash, NEW fee \in Fee, Submit(h, fee) PROVE MempoolInv'
    BY <1>1, SubmitMempoolInv
  <1>2. ASSUME NEW n \in 1 .. MaxTxPerBlock + 1, NEW q \in Selections(n), SelectForBlock(q)
        PROVE  MempoolInv'
    BY <1>2, SelectMempoolInv, MempoolAssumption
  <1>3. CASE Cleanup
    BY <1>3, CleanupMempoolInv
  <1>4. CASE Tick
    BY <1>4, TickMempoolInv
  <1>5. CASE UNCHANGED mempoolVars
    BY <1>5 DEF mempoolVars, MempoolInv, MempoolTypeOK, SizeIsExact, ConfirmedWereLive
  <1>. QED  BY <1>1, <1>2, <1>3, <1>4, <1>5 DEF MempoolNext

(***************************************************************************)
(* The variables of mempool.go keep their types.                           *)
(***************************************************************************)
THEOREM MempoolTypeCorrect == MempoolSpec => []MempoolTypeOK
  <1>1. MempoolInv => MempoolTypeOK
    BY DEF MempoolInv
  <1>. QED  BY <1>1, InitMempoolInv, NextMempoolInv, PTL DEF MempoolSpec

(***************************************************************************)
(* The counter size of the Mempool is exact and bounded: the check in      *)
(* Submit limits the map itself, and the subtractions in SelectForBlock    *)
(* and cleanupRoutine never drift from it.                                 *)
(***************************************************************************)
THEOREM SizeCorrect == MempoolSpec => []SizeIsExact
  <1>1. MempoolInv => SizeIsExact
    BY DEF MempoolInv
  <1>. QED  BY <1>1, InitMempoolInv, NextMempoolInv, PTL DEF MempoolSpec

(***************************************************************************)
(* SelectForBlock confirms only transactions that were pooled, live and    *)
(* sufficiently paid when it took them.                                    *)
(***************************************************************************)
THEOREM ConfirmedCorrect == MempoolSpec => []ConfirmedWereLive
  <1>1. MempoolInv => ConfirmedWereLive
    BY DEF MempoolInv
  <1>. QED  BY <1>1, InitMempoolInv, NextMempoolInv, PTL DEF MempoolSpec
----------------------------------------------------------------------------
(***************************************************************************)
(* The sorted order has room for every live transaction, so one that is    *)
(* not selected comes after those that are.                                *)
(***************************************************************************)
LEMMA SelectionIsBest ==
    ASSUME MempoolTypeOK, IsFiniteSet(pending), NEW n \in Nat, NEW q \in Selections(n),
           NEW h \in Range(q), NEW g \in pending \ Range(q), ~Expired(g)
    PROVE  txs[h].Fee >= txs[g].Fee
  <1>. DEFINE S     == {x \in pending : ~Expired(x)}
              limit == IF n > MaxTxPerBlock THEN MaxTxPerBlock ELSE n
              c     == Cardinality(S)
  <1>1. IsFiniteSet(S) /\ c \in Nat
    <2>1. S \in SUBSET pending
      OBVIOUS
    <2>. QED  BY <2>1, FS_Subset, FS_CardinalityType
  <1>2. limit \in Nat
    BY MempoolAssumption
  <1>3. PICK p \in ByPriority(S) : q = Truncate(p, limit)
    BY DEF Selections
  <1>4. /\ p \in [1 .. c -> S] /\ IsInjective(p)
        /\ \A i, j \in 1 .. c : i < j => txs[p[i]].Fee >= txs[p[j]].Fee
    BY DEF ByPriority
  <1>. HIDE DEF S, limit, c
  <1>5. p \in Seq(S) /\ Len(p) = c /\ DOMAIN p = 1 .. c
    BY <1>1, <1>4, OrderIsSeq
  <1>6. \A x \in S : \E i \in 1 .. c : p[i] = x
    <2>1. p \in Injection(1 .. c, S)
      BY <1>4, <1>5 DEF IsInjective, Injection
    <2>2. Cardinality(1 .. c) = c
      BY <1>1, PlacesAreCounted
    <2>3. p \in Surjection(1 .. c, S)
      BY <1>1, <2>1, <2>2, FS_Injection DEF c
    <2>. QED  BY <2>3 DEF Surjection
  <1>7. /\ q \in Seq(S)
        /\ Len(q) <= c
        /\ \A i \in 1 .. Len(q) : q[i] = p[i]
    BY <1>2, <1>3, <1>5, TruncateIsPrefix
  <1>8. Len(q) \in Nat /\ DOMAIN q = 1 .. Len(q)
    BY <1>7, LenProperties
  <1>9. PICK i \in 1 .. Len(q) : h = q[i]
    BY <1>8 DEF Range
  <1>10. PICK j \in 1 .. c : g = p[j]
    BY <1>6 DEF S
  <1>11. j \notin 1 .. Len(q)
    BY <1>7, <1>8, <1>10 DEF Range
  <1>12. i \in 1 .. c /\ j \in 1 .. c /\ i < j /\ h = p[i]
    BY <1>1, <1>7, <1>8, <1>9, <1>10, <1>11
  <1>. QED  BY <1>4, <1>10, <1>12

(***************************************************************************)
(* No interleaving of Submit, cleanupRoutine and the clock makes           *)
(* SelectForBlock pass over a live transaction that pays more than one it  *)
(* takes, whichever order the unstable sort leaves equal fees in.          *)
(***************************************************************************)
THEOREM BestFeesFirstCorrect == MempoolSpec => BestFeesFirst
  <1>. DEFINE Best == \A h \in pending, g \in pending \cap pending' :
                 txs[h].Status = "pending" /\ txs'[h].Status = "confirmed" /\ ~Expired(g)
                   => txs[h].Fee >= txs[g].Fee
  <1>1. MempoolInv /\ [MempoolNext]_mempoolVars => [Best]_mempoolVars
    <2>. SUFFICES ASSUME MempoolInv, MempoolNext,
                         NEW h \in pending, NEW g \in pending \cap pending',
                         txs[h].Status = "pending", txs'[h].Status = "confirmed", ~Expired(g)
                  PROVE  txs[h].Fee >= txs[g].Fee
      OBVIOUS
    <2>1. h \in TxHash /\ txs \in [TxHash -> PendingTx] /\ MempoolTypeOK /\ IsFiniteSet(pending)
      BY DEF MempoolInv, MempoolTypeOK, SizeIsExact
    <2>2. ASSUME NEW k \in TxHash, NEW fee \in Fee, Submit(k, fee) PROVE FALSE
      BY <2>1, <2>2 DEF Submit
    <2>3. ASSUME NEW n \in 1 .. MaxTxPerBlock + 1, NEW q \in Selections(n), SelectForBlock(q)
          PROVE  txs[h].Fee >= txs[g].Fee
      <3>1. h \in Range(q) /\ g \in pending \ Range(q)
        BY <2>1, <2>3 DEF SelectForBlock
      <3>2. n \in Nat
        BY MempoolAssumption
      <3>. QED  BY <2>1, <3>1, <3>2, SelectionIsBest
    <2>4. CASE Cleanup
      BY <2>4 DEF Cleanup
    <2>5. CASE Tick
      BY <2>1, <2>5 DEF Tick, PendingTx
    <2>. QED  BY <2>2, <2>3, <2>4, <2>5 DEF MempoolNext
  <1>. QED  BY <1>1, InitMempoolInv, NextMempoolInv, PTL DEF MempoolSpec, BestFeesFirst

----------------------------------------------------------------------------
\* Min and Max of a set of numbers that has a bound.
LEMMA ExtremesAre ==
  ASSUME NEW T, T \subseteq Nat, T # {}, NEW top \in Nat, \A x \in T : x <= top
  PROVE  /\ Min(T) \in T /\ \A x \in T : Min(T) <= x
         /\ Max(T) \in T /\ \A x \in T : Max(T) >= x
  <1>1. \E m \in T : \A x \in T : m <= x
    BY LeastNumber
  <1>2. \E m \in T : \A x \in T : m >= x
    <2>1. PICK D : D = {top - x : x \in T}
      OBVIOUS
    <2>2. D \subseteq Nat /\ D # {}
      <3>1. \A x \in T : top - x \in Nat
        OBVIOUS
      <3>2. PICK x : x \in T
        OBVIOUS
      <3>3. top - x \in D
        BY <2>1, <3>2
      <3>. QED  BY <2>1, <3>1, <3>3
    <2>3. PICK d \in D : \A y \in D : d <= y
      BY <2>2, LeastNumber
    <2>4. PICK m \in T : d = top - m
      BY <2>1, <2>3
    <2>5. ASSUME NEW x \in T PROVE m >= x
      <3>1. top - m <= top - x
        BY <2>1, <2>3, <2>4
      <3>. QED  BY <2>4, <3>1
    <2>. QED  BY <2>4, <2>5
  <1>. QED  BY <1>1, <1>2 DEF Min, Max

(***************************************************************************)
(* The sum of fees that lie between two numbers lies between their         *)
(* multiples.                                                              *)
(***************************************************************************)
LEMMA SumBetween ==
  ASSUME NEW f, NEW S, NEW lo \in Nat, NEW hi \in Nat, IsFiniteSet(S),
         \A x \in S : f[x] \in Nat /\ lo <= f[x] /\ f[x] <= hi
  PROVE  /\ SumFunctionOnSet(f, S) \in Nat
         /\ lo * Cardinality(S) <= SumFunctionOnSet(f, S)
         /\ SumFunctionOnSet(f, S) <= hi * Cardinality(S)
  <1>1. PICK l, h : l = [x \in S |-> lo] /\ h = [x \in S |-> hi]
    OBVIOUS
  <1>2. /\ Terms(f, S) /\ Terms(l, S) /\ Terms(h, S) /\ NoMoreThan(l, f, S) /\ NoMoreThan(f, h, S)
        /\ \A x \in S : f[x] >= 0 /\ l[x] = lo /\ h[x] = hi
    BY <1>1 DEF Terms, NoMoreThan
  <1>3. /\ SumFunctionOnSet(l, S) = lo * Cardinality(S)
        /\ SumFunctionOnSet(h, S) = hi * Cardinality(S)
    BY <1>2, SumEqual
  <1>4. SumFunctionOnSet(l, S) <= SumFunctionOnSet(f, S)
    BY <1>2, SumMonotone
  <1>5. SumFunctionOnSet(f, S) <= SumFunctionOnSet(h, S)
    BY <1>2, SumMonotone
  <1>6. SumFunctionOnSet(f, S) \in Nat
    BY <1>2, SumNat
  <1>. QED  BY <1>3, <1>4, <1>5, <1>6

\* What fits into a word is kept.
LEMMA Fits ==
  ASSUME NEW x \in Int64
  PROVE  ToInt64(x) = x
  <1>1. PICK h \in Nat : h = Half /\ h > 0
    BY WordsAssumption
  <1>2. x + h \in Nat /\ x + h < h + h /\ h + h \in Nat
    BY <1>1 DEF Int64
  <1>3. (x + h) % (h + h) = x + h
    BY ONLY <1>2, Remains
  <1>. QED  BY <1>1, <1>3 DEF ToInt64, Word, Int64

LEMMA AverageIs ==
  ASSUME MempoolInv, size # 0, PooledFees < Half
  PROVE  Stats.MinFee <= Stats.AvgFee /\ Stats.AvgFee <= Stats.MaxFee
  <1>1. PICK f, T : f = [h \in pending |-> txs[h].Fee] /\ T = {txs[h].Fee : h \in pending}
    OBVIOUS
  <1>2. IsFiniteSet(pending) /\ size = Cardinality(pending) /\ size \in Nat /\ size > 0
    BY FS_CardinalityType DEF MempoolInv, SizeIsExact
  <1>3. pending # {}
    BY <1>2, FS_EmptySet
  <1>4. \A h \in pending : f[h] \in Nat /\ f[h] = txs[h].Fee
    <2>1. pending \subseteq TxHash /\ txs \in [TxHash -> PendingTx]
      BY DEF MempoolInv, MempoolTypeOK
    <2>2. ASSUME NEW tx \in PendingTx PROVE tx.Fee \in Int
      <3>1. PICK F : F = Fee \cup {0}
        OBVIOUS
      <3>2. F \subseteq Int
        BY <3>1, MempoolAssumption, WordsAssumption DEF Int64
      <3>3. tx \in [Fee : F, Status : {"none", "pending", "confirmed"}, age : Age]
        BY <2>2, <3>1 DEF PendingTx
      <3>. QED  BY <3>2, <3>3
    <2>3. \A h \in pending : txs[h] \in PendingTx
      BY <2>1
    <2>4. \A h \in pending : txs[h].Fee >= MinFee
      BY DEF MempoolInv
    <2>5. \A h \in pending : txs[h].Fee \in Nat
      BY <2>2, <2>3, <2>4, MempoolAssumption
    <2>. QED  BY <1>1, <2>5
  <1>5. T \subseteq Nat /\ T # {}
    BY <1>1, <1>3, <1>4
  <1>6. PICK s \in Nat : s = SumFunctionOnSet(f, pending) /\ \A h \in pending : f[h] <= s
    <2>1. Terms(f, pending) /\ \A h \in pending : f[h] >= 0
      BY <1>2, <1>4 DEF Terms
    <2>2. SumFunctionOnSet(f, pending) \in Nat
      BY <2>1, SumNat
    <2>3. \A h \in pending : f[h] <= SumFunctionOnSet(f, pending)
      BY <2>1, SumPart
    <2>. QED  BY <2>2, <2>3
  <1>7. \A x \in T : x <= s
    BY <1>1, <1>4, <1>6
  <1>8. PICK lo \in Nat, hi \in Nat :
            /\ lo = Min(T) /\ hi = Max(T)
            /\ \A x \in T : lo <= x /\ x <= hi
    <2>1. /\ Min(T) \in T /\ \A x \in T : Min(T) <= x
          /\ Max(T) \in T /\ \A x \in T : Max(T) >= x
      BY <1>5, <1>7, ExtremesAre
    <2>2. PICK lo, hi : lo = Min(T) /\ hi = Max(T)
      OBVIOUS
    <2>3. /\ lo \in Nat /\ hi \in Nat
          /\ \A x \in T : lo <= x /\ x <= hi
      BY <1>5, <2>1, <2>2
    <2>. QED  BY <2>2, <2>3
  <1>9. \A h \in pending : f[h] \in Nat /\ lo <= f[h] /\ f[h] <= hi
    BY <1>1, <1>4, <1>8
  <1>10. lo * size <= s /\ s <= hi * size
    BY <1>2, <1>6, <1>9, SumBetween
  <1>11. lo <= s \div size /\ s \div size <= hi
    <2>1. size * lo <= s /\ s <= size * hi
      BY <1>2, <1>10
    <2>. QED  BY <1>2, <2>1, QuotientAtLeast, QuotientAtMost
  <1>12. SumFunction(f) = s
    BY <1>1, <1>6 DEF SumFunction
  <1>13. PooledFees = s
    BY <1>1, <1>12 DEF PooledFees
  <1>14. Quotient64(ToInt64(s), size) = s \div size
    <2>1. s \in Int64
      BY <1>6, <1>13, WordsAssumption DEF Int64
    <2>. QED  BY <1>6, <2>1, Fits DEF Quotient64
  <1>15. Stats = [MinFee |-> lo, MaxFee |-> hi, AvgFee |-> s \div size]
    BY <1>1, <1>2, <1>5, <1>8, <1>13, <1>14 DEF Stats
  <1>. QED  BY <1>11, <1>15

(***************************************************************************)
(* Stats divides what the map holds by the counter that is kept apart from *)
(* it, and the quotient still is an average of the fees in the pool.       *)
(***************************************************************************)
THEOREM AverageCorrect == MempoolSpec => []AverageBetweenExtremes
  <1>1. MempoolInv => AverageBetweenExtremes
    BY AverageIs DEF AverageBetweenExtremes
  <1>. QED  BY <1>1, InitMempoolInv, NextMempoolInv, PTL DEF MempoolSpec

----------------------------------------------------------------------------
(* Proposals and votes.                                                    *)

\* A proposal is a block with the transactions it was given.
LEMMA ProposalFacts ==
    ASSUME blocks \in Seq(Block), blocks # <<>>, failedRounds \in Nat, NodeAddr \in Address,
           NEW h \in Nat, NEW q \in Seq(TxHash)
    PROVE  /\ Proposal(h, q) \in Block
           /\ Proposal(h, q).Transactions = q /\ Proposal(h, q).Height = h
           /\ Proposal(h, q).PrevHash = LatestBlock.Hash
  <1>. DEFINE prev == LatestBlock.Hash
              b == [Height |-> h, PrevHash |-> prev, Hash |-> <<>>, Timestamp |-> failedRounds,
                    Validator |-> NodeAddr, Transactions |-> q]
              header == [by |-> "hashBlock", Height |-> h, Timestamp |-> failedRounds,
                         Validator |-> NodeAddr, Transactions |-> q]
  <1>1. prev \in Hash
    BY LatestBlockType
  <1>2. Proposal(h, q) = [b EXCEPT !.Hash = Append(prev, header)]
    BY DEF Proposal, NewBlock, calculateHash, hashBlock, HeaderOf
  <1>3. header \in Header
    BY DEF Header, Hasher
  <1>4. Append(prev, header) \in Hash
    BY <1>1, <1>3 DEF Hash
  <1>. QED  BY <1>1, <1>2, <1>4 DEF Block

\* The leader of a round is one of the validators.
LEMMA LeaderType ==
    ASSUME BFTTypeOK, NEW h \in 1 .. MaxHeight
    PROVE  selectLeader(h) \in Address
  <1>. DEFINE n == Len(validators)
  <1>1. n \in Nat /\ n > 0
    BY EmptySeq, LenProperties DEF BFTTypeOK
  <1>2. HashByte[h] \in Nat
    <2>1. HashByte \in [1 .. MaxHeight -> 0 .. 255]
      BY BFTAssumption
    <2>2. HashByte[h] \in 0 .. 255
      BY <2>1
    <2>. QED  BY <2>2
  <1>3. HashByte[h] % n \in 0 .. n - 1
    <2>. HIDE DEF n
    <2>. QED  BY <1>1, <1>2
  <1>4. (HashByte[h] % n) + 1 \in 1 .. Len(validators)
    BY <1>1, <1>3
  <1>. QED  BY <1>4, ElementOfSeq DEF BFTTypeOK, selectLeader

\* A quorum is a natural number.
LEMMA QuorumType == ASSUME NEW n \in Nat PROVE QuorumOf(n) \in Nat
  BY DEF QuorumOf

\* A set of votes stays one when a vote is put into it.
LEMMA PutType ==
    ASSUME NEW votes \in SUBSET Vote, NEW vote \in Vote
    PROVE  Put(votes, vote) \in SUBSET Vote
  BY DEF Put

\* The pool's invariant does not depend on anything else.
LEMMA UnchangedMempoolInv == MempoolInv /\ UNCHANGED mempoolVars => MempoolInv'
  BY DEF mempoolVars, MempoolInv, MempoolTypeOK, SizeIsExact, ConfirmedWereLive

----------------------------------------------------------------------------
(* The two handlers of votes.                                              *)

\* ReceivePrepareVote changes the prepare votes and the phase of a round.
LEMMA PrepareVoteFacts ==
    ASSUME BFTTypeOK, NEW vote \in Vote, ReceivePrepareVote(vote)
    PROVE  \/ UNCHANGED <<round, routine>>
           \/ /\ round # Nil
              /\ \E votes \in SUBSET Vote, phase \in {"PREPARE", "COMMIT"} :
                    round' = [round EXCEPT !.PrepareVotes = votes, !.Phase = phase]
              /\ routine' = routine \/ \E r \in Routine : routine' = [routine EXCEPT ![r] = Started]
  <1>1. CASE round = Nil \/ vote.Height # round.Height
    BY <1>1 DEF ReceivePrepareVote
  <1>2. CASE ~(round = Nil \/ vote.Height # round.Height)
    <2>1. round \in Round
      BY <1>2 DEF BFTTypeOK
    <2>2. Put(round.PrepareVotes, vote) \in SUBSET Vote
      BY <2>1, PutType DEF Round
    <2>. QED  BY <1>2, <2>2 DEF ReceivePrepareVote
  <1>. QED  BY <1>1, <1>2

\* ReceiveCommitVote either records the vote or finalizes the proposal.
LEMMA CommitVoteFacts ==
    ASSUME BFTTypeOK, NEW vote \in Vote, ReceiveCommitVote(vote)
    PROVE  \/ UNCHANGED <<round, totalBlocks, chainVars, sent>>
           \/ /\ round # Nil
              /\ \E votes \in SUBSET Vote : round' = [round EXCEPT !.CommitVotes = votes]
              /\ UNCHANGED <<totalBlocks, chainVars, sent>>
           \/ /\ round # Nil /\ round.Phase = "COMMIT" /\ round.ProposedBlock # Nil
              /\ \E votes \in SUBSET Vote :
                    FinalizeBlock([round EXCEPT !.CommitVotes = votes])
  <1>1. CASE round = Nil \/ vote.Height # round.Height
    BY <1>1 DEF ReceiveCommitVote
  <1>2. CASE ~(round = Nil \/ vote.Height # round.Height)
    <2>1. round \in Round
      BY <1>2 DEF BFTTypeOK
    <2>2. PICK votes \in SUBSET Vote : votes = Put(round.CommitVotes, vote)
      BY <2>1, PutType DEF Round
    <2>3. PICK r : r = [round EXCEPT !.CommitVotes = votes]
      OBVIOUS
    <2>4. r.Phase = round.Phase /\ r.ProposedBlock = round.ProposedBlock
      BY <2>1, <2>3 DEF Round
    <2>5. r = [round EXCEPT !.CommitVotes = Put(@, vote)]
      BY <2>2, <2>3
    <2>6. \/ FinalizeBlock(r) /\ r.Phase = "COMMIT" /\ r.ProposedBlock # Nil
          \/ round' = r /\ UNCHANGED <<totalBlocks, chainVars, sent>>
      BY <1>2, <2>5 DEF ReceiveCommitVote
    <2>. QED  BY <1>2, <2>3, <2>4, <2>6
  <1>. QED  BY <1>1, <1>2

\* The block that finalizeBlock adds carries the proposal's transactions.
LEMMA FinalizeFacts ==
    ASSUME BFTTypeOK, round # Nil, round.ProposedBlock # Nil, NEW votes \in SUBSET Vote,
           FinalizeBlock([round EXCEPT !.CommitVotes = votes])
    PROVE  /\ round \in Round /\ round.ProposedBlock \in Block
           /\ round' = [round EXCEPT !.CommitVotes = votes, !.Phase = "FINALIZED"]
           /\ totalBlocks' = totalBlocks + 1
           /\ sent' = sent \cup {round.ProposedBlock}
           /\ up' = up
           /\ \E b \in Block :
                 /\ b = NextBlock(failedRounds, round.ProposedBlock.Validator,
                                  round.ProposedBlock.Transactions)
                 /\ b.Transactions = round.ProposedBlock.Transactions
                 /\ b.Height = Height + 1 /\ b.PrevHash = LatestBlock.Hash
                 /\ b.Hash = calculateHash(b)
                 /\ blocks' = Append(blocks, b)
                 /\ disk' = Write(disk, b, "line")
  <1>1. round \in Round /\ round.ProposedBlock \in Block
    BY DEF BFTTypeOK, Round
  <1>2. PICK r : r = [round EXCEPT !.CommitVotes = votes]
    OBVIOUS
  <1>3. r.ProposedBlock = round.ProposedBlock
    BY <1>1, <1>2 DEF Round
  <1>4. FinalizeBlock(r)
    BY <1>2
  <1>5. /\ Height \in Nat /\ Height + 1 \in Nat /\ LatestBlock.Hash \in Hash
        /\ failedRounds \in Nat
    BY LatestBlockType, BFTAssumption DEF BFTTypeOK
  <1>6. /\ round.ProposedBlock.Validator \in Address
        /\ round.ProposedBlock.Transactions \in Seq(TxHash)
    BY <1>1 DEF Block
  <1>7. PICK b : b = NextBlock(failedRounds, round.ProposedBlock.Validator,
                               round.ProposedBlock.Transactions)
    OBVIOUS
  <1>8. /\ b \in Block
        /\ b.Transactions = round.ProposedBlock.Transactions
        /\ b.Height = Height + 1 /\ b.PrevHash = LatestBlock.Hash
        /\ b.Hash = calculateHash(b)
    BY <1>5, <1>6, <1>7, NewBlockFacts DEF NextBlock
  <1>9. blocks' = Append(blocks, b) /\ disk' = Write(disk, b, "line") /\ up' = up
    BY <1>3, <1>4, <1>7 DEF FinalizeBlock, AddBlock
  <1>10. /\ round' = [round EXCEPT !.CommitVotes = votes, !.Phase = "FINALIZED"]
         /\ totalBlocks' = totalBlocks + 1
         /\ sent' = sent \cup {round.ProposedBlock}
    BY <1>2, <1>3, <1>4 DEF FinalizeBlock
  <1>. QED  BY <1>1, <1>7, <1>8, <1>9, <1>10

----------------------------------------------------------------------------
(* BFTInv is inductive.                                                    *)

\* On a chain of the genesis block alone there is no transaction.
LEMMA InitBFTInv == BFTInit => BFTInv
  <1>. SUFFICES ASSUME BFTInit PROVE BFTInv
    OBVIOUS
  <1>1. MempoolInv /\ MempoolTypeOK
    BY InitMempoolInv DEF BFTInit, MempoolInv
  <1>2. blocks \in Seq(Block) /\ blocks # <<>> /\ Len(blocks) = 1 /\ blocks[1] = Genesis
    BY GenesisFacts DEF BFTInit
  <1>3. disk \in Seq(Line) /\ disk # <<>>
    BY NoFileType, GenesisFacts, WriteType DEF BFTInit, Extent
  <1>4. /\ validators \in Seq(Address) /\ validators # <<>>
        /\ quorum \in Nat
    <2>1. Len(Validators) \in Nat
      BY BFTAssumption, LenProperties
    <2>. QED  BY <2>1, QuorumType, BFTAssumption DEF BFTInit
  <1>5. /\ up = TRUE /\ round \in Round \cup {Nil} /\ totalBlocks \in Nat
        /\ failedRounds \in 0 .. MaxFailed /\ loop = "height" /\ height \in 0 .. MaxHeight
        /\ sent \subseteq Block
    BY BFTAssumption DEF BFTInit
  <1>6. routine \in [Routine -> Goroutine] /\ \A r \in Routine : routine[r].at = "idle"
    BY DEF BFTInit, Goroutine, Idle
  <1>7. BFTTypeOK
    BY <1>1, <1>2, <1>3, <1>4, <1>5, <1>6 DEF BFTTypeOK
  <1>8. ThreadsAreInOrder
    BY <1>5, <1>6 DEF ThreadsAreInOrder
  <1>9. TakenAreConfirmed
    <2>1. ASSUME NEW h \in TxHash PROVE ~OnChain(h)
      <3>1. Range(<<>>) = {}
        BY DEF Range
      <3>. QED  BY <1>2, <3>1, GenesisFacts DEF OnChain
    <2>2. ASSUME NEW h \in TxHash PROVE ~Proposed(h)
      BY DEF Proposed, BFTInit
    <2>. QED  BY <2>1, <2>2 DEF TakenAreConfirmed
  <1>. QED  BY <1>1, <1>7, <1>8, <1>9 DEF BFTInv

\* The transactions in the chain depend on the chain only.
LEMMA SameChain == blocks' = blocks => \A h : OnChain(h)' <=> OnChain(h)
  BY DEF OnChain

\* The proposed transactions depend on the proposal only.
LEMMA SameProposal ==
    ASSUME round # Nil, round' # Nil, round'.ProposedBlock = round.ProposedBlock
    PROVE  \A h : Proposed(h)' <=> Proposed(h)
  BY DEF Proposed

\* Steps that touch neither the pool, the chain nor a proposal.
LEMMA TakenUnchanged ==
    ASSUME TakenAreConfirmed, UNCHANGED txs, UNCHANGED blocks,
           \A h \in TxHash : Proposed(h)' => Proposed(h)
    PROVE  TakenAreConfirmed'
  BY SameChain DEF TakenAreConfirmed

LEMMA ReadHeightInv == BFTInv /\ ReadHeight => BFTInv'
  <1>. SUFFICES ASSUME BFTInv, ReadHeight PROVE BFTInv'
    OBVIOUS
  <1>. USE DEF BFTInv
  <1>1. MempoolInv'
    BY UnchangedMempoolInv DEF ReadHeight
  <1>2. BFTTypeOK'
    <2>1. height' \in 1 .. MaxHeight
      BY LatestBlockType, BFTAssumption DEF ReadHeight, BFTTypeOK
    <2>. QED  BY <1>1, <2>1, BFTAssumption DEF ReadHeight, BFTTypeOK, chainVars, MempoolInv
  <1>3. ThreadsAreInOrder'
    <2>1. height' # 0
      BY LatestBlockType DEF ReadHeight, BFTTypeOK
    <2>. QED  BY <2>1 DEF ReadHeight, ThreadsAreInOrder
  <1>4. TakenAreConfirmed'
    BY TakenUnchanged DEF ReadHeight, mempoolVars, chainVars, Proposed
  <1>. QED  BY <1>1, <1>2, <1>3, <1>4

LEMMA StartRoundInv == BFTInv /\ StartRound => BFTInv'
  <1>. SUFFICES ASSUME BFTInv, StartRound PROVE BFTInv'
    OBVIOUS
  <1>. USE DEF BFTInv
  <1>1. MempoolInv'
    BY UnchangedMempoolInv DEF StartRound
  <1>2. height \in 1 .. MaxHeight
    BY BFTAssumption DEF BFTTypeOK, ThreadsAreInOrder, StartRound
  <1>3. round' \in Round /\ round'.ProposedBlock = Nil
    BY <1>2, LeaderType, BFTAssumption DEF StartRound, Round, Phase
  <1>4. BFTTypeOK'
    BY <1>1, <1>3 DEF StartRound, BFTTypeOK, chainVars, MempoolInv
  <1>5. ThreadsAreInOrder'
    BY <1>3 DEF StartRound, ThreadsAreInOrder
  <1>6. TakenAreConfirmed'
    BY <1>3, TakenUnchanged DEF StartRound, mempoolVars, chainVars, Proposed
  <1>. QED  BY <1>1, <1>4, <1>5, <1>6

\* The new proposal holds transactions that the step confirms.
LEMMA ProposeBlockInv == BFTInv /\ ProposeBlock => BFTInv'
  <1>. SUFFICES ASSUME BFTInv, ProposeBlock PROVE BFTInv'
    OBVIOUS
  <1>. USE DEF BFTInv
  <1>1. PICK q \in Selections(MaxTxPerBlock) :
          /\ SelectForBlock(q)
          /\ round' = [round EXCEPT !.ProposedBlock = Proposal(round.Height, q), !.Phase = "PROPOSE"]
    BY DEF ProposeBlock
  <1>2. MempoolInv'
    BY <1>1, SelectMempoolInv, MempoolAssumption
  <1>3. q \in Seq(TxHash)
    BY SelectionFacts, MempoolAssumption DEF MempoolInv, SizeIsExact
  <1>4. round \in Round /\ round.Height \in Nat
    BY DEF ProposeBlock, ThreadsAreInOrder, Round
  <1>5. failedRounds \in Nat
    BY BFTAssumption DEF BFTTypeOK
  <1>6. PICK b \in Block : b = Proposal(round.Height, q) /\ b.Transactions = q
    BY <1>3, <1>4, <1>5, ProposalFacts, BFTAssumption DEF BFTTypeOK
  <1>7. round' \in Round /\ round'.ProposedBlock = b
    BY <1>1, <1>4, <1>6 DEF Round, Phase
  <1>8. BFTTypeOK'
    BY <1>2, <1>7 DEF ProposeBlock, BFTTypeOK, chainVars, MempoolInv
  <1>9. ThreadsAreInOrder'
    BY <1>6, <1>7 DEF ProposeBlock, ThreadsAreInOrder
  <1>10. TakenAreConfirmed'
    <2>1. \A h \in TxHash : Proposed(h)' => h \in Range(q)
      BY <1>6, <1>7 DEF Proposed
    <2>2. \A h \in TxHash : h \in Range(q) => txs'[h].Status = "confirmed"
      BY <1>1 DEF SelectForBlock, BFTTypeOK, MempoolTypeOK, PendingTx
    <2>3. \A h \in TxHash : txs[h].Status = "confirmed" => txs'[h].Status = "confirmed"
      BY <1>1 DEF SelectForBlock, BFTTypeOK, MempoolTypeOK, PendingTx
    <2>4. blocks' = blocks
      BY DEF ProposeBlock, chainVars
    <2>. QED  BY <2>1, <2>2, <2>3, <2>4, SameChain DEF TakenAreConfirmed
  <1>. QED  BY <1>2, <1>8, <1>9, <1>10

\* A prepare vote, whoever cast it; the loop goes on to wait or stays.
LEMMA PrepareVoteInv ==
    ASSUME BFTInv, NEW vote \in Vote, ReceivePrepareVote(vote),
           loop' = loop \/ (loop = "prepare" /\ loop' = "wait"),
           UNCHANGED <<mempoolVars, chainVars, validators, quorum, totalBlocks, failedRounds,
                       height, sent>>
    PROVE  BFTInv'
  <1>. USE DEF BFTInv
  <1>1. MempoolInv'
    BY UnchangedMempoolInv
  <1>2. loop' \in {"height", "start", "propose", "prepare", "wait"}
    BY DEF BFTTypeOK
  <1>3. CASE UNCHANGED <<round, routine>>
    <2>1. BFTTypeOK'
      BY <1>1, <1>2, <1>3 DEF BFTTypeOK, chainVars, MempoolInv
    <2>2. ThreadsAreInOrder'
      BY <1>3 DEF ThreadsAreInOrder
    <2>3. TakenAreConfirmed'
      BY <1>3, TakenUnchanged DEF mempoolVars, chainVars, Proposed
    <2>. QED  BY <1>1, <2>1, <2>2, <2>3
  <1>4. ASSUME round # Nil, NEW votes \in SUBSET Vote, NEW phase \in {"PREPARE", "COMMIT"},
               round' = [round EXCEPT !.PrepareVotes = votes, !.Phase = phase],
               routine' = routine \/ \E r \in Routine : routine' = [routine EXCEPT ![r] = Started]
        PROVE  BFTInv'
    <2>1. round \in Round
      BY <1>4 DEF BFTTypeOK
    <2>2. round' \in Round /\ round'.ProposedBlock = round.ProposedBlock
      BY <1>4, <2>1 DEF Round, Phase
    <2>3. /\ routine' \in [Routine -> Goroutine]
          /\ \A r \in Routine : routine'[r].at = "voting" => routine'[r] = routine[r]
      BY <1>4 DEF BFTTypeOK, Goroutine, Started
    <2>4. BFTTypeOK'
      BY <1>1, <1>2, <2>2, <2>3 DEF BFTTypeOK, chainVars, MempoolInv
    <2>5. ThreadsAreInOrder'
      BY <2>2, <2>3 DEF ThreadsAreInOrder
    <2>6. TakenAreConfirmed'
      BY <1>4, <2>2, TakenUnchanged DEF mempoolVars, chainVars, Proposed
    <2>. QED  BY <1>1, <2>4, <2>5, <2>6
  <1>. QED  BY <1>3, <1>4, PrepareVoteFacts

\* The vote that the proposer casts is a vote.
LEMMA OwnVoteType ==
    ASSUME BFTInv, loop = "prepare"
    PROVE  [ValidatorAddr |-> NodeAddr, BlockHash |-> round.ProposedBlock.Hash,
            Height |-> round.ProposedBlock.Height] \in Vote
  <1>1. round.ProposedBlock \in Block
    BY DEF BFTInv, ThreadsAreInOrder
  <1>. QED  BY <1>1, BFTAssumption DEF Block, Vote

LEMMA OwnPrepareVoteInv == BFTInv /\ OwnPrepareVote => BFTInv'
  BY OwnVoteType, PrepareVoteInv DEF OwnPrepareVote

\* The votes of the others are votes.
LEMMA OthersVoteType ==
    ASSUME BFTInv, NEW v \in Others, NEW h \in 1 .. MaxHeight, NEW vote \in VotesOf(v, h)
    PROVE  vote \in Vote
  <1>1. v \in Address
    BY ElementOfSeq, LenProperties DEF Others, Range, BFTInv, BFTTypeOK
  <1>2. PICK none : none = <<>>
    OBVIOUS
  <1>. DEFINE header == [by |-> "hashBlock", Height |-> h, Timestamp |-> 0,
                         Validator |-> v, Transactions |-> none]
              theirs == Append(LatestBlock.Hash, header)
  <1>3. theirs \in Hash
    <2>1. none \in Seq(TxHash)
      BY <1>2
    <2>2. header \in Header
      BY <1>1, <2>1 DEF Header, Hasher
    <2>3. LatestBlock.Hash \in Hash
      BY LatestBlockType DEF BFTInv, BFTTypeOK
    <2>. QED  BY <2>2, <2>3 DEF Hash
  <1>4. round # Nil /\ round.ProposedBlock # Nil => round.ProposedBlock.Hash \in Hash
    BY DEF BFTInv, BFTTypeOK, Round, Block
  <1>5. \/ vote.BlockHash = theirs
        \/ round # Nil /\ round.ProposedBlock # Nil /\ vote.BlockHash = round.ProposedBlock.Hash
    BY <1>2 DEF VotesOf
  <1>6. vote = [ValidatorAddr |-> v, BlockHash |-> vote.BlockHash, Height |-> h]
    BY DEF VotesOf
  <1>. HIDE DEF theirs
  <1>7. vote.BlockHash \in Hash
    BY <1>3, <1>4, <1>5
  <1>. QED  BY <1>1, <1>6, <1>7 DEF Vote

LEMMA RemotePrepareVoteInv ==
    ASSUME BFTInv, NEW v \in Others, NEW h \in 1 .. MaxHeight, RemotePrepareVote(v, h)
    PROVE  BFTInv'
  <1>1. PICK vote \in VotesOf(v, h) : ReceivePrepareVote(vote)
    BY DEF RemotePrepareVote
  <1>2. vote \in Vote
    BY OthersVoteType
  <1>. QED  BY <1>1, <1>2, PrepareVoteInv DEF RemotePrepareVote

LEMMA SeeFinalizedInv == BFTInv /\ SeeFinalized => BFTInv'
  <1>. SUFFICES ASSUME BFTInv, SeeFinalized PROVE BFTInv'
    OBVIOUS
  <1>1. MempoolInv'
    BY UnchangedMempoolInv DEF SeeFinalized, BFTInv
  <1>2. BFTTypeOK'
    BY <1>1 DEF SeeFinalized, BFTInv, BFTTypeOK, chainVars, MempoolInv
  <1>3. ThreadsAreInOrder'
    BY DEF SeeFinalized, BFTInv, ThreadsAreInOrder
  <1>4. TakenAreConfirmed'
    BY TakenUnchanged DEF SeeFinalized, BFTInv, mempoolVars, chainVars, Proposed
  <1>. QED  BY <1>1, <1>2, <1>3, <1>4 DEF BFTInv

LEMMA TimeoutInv == BFTInv /\ Timeout => BFTInv'
  <1>. SUFFICES ASSUME BFTInv, Timeout PROVE BFTInv'
    OBVIOUS
  <1>1. MempoolInv'
    BY UnchangedMempoolInv DEF Timeout, BFTInv
  <1>2. BFTTypeOK'
    <2>1. failedRounds' \in 0 .. MaxFailed
      BY BFTAssumption DEF Timeout, BFTInv, BFTTypeOK
    <2>. QED  BY <1>1, <2>1 DEF Timeout, BFTInv, BFTTypeOK, chainVars, MempoolInv
  <1>3. ThreadsAreInOrder'
    BY DEF Timeout, BFTInv, ThreadsAreInOrder
  <1>4. TakenAreConfirmed'
    BY TakenUnchanged DEF Timeout, BFTInv, mempoolVars, chainVars, Proposed
  <1>. QED  BY <1>1, <1>2, <1>3, <1>4 DEF BFTInv

\* A goroutine ends or makes a vote of what the round holds.
LEMMA ReadForCommitInv ==
    ASSUME BFTInv, NEW r \in Routine, ReadForCommit(r)
    PROVE  BFTInv'
  <1>. USE DEF BFTInv
  <1>1. MempoolInv'
    BY UnchangedMempoolInv DEF ReadForCommit
  <1>2. PICK g \in Goroutine : /\ routine' = [routine EXCEPT ![r] = g]
                               /\ g.at = "voting" => g.vote \in Vote
    <2>1. CASE round = Nil \/ round.ProposedBlock = Nil
      <3>1. Idle \in Goroutine /\ Idle.at # "voting"
        BY DEF Idle, Goroutine
      <3>. QED  BY <2>1, <3>1 DEF ReadForCommit
    <2>2. CASE ~(round = Nil \/ round.ProposedBlock = Nil)
      <3>. DEFINE vote == [ValidatorAddr |-> NodeAddr, BlockHash |-> round.ProposedBlock.Hash,
                           Height |-> round.Height]
      <3>1. round \in Round /\ round.ProposedBlock \in Block
        BY <2>2 DEF BFTTypeOK, Round
      <3>2. vote \in Vote
        BY <3>1, BFTAssumption DEF Round, Block, Vote
      <3>3. Voting(vote) \in Goroutine /\ Voting(vote).vote \in Vote
        BY <3>2 DEF Voting, Goroutine
      <3>. QED  BY <2>2, <3>3 DEF ReadForCommit
    <2>. QED  BY <2>1, <2>2
  <1>3. /\ routine' \in [Routine -> Goroutine]
        /\ \A s \in Routine : routine'[s].at = "voting" => routine'[s].vote \in Vote
    <2>1. routine \in [Routine -> Goroutine]
      BY DEF BFTTypeOK
    <2>2. ASSUME NEW s \in Routine, routine'[s].at = "voting"
          PROVE  routine'[s].vote \in Vote
      <3>1. CASE s = r
        BY <1>2, <2>1, <2>2, <3>1
      <3>2. CASE s # r
        BY <1>2, <2>1, <2>2, <3>2 DEF ThreadsAreInOrder
      <3>. QED  BY <3>1, <3>2
    <2>. QED  BY <1>2, <2>1, <2>2
  <1>4. BFTTypeOK'
    BY <1>1, <1>3 DEF ReadForCommit, BFTTypeOK, chainVars, MempoolInv
  <1>5. ThreadsAreInOrder'
    BY <1>3 DEF ReadForCommit, ThreadsAreInOrder
  <1>6. TakenAreConfirmed'
    BY TakenUnchanged DEF ReadForCommit, mempoolVars, chainVars, Proposed
  <1>. QED  BY <1>1, <1>4, <1>5, <1>6

\* A commit vote, whoever cast it: finalization moves the proposal's
\* transactions onto the chain, where they are still confirmed.
LEMMA CommitVoteInv ==
    ASSUME BFTInv, NEW vote \in Vote, ReceiveCommitVote(vote),
           routine' = routine \/ \E r \in Routine : routine' = [routine EXCEPT ![r] = Idle],
           UNCHANGED <<mempoolVars, validators, quorum, failedRounds, loop, height>>
    PROVE  BFTInv'
  <1>. USE DEF BFTInv
  <1>1. MempoolInv'
    BY UnchangedMempoolInv
  <1>2. /\ routine' \in [Routine -> Goroutine]
        /\ \A r \in Routine : routine'[r].at = "voting" => routine'[r] = routine[r]
    BY DEF BFTTypeOK, Goroutine, Idle
  <1>3. CASE UNCHANGED <<round, totalBlocks, chainVars, sent>>
    <2>1. BFTTypeOK'
      BY <1>1, <1>2, <1>3 DEF BFTTypeOK, chainVars, MempoolInv
    <2>2. ThreadsAreInOrder'
      BY <1>2, <1>3 DEF ThreadsAreInOrder
    <2>3. TakenAreConfirmed'
      BY <1>3, TakenUnchanged DEF mempoolVars, chainVars, Proposed
    <2>. QED  BY <1>1, <2>1, <2>2, <2>3
  <1>4. ASSUME round # Nil, NEW votes \in SUBSET Vote,
               round' = [round EXCEPT !.CommitVotes = votes],
               UNCHANGED <<totalBlocks, chainVars, sent>>
        PROVE  BFTInv'
    <2>1. round \in Round
      BY <1>4 DEF BFTTypeOK
    <2>2. round' \in Round /\ round'.ProposedBlock = round.ProposedBlock
      BY <1>4, <2>1 DEF Round, Phase
    <2>3. BFTTypeOK'
      BY <1>1, <1>2, <1>4, <2>2 DEF BFTTypeOK, chainVars, MempoolInv
    <2>4. ThreadsAreInOrder'
      BY <1>2, <2>2 DEF ThreadsAreInOrder
    <2>5. TakenAreConfirmed'
      BY <1>4, <2>2, TakenUnchanged DEF mempoolVars, chainVars, Proposed
    <2>. QED  BY <1>1, <2>3, <2>4, <2>5
  <1>5. ASSUME round # Nil, round.ProposedBlock # Nil, NEW votes \in SUBSET Vote,
               FinalizeBlock([round EXCEPT !.CommitVotes = votes])
        PROVE  BFTInv'
    <2>1. /\ round \in Round /\ round.ProposedBlock \in Block
          /\ round' = [round EXCEPT !.CommitVotes = votes, !.Phase = "FINALIZED"]
          /\ totalBlocks' = totalBlocks + 1
          /\ sent' = sent \cup {round.ProposedBlock}
          /\ up' = up
      BY <1>5, FinalizeFacts
    <2>2. PICK b \in Block : /\ b.Transactions = round.ProposedBlock.Transactions
                             /\ blocks' = Append(blocks, b)
                             /\ disk' = Write(disk, b, "line")
      BY <1>5, FinalizeFacts
    <2>3. round' \in Round /\ round'.ProposedBlock = round.ProposedBlock
      BY <2>1 DEF Round, Phase
    <2>4. blocks' \in Seq(Block) /\ blocks' # <<>>
      BY <2>2, AppendFacts DEF BFTTypeOK
    <2>5. disk' \in Seq(Line) /\ disk' # <<>>
      BY <2>2, WriteType DEF BFTTypeOK, Extent
    <2>6. sent' \subseteq Block /\ totalBlocks' \in Nat
      BY <2>1 DEF BFTTypeOK
    <2>7. BFTTypeOK'
      BY <1>1, <1>2, <2>1, <2>3, <2>4, <2>5, <2>6 DEF BFTTypeOK, MempoolInv
    <2>8. ThreadsAreInOrder'
      BY <1>2, <2>3 DEF ThreadsAreInOrder
    <2>9. TakenAreConfirmed'
      <3>1. ASSUME NEW h \in TxHash, OnChain(h)' PROVE OnChain(h) \/ Proposed(h)
        <4>1. PICK i \in 1 .. Len(blocks') : h \in Range(blocks'[i].Transactions)
          BY <3>1 DEF OnChain
        <4>2. /\ Len(blocks) \in Nat /\ Len(blocks') = Len(blocks) + 1
              /\ blocks'[Len(blocks) + 1] = b
              /\ \A j \in 1 .. Len(blocks) : blocks'[j] = blocks[j]
          BY <2>2, AppendFacts DEF BFTTypeOK
        <4>3. CASE i = Len(blocks) + 1
          BY <1>5, <2>2, <4>1, <4>2, <4>3 DEF Proposed
        <4>4. CASE i # Len(blocks) + 1
          BY <4>1, <4>2, <4>4 DEF OnChain
        <4>. QED  BY <4>3, <4>4
      <3>2. \A h \in TxHash : Proposed(h)' => Proposed(h)
        BY <1>5, <2>3 DEF Proposed
      <3>. QED  BY <3>1, <3>2 DEF TakenAreConfirmed, mempoolVars
    <2>. QED  BY <1>1, <2>7, <2>8, <2>9
  <1>. QED  BY <1>3, <1>4, <1>5, CommitVoteFacts

LEMMA DeliverCommitVoteInv ==
    ASSUME BFTInv, NEW r \in Routine, DeliverCommitVote(r)
    PROVE  BFTInv'
  <1>1. routine[r].vote \in Vote
    BY DEF DeliverCommitVote, BFTInv, ThreadsAreInOrder
  <1>. QED  BY <1>1, CommitVoteInv DEF DeliverCommitVote

LEMMA RemoteCommitVoteInv ==
    ASSUME BFTInv, NEW v \in Others, NEW h \in 1 .. MaxHeight, RemoteCommitVote(v, h)
    PROVE  BFTInv'
  <1>1. PICK vote \in VotesOf(v, h) : ReceiveCommitVote(vote)
    BY DEF RemoteCommitVote
  <1>2. vote \in Vote
    BY OthersVoteType
  <1>. QED  BY <1>1, <1>2, CommitVoteInv DEF RemoteCommitVote

LEMMA AddValidatorInv ==
    ASSUME BFTInv, NEW v \in Joining, AddValidator(v)
    PROVE  BFTInv'
  <1>1. MempoolInv'
    BY UnchangedMempoolInv DEF AddValidator, BFTInv
  <1>2. /\ validators' \in Seq(Address) /\ validators' # <<>>
        /\ Len(validators') \in Nat
    BY AppendFacts, LenProperties, BFTAssumption DEF AddValidator, BFTInv, BFTTypeOK
  <1>3. quorum' \in Nat
    BY <1>2, QuorumType DEF AddValidator
  <1>4. BFTTypeOK'
    BY <1>1, <1>2, <1>3 DEF AddValidator, BFTInv, BFTTypeOK, chainVars, MempoolInv
  <1>5. ThreadsAreInOrder'
    BY DEF AddValidator, BFTInv, ThreadsAreInOrder
  <1>6. TakenAreConfirmed'
    BY TakenUnchanged DEF AddValidator, BFTInv, mempoolVars, chainVars, Proposed
  <1>. QED  BY <1>1, <1>4, <1>5, <1>6 DEF BFTInv

\* The pool's own steps leave every confirmed transaction confirmed.
LEMMA MempoolStepInv == BFTInv /\ MempoolStep => BFTInv'
  <1>. SUFFICES ASSUME BFTInv, MempoolStep PROVE BFTInv'
    OBVIOUS
  <1>. USE DEF BFTInv
  <1>1. UNCHANGED <<chainVars, bftVars>>
    BY DEF MempoolStep
  <1>2. MempoolInv' /\ \A h \in TxHash : txs[h].Status = "confirmed" => txs'[h].Status = "confirmed"
    <2>1. ASSUME NEW h \in TxHash, NEW fee \in Fee, Submit(h, fee) PROVE <1>2
      BY <2>1, SubmitMempoolInv DEF Submit, BFTTypeOK, MempoolTypeOK
    <2>2. CASE Cleanup
      BY <2>2, CleanupMempoolInv DEF Cleanup
    <2>3. CASE Tick
      BY <2>3, TickMempoolInv DEF Tick, BFTTypeOK, MempoolTypeOK, PendingTx
    <2>. QED  BY <2>1, <2>2, <2>3 DEF MempoolStep
  <1>3. BFTTypeOK'
    BY <1>1, <1>2 DEF BFTTypeOK, chainVars, bftVars, MempoolInv
  <1>4. ThreadsAreInOrder'
    BY <1>1 DEF ThreadsAreInOrder, bftVars
  <1>5. TakenAreConfirmed'
    BY <1>1, <1>2, SameChain DEF TakenAreConfirmed, Proposed, chainVars, bftVars
  <1>. QED  BY <1>2, <1>3, <1>4, <1>5

LEMMA NextBFTInv == BFTInv /\ [BFTNext]_vars => BFTInv'
  <1>. SUFFICES ASSUME BFTInv, [BFTNext]_vars PROVE BFTInv'
    OBVIOUS
  <1>1. CASE RunStep
    BY <1>1, ReadHeightInv, StartRoundInv, ProposeBlockInv, OwnPrepareVoteInv, SeeFinalizedInv,
       TimeoutInv DEF RunStep
  <1>2. CASE RoutineStep
    BY <1>2, ReadForCommitInv, DeliverCommitVoteInv DEF RoutineStep
  <1>3. CASE RemoteStep
    BY <1>3, RemotePrepareVoteInv, RemoteCommitVoteInv, AddValidatorInv DEF RemoteStep
  <1>4. CASE MempoolStep
    BY <1>4, MempoolStepInv
  <1>5. CASE UNCHANGED vars
    <2>1. MempoolInv'
      BY <1>5, UnchangedMempoolInv DEF vars, BFTInv
    <2>2. BFTTypeOK'
      BY <1>5, <2>1 DEF vars, bftVars, chainVars, BFTInv, BFTTypeOK, MempoolInv
    <2>3. ThreadsAreInOrder'
      BY <1>5 DEF vars, bftVars, BFTInv, ThreadsAreInOrder
    <2>4. TakenAreConfirmed'
      BY <1>5, TakenUnchanged DEF vars, bftVars, chainVars, mempoolVars, BFTInv, Proposed
    <2>. QED  BY <2>1, <2>2, <2>3, <2>4 DEF BFTInv
  <1>. QED  BY <1>1, <1>2, <1>3, <1>4, <1>5 DEF BFTNext

LEMMA BFTInvHolds == BFTSpec => []BFTInv
  BY InitBFTInv, NextBFTInv, PTL DEF BFTSpec

(***************************************************************************)
(* The variables of the node keep their types, whatever the set of         *)
(* validators, the interleaving of the loop, the goroutines and the votes. *)
(***************************************************************************)
THEOREM BFTTypeCorrect == BFTSpec => []BFTTypeOK
  <1>1. BFTInv => BFTTypeOK
    BY DEF BFTInv
  <1>. QED  BY <1>1, BFTInvHolds, PTL

(***************************************************************************)
(* proposeBlock takes a transaction out of the pool for good: no pooled    *)
(* transaction is in the current proposal or on the chain, so no later     *)
(* round can take one again.                                               *)
(***************************************************************************)
THEOREM PoolApartFromChainCorrect == BFTSpec => []PoolApartFromChain
  <1>1. BFTInv => PoolApartFromChain
    BY DEF BFTInv, MempoolInv, MempoolTypeOK, TakenAreConfirmed, PoolApartFromChain
  <1>. QED  BY <1>1, BFTInvHolds, PTL

----------------------------------------------------------------------------
(* SoloInv is inductive for as long as the node is its only validator.     *)

LEMMA InitSoloInv == BFTInit /\ Alone => SoloInv
  <1>. SUFFICES ASSUME BFTInit, Alone PROVE SoloInv
    OBVIOUS
  <1>1. BFTInv
    BY InitBFTInv
  <1>2. NoTxTwice
    <2>1. Len(blocks) = 1 /\ Len(blocks[1].Transactions) = 0
      BY GenesisFacts DEF BFTInit
    <2>. QED  BY <2>1 DEF NoTxTwice
  <1>. QED  BY <1>1, <1>2 DEF SoloInv, BFTInit

\* Steps that touch neither the round, the chain nor the validators.
LEMMA SoloUnchanged ==
    ASSUME SoloInv, BFTInv', UNCHANGED <<validators, round, blocks>>,
           loop' = "prepare" => loop = "prepare"
    PROVE  SoloInv'
  BY SameChain DEF SoloInv, Alone, NoTxTwice, Proposed

\* A proposal of pooled transactions is new to the chain.
LEMMA ProposeBlockSolo == SoloInv /\ ProposeBlock => SoloInv'
  <1>. SUFFICES ASSUME SoloInv, ProposeBlock PROVE SoloInv'
    OBVIOUS
  <1>1. BFTInv /\ BFTInv'
    BY ProposeBlockInv DEF SoloInv
  <1>2. PICK q \in Selections(MaxTxPerBlock) :
          round' = [round EXCEPT !.ProposedBlock = Proposal(round.Height, q), !.Phase = "PROPOSE"]
    BY DEF ProposeBlock
  <1>3. /\ q \in Seq(TxHash) /\ IsInjective(q)
        /\ Range(q) \subseteq pending
    BY <1>1, SelectionFacts, MempoolAssumption DEF BFTInv, MempoolInv, SizeIsExact
  <1>4. round \in Round /\ round.Height \in Nat /\ failedRounds \in Nat
    BY <1>1, BFTAssumption DEF ProposeBlock, BFTInv, BFTTypeOK, ThreadsAreInOrder, Round
  <1>5. PICK b \in Block : b = Proposal(round.Height, q) /\ b.Transactions = q
    BY <1>1, <1>3, <1>4, ProposalFacts, BFTAssumption DEF BFTInv, BFTTypeOK
  <1>6. round'.ProposedBlock = b /\ round'.Phase = "PROPOSE"
    BY <1>2, <1>4, <1>5 DEF Round
  <1>7. UNCHANGED <<validators, blocks>> /\ loop' = "prepare"
    BY DEF ProposeBlock, chainVars
  <1>8. NoTxTwice'
    BY <1>7 DEF SoloInv, NoTxTwice
  <1>9. ASSUME NEW h \in TxHash, Proposed(h)' PROVE ~OnChain(h)'
    <2>1. h \in pending
      BY <1>3, <1>5, <1>6, <1>9 DEF Proposed
    <2>2. txs[h].Status # "confirmed"
      BY <1>1, <2>1 DEF BFTInv, MempoolInv
    <2>. QED  BY <1>1, <1>7, <2>2, SameChain DEF BFTInv, TakenAreConfirmed
  <1>. QED  BY <1>1, <1>3, <1>5, <1>6, <1>7, <1>8, <1>9 DEF SoloInv, Alone

\* The one prepare vote of a round finds it proposed, and prepares it.
LEMMA OwnPrepareVoteSolo == SoloInv /\ OwnPrepareVote => SoloInv'
  <1>. SUFFICES ASSUME SoloInv, OwnPrepareVote PROVE SoloInv'
    OBVIOUS
  <1>1. BFTInv /\ BFTInv' /\ BFTTypeOK
    BY OwnPrepareVoteInv DEF SoloInv, BFTInv
  <1>2. UNCHANGED <<validators, blocks>> /\ loop = "prepare" /\ loop' = "wait"
    BY DEF OwnPrepareVote, chainVars
  <1>3. CASE UNCHANGED <<round, routine>>
    BY <1>1, <1>2, <1>3, SoloUnchanged
  <1>4. ASSUME round # Nil, NEW votes \in SUBSET Vote, NEW phase \in {"PREPARE", "COMMIT"},
               round' = [round EXCEPT !.PrepareVotes = votes, !.Phase = phase]
        PROVE  SoloInv'
    <2>1. round \in Round
      BY <1>1, <1>4 DEF BFTTypeOK
    <2>2. /\ round'.ProposedBlock = round.ProposedBlock
          /\ round'.Phase # "FINALIZED" /\ round.Phase # "FINALIZED"
      BY <1>2, <1>4, <2>1 DEF Round, SoloInv
    <2>3. \A h \in TxHash : Proposed(h)' => Proposed(h)
      BY <1>4, <2>2 DEF Proposed
    <2>4. NoTxTwice'
      BY <1>2 DEF SoloInv, NoTxTwice
    <2>. QED  BY <1>1, <1>2, <1>4, <2>2, <2>3, <2>4, SameChain DEF SoloInv, Alone
  <1>5. \/ UNCHANGED <<round, routine>>
        \/ /\ round # Nil
           /\ \E votes \in SUBSET Vote, phase \in {"PREPARE", "COMMIT"} :
                 round' = [round EXCEPT !.PrepareVotes = votes, !.Phase = phase]
    BY <1>1, <1>2, OwnVoteType, PrepareVoteFacts DEF OwnPrepareVote
  <1>. QED  BY <1>3, <1>4, <1>5

\* Appending a block of new and distinct transactions repeats none.
LEMMA AppendNoTxTwice ==
    ASSUME blocks \in Seq(Block), NoTxTwice, NEW b \in Block, blocks' = Append(blocks, b),
           IsInjective(b.Transactions),
           \A h \in TxHash : h \in Range(b.Transactions) => ~OnChain(h)
    PROVE  NoTxTwice'
  <1>1. /\ Len(blocks) \in Nat /\ Len(blocks') = Len(blocks) + 1
        /\ blocks'[Len(blocks) + 1] = b
        /\ \A j \in 1 .. Len(blocks) : blocks'[j] = blocks[j] /\ blocks[j] \in Block
    BY AppendFacts, ElementOfSeq
  <1>2. ASSUME NEW c \in Block
        PROVE  /\ DOMAIN c.Transactions = 1 .. Len(c.Transactions)
               /\ \A k \in 1 .. Len(c.Transactions) : /\ c.Transactions[k] \in TxHash
                                                     /\ c.Transactions[k] \in Range(c.Transactions)
    <2>1. c.Transactions \in Seq(TxHash)
      BY DEF Block
    <2>. QED  BY <2>1, LenProperties, ElementOfSeq DEF Range
  <1>3. ASSUME NEW i \in 1 .. Len(blocks), NEW k \in 1 .. Len(blocks[i].Transactions),
               NEW l \in 1 .. Len(b.Transactions)
        PROVE  blocks[i].Transactions[k] # b.Transactions[l]
    <2>1. OnChain(blocks[i].Transactions[k])
      BY <1>1, <1>2 DEF OnChain
    <2>2. ~OnChain(b.Transactions[l])
      BY <1>2
    <2>. QED  BY <2>1, <2>2
  <1>4. ASSUME NEW i \in 1 .. Len(blocks'), NEW j \in 1 .. Len(blocks'),
               NEW k \in 1 .. Len(blocks'[i].Transactions), NEW l \in 1 .. Len(blocks'[j].Transactions),
               blocks'[i].Transactions[k] = blocks'[j].Transactions[l]
        PROVE  i = j /\ k = l
    <2>1. CASE i \in 1 .. Len(blocks) /\ j \in 1 .. Len(blocks)
      BY <1>1, <1>4, <2>1 DEF NoTxTwice
    <2>2. CASE i \in 1 .. Len(blocks) /\ j = Len(blocks) + 1
      BY <1>1, <1>3, <1>4, <2>2
    <2>3. CASE i = Len(blocks) + 1 /\ j \in 1 .. Len(blocks)
      BY <1>1, <1>3, <1>4, <2>3
    <2>4. CASE i = Len(blocks) + 1 /\ j = Len(blocks) + 1
      BY <1>1, <1>2, <1>4, <2>4 DEF IsInjective
    <2>. QED  BY <1>1, <2>1, <2>2, <2>3, <2>4
  <1>. QED  BY <1>4 DEF NoTxTwice

\* A commit vote finalizes a round once: after that its phase is not COMMIT.
LEMMA DeliverCommitVoteSolo ==
    ASSUME SoloInv, NEW r \in Routine, DeliverCommitVote(r)
    PROVE  SoloInv'
  <1>1. BFTInv /\ BFTInv' /\ BFTTypeOK /\ routine[r].vote \in Vote
    BY DeliverCommitVoteInv DEF SoloInv, BFTInv, DeliverCommitVote, ThreadsAreInOrder
  <1>2. UNCHANGED <<validators, loop>>
    BY DEF DeliverCommitVote
  <1>3. CASE UNCHANGED <<round, totalBlocks, chainVars, sent>>
    BY <1>1, <1>2, <1>3, SoloUnchanged DEF chainVars
  <1>4. ASSUME round # Nil, NEW votes \in SUBSET Vote,
               round' = [round EXCEPT !.CommitVotes = votes], UNCHANGED chainVars
        PROVE  SoloInv'
    <2>1. round \in Round /\ blocks' = blocks
      BY <1>1, <1>4 DEF BFTTypeOK, chainVars
    <2>2. round'.ProposedBlock = round.ProposedBlock /\ round'.Phase = round.Phase
      BY <1>4, <2>1 DEF Round
    <2>3. \A h \in TxHash : Proposed(h)' => Proposed(h)
      BY <1>4, <2>2 DEF Proposed
    <2>4. NoTxTwice'
      BY <2>1 DEF SoloInv, NoTxTwice
    <2>. QED  BY <1>1, <1>2, <1>4, <2>1, <2>2, <2>3, <2>4, SameChain DEF SoloInv, Alone
  <1>5. ASSUME round # Nil, round.Phase = "COMMIT", round.ProposedBlock # Nil,
               NEW votes \in SUBSET Vote, FinalizeBlock([round EXCEPT !.CommitVotes = votes])
        PROVE  SoloInv'
    <2>1. /\ round \in Round /\ round.ProposedBlock \in Block
          /\ round' = [round EXCEPT !.CommitVotes = votes, !.Phase = "FINALIZED"]
      BY <1>1, <1>5, FinalizeFacts
    <2>2. PICK b \in Block : /\ b.Transactions = round.ProposedBlock.Transactions
                             /\ blocks' = Append(blocks, b)
      BY <1>1, <1>5, FinalizeFacts
    <2>3. round'.ProposedBlock = round.ProposedBlock /\ round'.Phase = "FINALIZED"
      BY <2>1 DEF Round
    <2>4. /\ IsInjective(b.Transactions)
          /\ \A h \in TxHash : h \in Range(b.Transactions) => ~OnChain(h)
      BY <1>5, <2>2 DEF SoloInv, Proposed
    <2>5. NoTxTwice'
      BY <1>1, <2>2, <2>4, AppendNoTxTwice DEF SoloInv, BFTTypeOK
    <2>6. loop' # "prepare"
      BY <1>2, <1>5 DEF SoloInv
    <2>. QED  BY <1>1, <1>2, <2>2, <2>3, <2>4, <2>5, <2>6 DEF SoloInv, Alone
  <1>. QED  BY <1>1, <1>3, <1>4, <1>5, CommitVoteFacts DEF DeliverCommitVote

LEMMA NextSoloInv == ASSUME SoloInv, [BFTNext]_vars, Alone' PROVE SoloInv'
  <1>1. BFTInv'
    BY NextBFTInv DEF SoloInv
  <1>2. CASE ReadHeight \/ SeeFinalized \/ Timeout
    BY <1>1, <1>2, SoloUnchanged DEF ReadHeight, SeeFinalized, Timeout, chainVars
  <1>3. CASE StartRound
    <2>1. round'.ProposedBlock = Nil /\ loop' # "prepare" /\ UNCHANGED <<validators, blocks>>
      BY <1>3 DEF StartRound, chainVars
    <2>2. NoTxTwice'
      BY <2>1 DEF SoloInv, NoTxTwice
    <2>. QED  BY <1>1, <2>1, <2>2 DEF SoloInv
  <1>4. CASE ProposeBlock
    BY <1>4, ProposeBlockSolo
  <1>5. CASE OwnPrepareVote
    BY <1>5, OwnPrepareVoteSolo
  <1>6. ASSUME NEW r \in Routine, ReadForCommit(r) PROVE SoloInv'
    BY <1>1, <1>6, SoloUnchanged DEF ReadForCommit, chainVars
  <1>7. ASSUME NEW r \in Routine, DeliverCommitVote(r) PROVE SoloInv'
    BY <1>7, DeliverCommitVoteSolo
  <1>8. ~RemoteStep
    <2>1. Others = {}
      BY DEF SoloInv, Alone, Others, Range
    <2>2. ASSUME NEW v \in Joining PROVE ~AddValidator(v)
      BY DEF SoloInv, Alone, AddValidator
    <2>. QED  BY <2>1, <2>2 DEF RemoteStep
  <1>9. CASE MempoolStep \/ UNCHANGED vars
    BY <1>1, <1>9, SoloUnchanged DEF MempoolStep, vars, bftVars, chainVars
  <1>. QED  BY <1>2, <1>3, <1>4, <1>5, <1>6, <1>7, <1>8, <1>9 DEF BFTNext, RunStep, RoutineStep

\* A validator that joins stays.
LEMMA AloneBefore == ASSUME BFTTypeOK, [BFTNext]_vars, Alone' PROVE Alone
  <1>1. ASSUME NEW v \in Joining, AddValidator(v) PROVE FALSE
    <2>1. validators' = Append(validators, v) /\ validators' = <<NodeAddr>>
      BY <1>1 DEF AddValidator, Alone
    <2>2. validators \in Seq(Address) /\ validators # <<>> /\ v \in Address
      BY BFTAssumption DEF BFTTypeOK
    <2>3. Len(Append(validators, v)) = Len(validators) + 1
      BY <2>2, AppendFacts
    <2>4. Len(validators) \in Nat /\ Len(validators) # 0
      BY <2>2, LenProperties, EmptySeq
    <2>5. Len(Append(validators, v)) = 1
      BY <2>1
    <2>. QED  BY <2>3, <2>4, <2>5
  <1>2. ~(\E v \in Joining : AddValidator(v)) => validators' = validators
    BY DEF BFTNext, RunStep, ReadHeight, StartRound, ProposeBlock, OwnPrepareVote, SeeFinalized,
       Timeout, RoutineStep, ReadForCommit, DeliverCommitVote, RemoteStep, RemotePrepareVote,
       RemoteCommitVote, MempoolStep, vars, bftVars
  <1>. QED  BY <1>1, <1>2 DEF Alone

(***************************************************************************)
(* On a node that is its only validator, as NewNuvexApp sets it up, no     *)
(* transaction gets onto the chain twice, however late the timeouts and    *)
(* the commit goroutines of earlier rounds are, until a validator joins.   *)
(***************************************************************************)
THEOREM AtMostOnceCorrect == BFTSpec => []AtMostOnce
  <1>. DEFINE Inv == BFTInv /\ (Alone => SoloInv)
  <1>1. BFTInit => Inv
    BY InitBFTInv, InitSoloInv
  <1>2. Inv /\ [BFTNext]_vars => Inv'
    <2>. SUFFICES ASSUME Inv, [BFTNext]_vars PROVE Inv'
      OBVIOUS
    <2>1. BFTInv'
      BY NextBFTInv
    <2>2. Alone' => SoloInv'
      BY AloneBefore, NextSoloInv DEF BFTInv
    <2>. QED  BY <2>1, <2>2
  <1>3. Inv => AtMostOnce
    BY DEF SoloInv, AtMostOnce
  <1>. QED  BY <1>1, <1>2, <1>3, PTL DEF BFTSpec

----------------------------------------------------------------------------
(* What the steps do to the round and the chain.                           *)

\* The round is left as it is, or keeps its height and its proposal and is
\* not finalized.
SameRound ==
    \/ round' = round
    \/ /\ round # Nil /\ round' # Nil
       /\ round'.Height = round.Height /\ round'.ProposedBlock = round.ProposedBlock
       /\ round'.Phase = "FINALIZED" => round.Phase = "FINALIZED"

SameChainVars == UNCHANGED <<blocks, disk, totalBlocks, sent>>

\* The proposal of the round becomes the next block.
Finalizes ==
    /\ round # Nil /\ round.Phase = "COMMIT" /\ round.ProposedBlock \in Block
    /\ round' # Nil /\ round'.Phase = "FINALIZED"
    /\ round'.Height = round.Height /\ round'.ProposedBlock = round.ProposedBlock
    /\ totalBlocks' = totalBlocks + 1
    /\ sent' = sent \cup {round.ProposedBlock}
    /\ LET b == NextBlock(failedRounds, round.ProposedBlock.Validator,
                          round.ProposedBlock.Transactions)
       IN  blocks' = Append(blocks, b) /\ disk' = Write(disk, b, "line")

LEMMA PrepareVoteStep ==
    ASSUME BFTTypeOK, NEW vote \in Vote, ReceivePrepareVote(vote)
    PROVE  SameRound
  <1>1. ASSUME round # Nil, NEW votes \in SUBSET Vote, NEW phase \in {"PREPARE", "COMMIT"},
               round' = [round EXCEPT !.PrepareVotes = votes, !.Phase = phase]
        PROVE  SameRound
    <2>1. round \in Round
      BY <1>1 DEF BFTTypeOK
    <2>2. /\ round' \in Round /\ round'.Phase # "FINALIZED"
          /\ round'.Height = round.Height /\ round'.ProposedBlock = round.ProposedBlock
      BY <1>1, <2>1 DEF Round, Phase
    <2>3. round' # Nil
      BY <2>2, NilAssumption
    <2>. QED  BY <1>1, <2>2, <2>3 DEF SameRound
  <1>. QED  BY <1>1, PrepareVoteFacts DEF SameRound

LEMMA CommitVoteStep ==
    ASSUME BFTTypeOK, NEW vote \in Vote, ReceiveCommitVote(vote)
    PROVE  (SameRound /\ SameChainVars) \/ Finalizes
  <1>1. ASSUME round # Nil, NEW votes \in SUBSET Vote,
               round' = [round EXCEPT !.CommitVotes = votes],
               UNCHANGED <<totalBlocks, chainVars, sent>>
        PROVE  SameRound /\ SameChainVars
    <2>1. round \in Round
      BY <1>1 DEF BFTTypeOK
    <2>2. /\ round' \in Round /\ round'.Phase = round.Phase
          /\ round'.Height = round.Height /\ round'.ProposedBlock = round.ProposedBlock
      BY <1>1, <2>1 DEF Round
    <2>3. round' # Nil
      BY <2>2, NilAssumption
    <2>. QED  BY <1>1, <2>2, <2>3 DEF SameRound, SameChainVars, chainVars
  <1>2. ASSUME round # Nil, round.Phase = "COMMIT", round.ProposedBlock # Nil,
               NEW votes \in SUBSET Vote, FinalizeBlock([round EXCEPT !.CommitVotes = votes])
        PROVE  Finalizes
    <2>1. /\ round \in Round /\ round.ProposedBlock \in Block
          /\ round' = [round EXCEPT !.CommitVotes = votes, !.Phase = "FINALIZED"]
          /\ totalBlocks' = totalBlocks + 1
          /\ sent' = sent \cup {round.ProposedBlock}
      BY <1>2, FinalizeFacts
    <2>2. LET b == NextBlock(failedRounds, round.ProposedBlock.Validator,
                             round.ProposedBlock.Transactions)
          IN  blocks' = Append(blocks, b) /\ disk' = Write(disk, b, "line")
      BY <1>2, FinalizeFacts
    <2>3. /\ round' \in Round /\ round'.Phase = "FINALIZED"
          /\ round'.Height = round.Height /\ round'.ProposedBlock = round.ProposedBlock
      BY <2>1 DEF Round, Phase
    <2>4. round' # Nil
      BY <2>3, NilAssumption
    <2>. QED  BY <1>2, <2>1, <2>2, <2>3, <2>4 DEF Finalizes
  <1>3. UNCHANGED <<round, totalBlocks, chainVars, sent>> => SameRound /\ SameChainVars
    BY DEF SameRound, SameChainVars, chainVars
  <1>. QED  BY <1>1, <1>2, <1>3, CommitVoteFacts

\* Every step but the start of a round and a proposal keeps the round or
\* finalizes it, and leaves the set of taken transactions alone.
SameTaken == \A h \in TxHash : txs'[h].Status = "confirmed" <=> txs[h].Status = "confirmed"

LEMMA PoolStepTakesNothing == BFTInv /\ MempoolStep => SameTaken
  <1>. SUFFICES ASSUME BFTInv, MempoolStep PROVE SameTaken
    OBVIOUS
  <1>1. txs \in [TxHash -> PendingTx]
    BY DEF BFTInv, MempoolInv, MempoolTypeOK
  <1>2. ASSUME NEW h \in TxHash, NEW fee \in Fee, Submit(h, fee) PROVE SameTaken
    BY <1>1, <1>2 DEF Submit, SameTaken
  <1>3. CASE Cleanup
    BY <1>3 DEF Cleanup, SameTaken
  <1>4. CASE Tick
    BY <1>1, <1>4 DEF Tick, SameTaken, PendingTx
  <1>. QED  BY <1>2, <1>3, <1>4 DEF MempoolStep

LEMMA StepIsOneOf ==
    ASSUME BFTInv, [BFTNext]_vars
    PROVE  \/ StartRound /\ SameChainVars
           \/ ProposeBlock /\ SameChainVars
           \/ SameRound /\ SameTaken /\ SameChainVars
           \/ Finalizes /\ SameTaken /\ UNCHANGED <<failedRounds, loop>>
  <1>. DEFINE Quiet == SameRound /\ SameTaken /\ SameChainVars
              Final == Finalizes /\ SameTaken /\ UNCHANGED <<failedRounds, loop>>
  <1>1. BFTTypeOK
    BY DEF BFTInv
  <1>2. CASE ReadHeight \/ SeeFinalized \/ Timeout
    BY <1>2 DEF ReadHeight, SeeFinalized, Timeout, SameRound, SameTaken, SameChainVars,
       chainVars, mempoolVars
  <1>3. CASE StartRound \/ ProposeBlock
    BY <1>3 DEF StartRound, ProposeBlock, SameChainVars, chainVars
  <1>4. CASE OwnPrepareVote
    <2>1. SameRound
      BY <1>1, <1>4, OwnVoteType, PrepareVoteStep DEF OwnPrepareVote
    <2>. QED  BY <1>4, <2>1 DEF OwnPrepareVote, SameTaken, SameChainVars, chainVars, mempoolVars
  <1>5. ASSUME NEW v \in Others, NEW h \in 1 .. MaxHeight, RemotePrepareVote(v, h) PROVE Quiet
    <2>1. SameRound
      BY <1>1, <1>5, OthersVoteType, PrepareVoteStep DEF RemotePrepareVote
    <2>. QED  BY <1>5, <2>1 DEF RemotePrepareVote, SameTaken, SameChainVars, chainVars, mempoolVars
  <1>6. ASSUME NEW v \in Others, NEW h \in 1 .. MaxHeight, RemoteCommitVote(v, h)
        PROVE  Quiet \/ Final
    <2>1. (SameRound /\ SameChainVars) \/ Finalizes
      BY <1>1, <1>6, OthersVoteType, CommitVoteStep DEF RemoteCommitVote
    <2>. QED  BY <1>6, <2>1 DEF RemoteCommitVote, SameTaken, mempoolVars
  <1>7. ASSUME NEW r \in Routine, ReadForCommit(r) PROVE Quiet
    BY <1>7 DEF ReadForCommit, SameRound, SameTaken, SameChainVars, chainVars, mempoolVars
  <1>8. ASSUME NEW r \in Routine, DeliverCommitVote(r) PROVE Quiet \/ Final
    <2>1. routine[r].vote \in Vote
      BY <1>8 DEF DeliverCommitVote, BFTInv, ThreadsAreInOrder
    <2>2. (SameRound /\ SameChainVars) \/ Finalizes
      BY <1>1, <1>8, <2>1, CommitVoteStep DEF DeliverCommitVote
    <2>. QED  BY <1>8, <2>2 DEF DeliverCommitVote, SameTaken, mempoolVars
  <1>9. ASSUME NEW v \in Joining, AddValidator(v) PROVE Quiet
    BY <1>9 DEF AddValidator, SameRound, SameTaken, SameChainVars, chainVars, mempoolVars
  <1>10. CASE MempoolStep
    BY <1>10, PoolStepTakesNothing DEF MempoolStep, SameRound, SameChainVars, chainVars, bftVars
  <1>11. CASE UNCHANGED vars
    BY <1>11 DEF vars, bftVars, mempoolVars, chainVars, SameRound, SameTaken, SameChainVars
  <1>. QED  BY <1>2, <1>3, <1>4, <1>5, <1>6, <1>7, <1>8, <1>9, <1>10, <1>11
            DEF BFTNext, RunStep, RoutineStep, RemoteStep

----------------------------------------------------------------------------
(* The chain and its file.                                                 *)

\* The file was written line by line and never holds less than the memory.
ChainInv == Sound(blocks) /\ disk = StoredAs(blocks) /\ totalBlocks = Len(blocks) - 1

LEMMA InitChainInv == BFTInit => ChainInv
  <1>. SUFFICES ASSUME BFTInit PROVE ChainInv
    OBVIOUS
  <1>1. Sound(blocks) /\ disk = StoredAs(blocks)
    BY FirstFiles DEF BFTInit
  <1>. QED  BY <1>1 DEF BFTInit, ChainInv

\* The block that a finalized round leaves behind.
LEMMA FinalizedBlock ==
    ASSUME BFTInv, Finalizes
    PROVE  \E b \in Block :
              /\ b = NextBlock(failedRounds, round.ProposedBlock.Validator,
                               round.ProposedBlock.Transactions)
              /\ b.Height = Height + 1 /\ b.PrevHash = LatestBlock.Hash
              /\ b.Validator = round.ProposedBlock.Validator
              /\ b.Transactions = round.ProposedBlock.Transactions
              /\ blocks' = Append(blocks, b)
              /\ disk' = Write(disk, b, "line")
  <1>1. /\ blocks \in Seq(Block) /\ blocks # <<>> /\ failedRounds \in Nat
        /\ round.ProposedBlock.Validator \in Address
        /\ round.ProposedBlock.Transactions \in Seq(TxHash)
    BY BFTAssumption DEF BFTInv, BFTTypeOK, Finalizes, Block
  <1>2. Height \in Nat /\ Height + 1 \in Nat /\ LatestBlock.Hash \in Hash
    BY <1>1, LatestBlockType
  <1>3. PICK b : b = NextBlock(failedRounds, round.ProposedBlock.Validator,
                               round.ProposedBlock.Transactions)
    OBVIOUS
  <1>4. /\ b \in Block /\ b.Height = Height + 1 /\ b.PrevHash = LatestBlock.Hash
        /\ b.Validator = round.ProposedBlock.Validator
        /\ b.Transactions = round.ProposedBlock.Transactions
    BY <1>1, <1>2, <1>3, NewBlockFacts DEF NextBlock
  <1>. QED  BY <1>3, <1>4 DEF Finalizes

LEMMA FinalizedChain == ASSUME BFTInv, ChainInv, Finalizes PROVE ChainInv'
  <1>1. /\ blocks \in Seq(Block) /\ blocks # <<>> /\ Len(blocks) \in Nat
        /\ failedRounds \in Nat
        /\ round.ProposedBlock.Validator \in Address
        /\ round.ProposedBlock.Transactions \in Seq(TxHash)
    BY BFTAssumption, LenProperties DEF BFTInv, BFTTypeOK, Finalizes, Block
  <1>2. PICK b \in Block : /\ b = NextBlock(failedRounds, round.ProposedBlock.Validator,
                                            round.ProposedBlock.Transactions)
                           /\ blocks' = Append(blocks, b)
                           /\ disk' = Write(disk, b, "line")
    BY FinalizedBlock
  <1>3. Sound(Append(blocks, b))
    BY <1>1, <1>2, NextBlockSound DEF ChainInv
  <1>4. disk' = StoredAs(blocks') /\ Len(blocks') = Len(blocks) + 1
    BY <1>1, <1>2, WriteLine, AppendFacts DEF ChainInv
  <1>5. totalBlocks' = Len(blocks') - 1
    BY <1>1, <1>4 DEF Finalizes, ChainInv
  <1>6. Sound(blocks')
    BY <1>2, <1>3
  <1>. QED  BY <1>4, <1>5, <1>6 DEF ChainInv

LEMMA NextChainInv == ASSUME BFTInv, ChainInv, [BFTNext]_vars PROVE ChainInv'
  <1>1. CASE SameChainVars
    BY <1>1 DEF SameChainVars, ChainInv, Sound, Linked
  <1>2. CASE Finalizes
    BY <1>2, FinalizedChain
  <1>. QED  BY <1>1, <1>2, StepIsOneOf

(***************************************************************************)
(* Whatever rounds time out, whoever votes and however late the commit     *)
(* goroutines are: the node's chain passes ValidateChain, its heights      *)
(* count up from the genesis block, a restart would load this very chain   *)
(* from the file, and total_blocks_finalized is its length.                *)
(***************************************************************************)
THEOREM StoredChainIsValidCorrect == BFTSpec => []StoredChainIsValid
  <1>1. BFTInit => BFTInv /\ ChainInv
    BY InitBFTInv, InitChainInv
  <1>2. BFTInv /\ ChainInv /\ [BFTNext]_vars => (BFTInv /\ ChainInv)'
    BY NextBFTInv, NextChainInv
  <1>3. BFTInv /\ ChainInv => StoredChainIsValid
    BY LoadStored DEF BFTInv, BFTTypeOK, ChainInv, Sound, StoredChainIsValid, ValidateChain
  <1>. QED  BY <1>1, <1>2, <1>3, PTL DEF BFTSpec

----------------------------------------------------------------------------
(* What timeouts lose.                                                     *)

\* The taken transactions that are not on the chain, the ones of them that
\* the current proposal still holds, and the others.
Unstored == {h \in TxHash : txs[h].Status = "confirmed" /\ ~OnChain(h)}

InRound == {h \in TxHash : Proposed(h) /\ ~OnChain(h)}

Lost == {h \in TxHash : txs[h].Status = "confirmed" /\ ~OnChain(h) /\ ~Proposed(h)}

\* As many transactions as the timed-out rounds could take, or fewer.
TimeoutsAccountFor(S) ==
    /\ IsFiniteSet(S)
    /\ failedRounds < MaxFailed => Cardinality(S) <= failedRounds * MaxTxPerBlock

(***************************************************************************)
(* While the loop is between two rounds the current proposal counts as     *)
(* lost, unless the round was finalized: the next round will drop it.      *)
(***************************************************************************)
LossInv ==
    /\ loop = "propose" => round.ProposedBlock = Nil
    /\ round # Nil /\ round.Phase = "FINALIZED" => InRound = {}
    /\ IsFiniteSet(InRound) /\ Cardinality(InRound) <= MaxTxPerBlock
    /\ TimeoutsAccountFor(Lost)
    /\ loop \in {"height", "start"} => TimeoutsAccountFor(Unstored)

\* Fewer transactions are accounted for by the same timeouts.
LEMMA FewerAccounted ==
    ASSUME NEW S, TimeoutsAccountFor(S), NEW T \in SUBSET S, failedRounds' = failedRounds,
           failedRounds \in Nat
    PROVE  TimeoutsAccountFor(T)'
  <1>1. IsFiniteSet(T) /\ Cardinality(T) <= Cardinality(S)
    BY FS_Subset DEF TimeoutsAccountFor
  <1>2. Cardinality(T) \in Nat /\ Cardinality(S) \in Nat
    BY <1>1, FS_CardinalityType DEF TimeoutsAccountFor
  <1>3. failedRounds * MaxTxPerBlock \in Nat
    BY MempoolAssumption
  <1>. QED  BY <1>1, <1>2, <1>3 DEF TimeoutsAccountFor

\* What is in the round or lost is what was taken and is not on the chain.
LEMMA UnstoredParts ==
    ASSUME TakenAreConfirmed
    PROVE  Unstored = Lost \cup InRound /\ Lost \subseteq Unstored /\ InRound \subseteq Unstored
  BY DEF TakenAreConfirmed, Unstored, Lost, InRound

LEMMA InitLossInv == BFTInit => LossInv
  <1>. SUFFICES ASSUME BFTInit PROVE LossInv
    OBVIOUS
  <1>1. InRound = {}
    BY DEF BFTInit, InRound, Proposed
  <1>2. Unstored = {} /\ Lost = {}
    BY DEF BFTInit, MempoolInit, NoTx, Unstored, Lost
  <1>3. IsFiniteSet({}) /\ Cardinality({}) = 0
    BY FS_EmptySet
  <1>4. 0 * MaxTxPerBlock = 0 /\ 0 <= MaxTxPerBlock
    BY MempoolAssumption
  <1>. QED  BY <1>1, <1>2, <1>3, <1>4 DEF BFTInit, LossInv, TimeoutsAccountFor

\* A round that is kept or finalized neither takes nor loses a transaction.
LEMMA SameRoundSets ==
    ASSUME BFTInv, SameTaken,
           (SameRound /\ SameChainVars) \/ Finalizes
    PROVE  /\ Unstored' \subseteq Unstored /\ InRound' \subseteq InRound /\ Lost' \subseteq Lost
           /\ Finalizes => InRound' = {}
  <1>1. ASSUME NEW h PROVE Proposed(h)' <=> Proposed(h)
    BY SameProposal DEF SameRound, Finalizes, Proposed
  <1>2. ASSUME NEW h, OnChain(h) PROVE OnChain(h)'
    <2>1. CASE SameChainVars
      BY <1>2, <2>1, SameChain DEF SameChainVars
    <2>2. CASE Finalizes
      <3>1. PICK b : blocks' = Append(blocks, b)
        BY <2>2 DEF Finalizes
      <3>2. /\ Len(blocks) \in Nat /\ Len(blocks') = Len(blocks) + 1
            /\ \A i \in 1 .. Len(blocks) : blocks'[i] = blocks[i]
        BY <3>1 DEF BFTInv, BFTTypeOK
      <3>. QED  BY <1>2, <3>2 DEF OnChain
    <2>. QED  BY <2>1, <2>2
  <1>3. Unstored' \subseteq Unstored /\ InRound' \subseteq InRound /\ Lost' \subseteq Lost
    BY <1>1, <1>2 DEF SameTaken, Unstored, InRound, Lost
  <1>4. ASSUME Finalizes, NEW h, Proposed(h)' PROVE OnChain(h)'
    <2>1. PICK b \in Block : /\ b.Transactions = round.ProposedBlock.Transactions
                             /\ blocks' = Append(blocks, b)
      BY <1>4, FinalizedBlock
    <2>2. /\ Len(blocks') \in Nat /\ Len(blocks') = Len(blocks) + 1 /\ Len(blocks) \in Nat
          /\ blocks'[Len(blocks')] = b
      BY <2>1, AppendFacts DEF BFTInv, BFTTypeOK
    <2>3. h \in Range(b.Transactions)
      BY <1>1, <1>4, <2>1 DEF Proposed
    <2>. QED  BY <2>2, <2>3 DEF OnChain
  <1>5. Finalizes => InRound' = {}
    BY <1>4 DEF InRound
  <1>. QED  BY <1>3, <1>5

\* How the loop goes on.
LEMMA LoopStep ==
    ASSUME [BFTNext]_vars
    PROVE  \/ StartRound \/ ProposeBlock \/ SeeFinalized \/ Timeout
           \/ /\ failedRounds' = failedRounds
              /\ \/ loop' = loop
                 \/ loop = "height" /\ loop' = "start"
                 \/ loop = "prepare" /\ loop' = "wait"
  BY DEF BFTNext, RunStep, ReadHeight, OwnPrepareVote, RoutineStep, ReadForCommit,
     DeliverCommitVote, RemoteStep, RemotePrepareVote, RemoteCommitVote, AddValidator,
     MempoolStep, vars, bftVars

\* A new round drops the old proposal.
LEMMA StartRoundLoss == ASSUME BFTInv, LossInv, StartRound PROVE LossInv'
  <1>1. /\ round'.ProposedBlock = Nil /\ round'.Phase = "NEW_ROUND"
        /\ loop = "start" /\ loop' \in {"propose", "wait"}
        /\ UNCHANGED <<txs, blocks, failedRounds>>
    BY DEF StartRound, mempoolVars, chainVars
  <1>2. InRound' = {} /\ Lost' \subseteq Unstored
    BY <1>1, SameChain DEF InRound, Lost, Unstored, Proposed
  <1>3. TimeoutsAccountFor(Lost)'
    <2>1. failedRounds \in Nat /\ TimeoutsAccountFor(Unstored)
      BY <1>1, BFTAssumption DEF LossInv, BFTInv, BFTTypeOK
    <2>2. PICK T \in SUBSET Unstored : T = Lost'
      BY <1>2
    <2>3. IsFiniteSet(T) /\ (failedRounds' < MaxFailed => Cardinality(T) <= failedRounds' * MaxTxPerBlock)
      BY <1>1, <2>1, <2>2, FewerAccounted DEF TimeoutsAccountFor
    <2>. QED  BY <2>2, <2>3 DEF TimeoutsAccountFor
  <1>4. IsFiniteSet({}) /\ Cardinality({}) <= MaxTxPerBlock
    BY FS_EmptySet, MempoolAssumption
  <1>. QED  BY <1>1, <1>2, <1>3, <1>4 DEF LossInv

\* A proposal takes what it holds, and no more than a block may hold.
LEMMA ProposeBlockLoss == ASSUME BFTInv, LossInv, ProposeBlock PROVE LossInv'
  <1>1. PICK q \in Selections(MaxTxPerBlock) :
          /\ SelectForBlock(q)
          /\ round' = [round EXCEPT !.ProposedBlock = Proposal(round.Height, q), !.Phase = "PROPOSE"]
    BY DEF ProposeBlock
  <1>2. /\ q \in Seq(TxHash) /\ IsFiniteSet(Range(q)) /\ Cardinality(Range(q)) <= MaxTxPerBlock
        /\ MaxTxPerBlock \in Nat
    BY SelectionFacts, MempoolAssumption DEF BFTInv, MempoolInv, SizeIsExact
  <1>3. /\ round \in Round /\ round.Height \in Nat /\ failedRounds \in Nat
        /\ loop = "propose" /\ round.ProposedBlock = Nil
    BY BFTAssumption DEF ProposeBlock, BFTInv, BFTTypeOK, ThreadsAreInOrder, Round, LossInv
  <1>4. PICK b \in Block : b = Proposal(round.Height, q) /\ b.Transactions = q
    BY <1>2, <1>3, ProposalFacts, BFTAssumption DEF BFTInv, BFTTypeOK
  <1>5. round' \in Round /\ round'.ProposedBlock = b /\ round'.Phase = "PROPOSE"
    BY <1>1, <1>3, <1>4 DEF Round, Phase
  <1>6. UNCHANGED <<blocks, failedRounds>> /\ loop' = "prepare"
    BY DEF ProposeBlock, chainVars
  <1>7. InRound' \subseteq Range(q)
    BY <1>4, <1>5 DEF InRound, Proposed
  <1>8. Lost' \subseteq Lost
    <2>1. ASSUME NEW h \in TxHash, ~OnChain(h)', ~Proposed(h)', txs'[h].Status = "confirmed"
          PROVE  h \in Lost
      <3>1. h \notin Range(q)
        BY <1>4, <1>5, <2>1, NilAssumption DEF Proposed
      <3>2. txs[h].Status = "confirmed"
        BY <1>1, <2>1, <3>1 DEF SelectForBlock
      <3>3. ~OnChain(h) /\ ~Proposed(h)
        BY <1>3, <1>6, <2>1, SameChain DEF Proposed
      <3>. QED  BY <3>2, <3>3 DEF Lost
    <2>. QED  BY <2>1 DEF Lost
  <1>9. TimeoutsAccountFor(Lost)'
    <2>1. PICK T \in SUBSET Lost : T = Lost'
      BY <1>8
    <2>2. IsFiniteSet(T) /\ (failedRounds' < MaxFailed => Cardinality(T) <= failedRounds' * MaxTxPerBlock)
      BY <1>3, <1>6, FewerAccounted DEF LossInv, TimeoutsAccountFor
    <2>. QED  BY <2>1, <2>2 DEF TimeoutsAccountFor
  <1>10. IsFiniteSet(InRound') /\ Cardinality(InRound') <= MaxTxPerBlock
    <2>1. PICK T \in SUBSET Range(q) : T = InRound'
      BY <1>7
    <2>2. IsFiniteSet(T) /\ Cardinality(T) <= Cardinality(Range(q))
      BY <1>2, FS_Subset
    <2>3. Cardinality(T) \in Nat /\ Cardinality(Range(q)) \in Nat
      BY <1>2, <2>2, FS_CardinalityType
    <2>4. Cardinality(T) <= MaxTxPerBlock
      BY <1>2, <2>2, <2>3
    <2>. QED  BY <2>1, <2>2, <2>4
  <1>. QED  BY <1>5, <1>6, <1>9, <1>10 DEF LossInv

\* A timeout loses at most the proposal of its round.
LEMMA TimeoutLoss == ASSUME BFTInv, LossInv, Timeout PROVE LossInv'
  <1>1. /\ UNCHANGED <<txs, blocks, round>> /\ loop' = "height"
        /\ failedRounds' < MaxFailed => failedRounds < MaxFailed /\ failedRounds' = failedRounds + 1
        /\ failedRounds \in Nat
    BY BFTAssumption DEF Timeout, mempoolVars, chainVars, BFTInv, BFTTypeOK
  <1>2. Unstored' = Unstored /\ InRound' = InRound /\ Lost' = Lost
    BY <1>1, SameChain DEF Unstored, InRound, Lost, Proposed
  <1>3. /\ Unstored = Lost \cup InRound /\ Lost \in SUBSET Unstored
        /\ IsFiniteSet(Lost) /\ IsFiniteSet(InRound) /\ Cardinality(InRound) <= MaxTxPerBlock
        /\ failedRounds < MaxFailed => Cardinality(Lost) <= failedRounds * MaxTxPerBlock
    BY UnstoredParts DEF BFTInv, LossInv, TimeoutsAccountFor
  <1>4. /\ IsFiniteSet(Unstored) /\ Cardinality(Unstored) <= Cardinality(Lost) + Cardinality(InRound)
        /\ Cardinality(Lost) <= Cardinality(Unstored)
    <2>1. /\ IsFiniteSet(Unstored)
          /\ Cardinality(Unstored)
               = Cardinality(Lost) + Cardinality(InRound) - Cardinality(Lost \cap InRound)
      BY <1>3, FS_Union
    <2>2. IsFiniteSet(Lost \cap InRound) /\ Cardinality(Lost) <= Cardinality(Unstored)
      BY <1>3, <2>1, FS_Subset
    <2>. QED  BY <1>3, <2>1, <2>2, FS_CardinalityType
  <1>5. failedRounds' < MaxFailed => Cardinality(Unstored) <= failedRounds' * MaxTxPerBlock
    <2>1. (failedRounds + 1) * MaxTxPerBlock = failedRounds * MaxTxPerBlock + MaxTxPerBlock
      BY <1>1, MempoolAssumption
    <2>2. failedRounds * MaxTxPerBlock \in Nat
      BY <1>1, MempoolAssumption
    <2>. QED  BY <1>1, <1>3, <1>4, <2>1, <2>2, FS_CardinalityType, MempoolAssumption
  <1>6. failedRounds' < MaxFailed => Cardinality(Lost) <= failedRounds' * MaxTxPerBlock
    <2>1. failedRounds' * MaxTxPerBlock \in Nat
      BY <1>1, BFTAssumption, MempoolAssumption DEF Timeout
    <2>. QED  BY <1>3, <1>4, <1>5, <2>1, FS_CardinalityType
  <1>. QED  BY <1>1, <1>2, <1>3, <1>4, <1>5, <1>6 DEF LossInv, TimeoutsAccountFor

\* A finalized round has lost nothing.
LEMMA SeeFinalizedLoss == ASSUME BFTInv, LossInv, SeeFinalized PROVE LossInv'
  <1>1. /\ UNCHANGED <<txs, blocks, round, failedRounds>> /\ loop' = "height" /\ loop = "wait"
        /\ round.Phase = "FINALIZED"
    BY DEF SeeFinalized, mempoolVars, chainVars
  <1>2. Unstored' = Unstored /\ InRound' = InRound /\ Lost' = Lost
    BY <1>1, SameChain DEF Unstored, InRound, Lost, Proposed
  <1>3. round # Nil
    BY <1>1, NilAssumption DEF BFTInv, ThreadsAreInOrder
  <1>4. Unstored = Lost
    BY <1>1, <1>3, UnstoredParts DEF BFTInv, LossInv
  <1>. QED  BY <1>1, <1>2, <1>4 DEF LossInv, TimeoutsAccountFor

LEMMA NextLossInv == ASSUME BFTInv, LossInv, [BFTNext]_vars PROVE LossInv'
  <1>1. CASE StartRound \/ ProposeBlock \/ Timeout \/ SeeFinalized
    BY <1>1, StartRoundLoss, ProposeBlockLoss, TimeoutLoss, SeeFinalizedLoss
  <1>2. CASE ~(StartRound \/ ProposeBlock \/ Timeout \/ SeeFinalized)
    <2>1. /\ SameTaken
          /\ (SameRound /\ SameChainVars) \/ Finalizes
      BY <1>2, StepIsOneOf
    <2>2. /\ failedRounds' = failedRounds
          /\ loop' = "propose" => loop = "propose"
          /\ loop' \in {"height", "start"} => loop \in {"height", "start"}
      BY <1>2, LoopStep
    <2>3. /\ Unstored' \subseteq Unstored /\ InRound' \subseteq InRound /\ Lost' \subseteq Lost
          /\ Finalizes => InRound' = {}
      BY <2>1, SameRoundSets
    <2>4. loop' = "propose" => round'.ProposedBlock = Nil
      BY <2>1, <2>2 DEF LossInv, SameRound, Finalizes
    <2>5. round' # Nil /\ round'.Phase = "FINALIZED" => InRound' = {}
      BY <2>1, <2>3 DEF LossInv, SameRound
    <2>6. failedRounds \in Nat
      BY BFTAssumption DEF BFTInv, BFTTypeOK
    <2>7. TimeoutsAccountFor(Lost)'
      <3>1. PICK T \in SUBSET Lost : T = Lost'
        BY <2>3
      <3>2. IsFiniteSet(T) /\ (failedRounds' < MaxFailed => Cardinality(T) <= failedRounds' * MaxTxPerBlock)
        BY <2>2, <2>6, FewerAccounted DEF LossInv, TimeoutsAccountFor
      <3>. QED  BY <3>1, <3>2 DEF TimeoutsAccountFor
    <2>8. loop' \in {"height", "start"} => TimeoutsAccountFor(Unstored)'
      <3>. SUFFICES ASSUME loop \in {"height", "start"} PROVE TimeoutsAccountFor(Unstored)'
        BY <2>2
      <3>1. PICK T \in SUBSET Unstored : T = Unstored'
        BY <2>3
      <3>2. IsFiniteSet(T) /\ (failedRounds' < MaxFailed => Cardinality(T) <= failedRounds' * MaxTxPerBlock)
        BY <2>2, <2>6, FewerAccounted DEF LossInv, TimeoutsAccountFor
      <3>. QED  BY <3>1, <3>2 DEF TimeoutsAccountFor
    <2>9. IsFiniteSet(InRound') /\ Cardinality(InRound') <= MaxTxPerBlock
      <3>1. PICK T \in SUBSET InRound : T = InRound'
        BY <2>3
      <3>2. IsFiniteSet(T) /\ Cardinality(T) <= Cardinality(InRound)
        BY FS_Subset DEF LossInv
      <3>3. Cardinality(T) \in Nat /\ Cardinality(InRound) \in Nat /\ MaxTxPerBlock \in Nat
        BY <3>2, FS_CardinalityType, MempoolAssumption DEF LossInv
      <3>4. Cardinality(T) <= MaxTxPerBlock
        BY <3>2, <3>3 DEF LossInv
      <3>. QED  BY <3>1, <3>2, <3>4
    <2>. QED  BY <2>4, <2>5, <2>7, <2>8, <2>9 DEF LossInv
  <1>. QED  BY <1>1, <1>2

(***************************************************************************)
(* For any set of validators and any interleaving of the loop, the commit  *)
(* goroutines and the votes: a taken transaction is on the chain or in the *)
(* current proposal, but for at most MaxTxPerBlock for each timeout.       *)
(***************************************************************************)
THEOREM LostOnlyByTimeoutCorrect == BFTSpec => []LostOnlyByTimeout
  <1>1. BFTInit => BFTInv /\ LossInv
    BY InitBFTInv, InitLossInv
  <1>2. BFTInv /\ LossInv /\ [BFTNext]_vars => (BFTInv /\ LossInv)'
    BY NextBFTInv, NextLossInv
  <1>3. LossInv => LostOnlyByTimeout
    BY DEF LossInv, TimeoutsAccountFor, Lost, LostOnlyByTimeout
  <1>. QED  BY <1>1, <1>2, <1>3, PTL DEF BFTSpec

----------------------------------------------------------------------------
(* What a node that votes alone, in a network that is in time, sends.      *)

\* No commit goroutine is on its way.
Quiet == \A r \in Routine : routine[r].at = "idle"

OnChainAs(b) ==
    \E i \in 1 .. Len(blocks) : SameButHash(b, blocks[i])

(***************************************************************************)
(* A proposal has its round's height.  While the node votes alone, at most *)
(* one goroutine is on its way, and only while the loop waits for the      *)
(* round that started it, so that a round that is not finalized is still   *)
(* about the next height of the chain, and its proposal about a successor  *)
(* of the latest block.                                                    *)
(***************************************************************************)
HeightsInv ==
    /\ round # Nil /\ round.ProposedBlock # Nil => round.ProposedBlock.Height = round.Height
    /\ Alone =>
          /\ loop # "wait" => Quiet
          /\ \A r, s \in Routine : routine[r].at # "idle" /\ routine[s].at # "idle" => r = s
          /\ round # Nil /\ round.Phase = "FINALIZED" => Quiet
          /\ loop = "start" => height = Height + 1
          /\ loop \in {"propose", "prepare"} => round.Phase # "FINALIZED"
          /\ loop \in {"propose", "prepare", "wait"} /\ round.Phase # "FINALIZED"
                => round.Height = Height + 1
          /\ loop \in {"prepare", "wait"} /\ round.Phase # "FINALIZED" /\ round.ProposedBlock # Nil
                => round.ProposedBlock.PrevHash = LatestBlock.Hash
          /\ \A b \in sent : OnChainAs(b)

LEMMA InitHeightsInv == BFTInit => HeightsInv
  BY DEF BFTInit, HeightsInv, Quiet, Idle

\* Steps that touch neither the goroutines, the round, the chain nor what
\* was sent.
LEMMA HeightsUnchanged ==
    ASSUME HeightsInv, UNCHANGED <<routine, round, blocks, sent, height>>, Alone' => Alone,
           loop' = loop
    PROVE  HeightsInv'
  <1>1. UNCHANGED Height /\ UNCHANGED LatestBlock
    BY DEF Height, LatestBlock
  <1>2. UNCHANGED Quiet /\ \A b \in sent : OnChainAs(b)' <=> OnChainAs(b)
    BY DEF Quiet, OnChainAs
  <1>. QED  BY <1>1, <1>2 DEF HeightsInv

LEMMA LoopHeights ==
    ASSUME BFTInv, HeightsInv, ReadHeight \/ StartRound \/ SeeFinalized \/ LateTimeout
    PROVE  HeightsInv'
  <1>1. UNCHANGED <<validators, routine, blocks, sent>> /\ (Alone' => Alone)
    BY DEF ReadHeight, StartRound, SeeFinalized, LateTimeout, Timeout, chainVars, Alone
  <1>2. UNCHANGED <<Height, LatestBlock>> /\ UNCHANGED Quiet /\ \A b \in sent : OnChainAs(b)' <=> OnChainAs(b)
    BY <1>1 DEF Height, LatestBlock, Quiet, OnChainAs
  <1>3. CASE ReadHeight
    BY <1>1, <1>2, <1>3 DEF ReadHeight, HeightsInv
  <1>4. CASE StartRound
    <2>1. /\ round'.ProposedBlock = Nil /\ round'.Phase = "NEW_ROUND"
          /\ round'.Height = height /\ loop = "start" /\ loop' \in {"propose", "wait"}
      BY <1>4 DEF StartRound
    <2>. QED  BY <1>1, <1>2, <2>1 DEF HeightsInv
  <1>5. CASE SeeFinalized
    <2>1. round # Nil
      BY <1>5, NilAssumption DEF SeeFinalized, BFTInv, ThreadsAreInOrder
    <2>. QED  BY <1>1, <1>2, <1>5, <2>1 DEF SeeFinalized, HeightsInv
  <1>6. CASE LateTimeout
    BY <1>1, <1>2, <1>6 DEF LateTimeout, Timeout, Quiet, HeightsInv
  <1>. QED  BY <1>3, <1>4, <1>5, <1>6

LEMMA ProposeBlockHeights == ASSUME BFTInv, HeightsInv, ProposeBlock PROVE HeightsInv'
  <1>1. PICK q \in Selections(MaxTxPerBlock) :
          round' = [round EXCEPT !.ProposedBlock = Proposal(round.Height, q), !.Phase = "PROPOSE"]
    BY DEF ProposeBlock
  <1>2. q \in Seq(TxHash)
    BY SelectionFacts, MempoolAssumption DEF BFTInv, MempoolInv, SizeIsExact
  <1>3. round \in Round /\ round.Height \in Nat /\ failedRounds \in Nat /\ loop = "propose"
    BY BFTAssumption DEF ProposeBlock, BFTInv, BFTTypeOK, ThreadsAreInOrder, Round
  <1>4. PICK b \in Block : /\ b = Proposal(round.Height, q) /\ b.Height = round.Height
                           /\ b.PrevHash = LatestBlock.Hash
    BY <1>2, <1>3, ProposalFacts, BFTAssumption DEF BFTInv, BFTTypeOK
  <1>5. /\ round'.ProposedBlock = b /\ round'.Phase = "PROPOSE" /\ round'.Height = round.Height
        /\ loop' = "prepare"
    BY <1>1, <1>3, <1>4 DEF Round, ProposeBlock
  <1>6. UNCHANGED <<validators, routine, blocks, sent>>
    BY DEF ProposeBlock, chainVars
  <1>7. UNCHANGED <<Height, LatestBlock>> /\ UNCHANGED Quiet /\ \A c \in sent : OnChainAs(c)' <=> OnChainAs(c)
    BY <1>6 DEF Height, LatestBlock, Quiet, OnChainAs
  <1>. QED  BY <1>3, <1>4, <1>5, <1>6, <1>7 DEF HeightsInv, Alone

\* The proposer's own vote starts the goroutine of the round.
LEMMA OwnPrepareVoteHeights == ASSUME BFTInv, HeightsInv, OwnPrepareVote PROVE HeightsInv'
  <1>1. /\ UNCHANGED <<validators, blocks, sent>> /\ loop = "prepare" /\ loop' = "wait"
        /\ round \in Round /\ round # Nil /\ BFTTypeOK
    BY NilAssumption DEF OwnPrepareVote, chainVars, BFTInv, ThreadsAreInOrder
  <1>2. UNCHANGED <<Height, LatestBlock>> /\ \A c \in sent : OnChainAs(c)' <=> OnChainAs(c)
    BY <1>1 DEF Height, LatestBlock, OnChainAs
  <1>3. \/ UNCHANGED <<round, routine>>
        \/ /\ round'.Phase # "FINALIZED" /\ round'.Height = round.Height
           /\ round'.ProposedBlock = round.ProposedBlock
           /\ routine' = routine \/ \E r \in Routine : routine' = [routine EXCEPT ![r] = Started]
    <2>1. ASSUME NEW votes \in SUBSET Vote, NEW phase \in {"PREPARE", "COMMIT"},
                 round' = [round EXCEPT !.PrepareVotes = votes, !.Phase = phase]
          PROVE  /\ round'.Phase # "FINALIZED" /\ round'.Height = round.Height
                 /\ round'.ProposedBlock = round.ProposedBlock
      BY <1>1, <2>1 DEF Round
    <2>. QED  BY <1>1, <2>1, OwnVoteType, PrepareVoteFacts DEF OwnPrepareVote
  <1>4. Alone => \A r, s \in Routine : routine'[r].at # "idle" /\ routine'[s].at # "idle" => r = s
    <2>1. Alone => \A r \in Routine : routine[r].at = "idle"
      BY <1>1 DEF HeightsInv, Quiet
    <2>2. routine \in [Routine -> Goroutine]
      BY <1>1 DEF BFTTypeOK
    <2>. QED  BY <1>3, <2>1, <2>2
  <1>. QED  BY <1>1, <1>2, <1>3, <1>4 DEF HeightsInv, Alone

\* A goroutine that reads the round stays the only one.
LEMMA ReadForCommitHeights ==
    ASSUME BFTInv, HeightsInv, NEW r \in Routine, ReadForCommit(r)
    PROVE  HeightsInv'
  <1>1. /\ UNCHANGED <<validators, round, blocks, sent, loop, height>>
        /\ routine \in [Routine -> Goroutine] /\ routine[r].at # "idle"
        /\ \A s \in Routine \ {r} : routine'[s] = routine[s]
    BY DEF ReadForCommit, chainVars, BFTInv, BFTTypeOK
  <1>2. UNCHANGED <<Height, LatestBlock>> /\ \A c \in sent : OnChainAs(c)' <=> OnChainAs(c)
    BY <1>1 DEF Height, LatestBlock, OnChainAs
  <1>3. ~Quiet
    BY <1>1 DEF Quiet
  <1>4. Alone => \A s, t \in Routine : routine'[s].at # "idle" /\ routine'[t].at # "idle" => s = t
    BY <1>1 DEF HeightsInv
  <1>. QED  BY <1>1, <1>2, <1>3, <1>4 DEF HeightsInv, Alone

\* The goroutine's vote finds the round that started it.
LEMMA DeliverCommitVoteHeights ==
    ASSUME BFTInv, HeightsInv, NEW r \in Routine, DeliverCommitVote(r)
    PROVE  HeightsInv'
  <1>1. /\ UNCHANGED <<validators, loop, height>> /\ BFTTypeOK
        /\ routine \in [Routine -> Goroutine] /\ routine[r].at # "idle"
        /\ routine' = [routine EXCEPT ![r] = Idle]
    BY DEF DeliverCommitVote, BFTInv, BFTTypeOK
  <1>2. ~Quiet /\ (Alone => Quiet')
    BY <1>1 DEF Quiet, HeightsInv, Idle
  <1>3. (SameRound /\ SameChainVars) \/ Finalizes
    <2>1. routine[r].vote \in Vote
      BY DEF DeliverCommitVote, BFTInv, ThreadsAreInOrder
    <2>. QED  BY <1>1, <2>1, CommitVoteStep DEF DeliverCommitVote
  <1>4. Alone => loop = "wait" /\ round \in Round /\ round # Nil /\ round.Phase # "FINALIZED"
                 /\ round.Height = Height + 1
    BY <1>2, NilAssumption DEF HeightsInv, BFTInv, ThreadsAreInOrder
  <1>5. CASE SameRound /\ SameChainVars
    <2>1. UNCHANGED <<Height, LatestBlock>> /\ \A c \in sent : OnChainAs(c)' <=> OnChainAs(c)
      BY <1>5 DEF SameChainVars, Height, LatestBlock, OnChainAs
    <2>2. UNCHANGED sent
      BY <1>5 DEF SameChainVars
    <2>3. round' # Nil /\ round'.ProposedBlock # Nil => round'.ProposedBlock.Height = round'.Height
      BY <1>5 DEF SameRound, HeightsInv
    <2>4. Alone => round'.Height = round.Height
      BY <1>5, <1>4 DEF SameRound
    <2>5. Alone => (round'.ProposedBlock # Nil => round'.ProposedBlock.PrevHash = LatestBlock'.Hash)
      BY <1>5, <1>4, <2>1 DEF SameRound, HeightsInv
    <2>. QED  BY <1>1, <1>2, <1>4, <2>1, <2>2, <2>3, <2>4, <2>5 DEF HeightsInv, Alone, Quiet
  <1>6. CASE Finalizes
    <2>1. PICK b \in Block : /\ b.Height = Height + 1 /\ b.PrevHash = LatestBlock.Hash
                             /\ b.Validator = round.ProposedBlock.Validator
                             /\ b.Transactions = round.ProposedBlock.Transactions
                             /\ blocks' = Append(blocks, b)
      BY <1>6, FinalizedBlock DEF BFTInv
    <2>2. /\ Len(blocks) \in Nat /\ Len(blocks') = Len(blocks) + 1
          /\ blocks'[Len(blocks) + 1] = b
          /\ \A i \in 1 .. Len(blocks) : blocks'[i] = blocks[i]
      BY <1>1, <2>1, AppendFacts DEF BFTTypeOK
    <2>3. \A c \in sent : OnChainAs(c) => OnChainAs(c)'
      BY <2>2 DEF OnChainAs
    <2>4. round.ProposedBlock.Height = round.Height
      BY <1>6, NilAssumption DEF Finalizes, HeightsInv
    <2>5. PICK p \in Block : p = round.ProposedBlock
      BY <1>6 DEF Finalizes
    <2>6. Alone => OnChainAs(p)'
      <3>. SUFFICES ASSUME Alone PROVE OnChainAs(p)'
        OBVIOUS
      <3>1. round.ProposedBlock.PrevHash = LatestBlock.Hash
        BY <1>4, <1>6, NilAssumption DEF HeightsInv, Finalizes
      <3>2. SameButHash(p, b)
        BY <1>4, <2>1, <2>4, <2>5, <3>1 DEF SameButHash
      <3>. QED  BY <2>2, <3>2 DEF OnChainAs
    <2>7. sent' = sent \cup {p}
      BY <1>6, <2>5 DEF Finalizes
    <2>8. /\ round' # Nil /\ round'.Phase = "FINALIZED"
          /\ round'.Height = round.Height /\ round'.ProposedBlock = round.ProposedBlock
      BY <1>6 DEF Finalizes
    <2>. QED  BY <1>1, <1>2, <1>4, <2>3, <2>4, <2>6, <2>7, <2>8 DEF HeightsInv, Alone, Quiet
  <1>. QED  BY <1>3, <1>5, <1>6

\* Votes of others are not counted while there are none.
LEMMA OthersHeights == ASSUME BFTInv, HeightsInv, RemoteStep PROVE HeightsInv'
  <1>1. BFTTypeOK
    BY DEF BFTInv
  <1>2. ~Alone'
    <2>1. ASSUME Alone' PROVE FALSE
      <3>1. Alone
        BY <1>1, <2>1, AloneBefore DEF BFTNext
      <3>2. Others = {} /\ \A v \in Joining : ~AddValidator(v)
        <4>1. ASSUME NEW v \in Joining, AddValidator(v) PROVE FALSE
          <5>1. validators' = Append(<<NodeAddr>>, v) /\ validators' = <<NodeAddr>>
            BY <2>1, <3>1, <4>1 DEF AddValidator, Alone
          <5>. QED  BY <5>1
        <4>. QED  BY <3>1, <4>1 DEF Alone, Others, Range
      <3>. QED  BY <3>2 DEF RemoteStep
    <2>. QED  BY <2>1
  <1>3. SameRound \/ Finalizes
    <2>1. ASSUME NEW v \in Others, NEW h \in 1 .. MaxHeight, RemotePrepareVote(v, h)
          PROVE  SameRound
      BY <1>1, <2>1, OthersVoteType, PrepareVoteStep DEF RemotePrepareVote
    <2>2. ASSUME NEW v \in Others, NEW h \in 1 .. MaxHeight, RemoteCommitVote(v, h)
          PROVE  SameRound \/ Finalizes
      BY <1>1, <2>2, OthersVoteType, CommitVoteStep DEF RemoteCommitVote
    <2>3. ASSUME NEW v \in Joining, AddValidator(v) PROVE SameRound
      BY <2>3 DEF AddValidator, SameRound
    <2>. QED  BY <2>1, <2>2, <2>3 DEF RemoteStep
  <1>. QED  BY <1>2, <1>3 DEF HeightsInv, SameRound, Finalizes

LEMMA NextHeightsInv == ASSUME BFTInv, HeightsInv, [TimelyNext]_vars PROVE HeightsInv'
  <1>1. CASE ReadHeight \/ StartRound \/ SeeFinalized \/ LateTimeout
    BY <1>1, LoopHeights
  <1>2. CASE ProposeBlock
    BY <1>2, ProposeBlockHeights
  <1>3. CASE OwnPrepareVote
    BY <1>3, OwnPrepareVoteHeights
  <1>4. CASE RoutineStep
    BY <1>4, ReadForCommitHeights, DeliverCommitVoteHeights DEF RoutineStep
  <1>5. CASE RemoteStep
    BY <1>5, OthersHeights
  <1>6. CASE MempoolStep \/ UNCHANGED vars
    BY <1>6, HeightsUnchanged DEF MempoolStep, vars, bftVars, chainVars, Alone
  <1>. QED  BY <1>1, <1>2, <1>3, <1>4, <1>5, <1>6 DEF TimelyNext

(***************************************************************************)
(* In a network that is in time, the block that a node which votes alone   *)
(* hands to BroadcastBlock has the height, predecessor, proposer and       *)
(* transactions of a block on its own chain, although finalizeBlock and    *)
(* AddBlock number and link it independently: no round outlives a growth   *)
(* of the chain.  The two hashes are not the same.                         *)
(***************************************************************************)
THEOREM SentExtendsOurChainCorrect == TimelySpec => []SentExtendsOurChain
  <1>1. BFTInit => BFTInv /\ HeightsInv
    BY InitBFTInv, InitHeightsInv
  <1>2. [TimelyNext]_vars => [BFTNext]_vars
    BY DEF TimelyNext, LateTimeout, BFTNext, RunStep
  <1>3. BFTInv /\ HeightsInv /\ [TimelyNext]_vars => (BFTInv /\ HeightsInv)'
    BY <1>2, NextBFTInv, NextHeightsInv
  <1>4. HeightsInv => SentExtendsOurChain
    BY DEF HeightsInv, OnChainAs, SentExtendsOurChain
  <1>. QED  BY <1>1, <1>3, <1>4, PTL DEF TimelySpec

(***************************************************************************)
(* What is proved for any timing holds for the timely network too.         *)
(***************************************************************************)
THEOREM TimelyIsBFT == TimelySpec => BFTSpec
  <1>1. [TimelyNext]_vars => [BFTNext]_vars
    BY DEF TimelyNext, LateTimeout, BFTNext, RunStep
  <1>. QED  BY <1>1, PTL DEF TimelySpec, BFTSpec
==============================================================================
