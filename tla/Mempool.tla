------------------------------ MODULE Mempool ------------------------------
(***************************************************************************)
(* The transaction pool of a Nuvex node (x/nvx/keeper/mempool.go).         *)
(*                                                                         *)
(* Every method holds the pool's mutex for its whole body, so each one is  *)
(* a single action.  A transaction is named by its hash.  Submit hashes    *)
(* the payload together with time.Now().UnixNano() under the mutex, so the *)
(* hash of a submission is one that was never used before.  From, To,      *)
(* Amount and Nonce are stored but never read by the pool and are left     *)
(* out; Priority is always equal to Fee and is not kept a second time.     *)
(* Wall-clock time is kept as the age of each pooled transaction.          *)
(***************************************************************************)
EXTENDS Nuvex, Words, Integers, Sequences, FiniteSets, FiniteSetsExt, Functions

CONSTANTS
    Fee,             \* the fees that callers offer, any int64 in the code
    MinFee,          \* 100 unvx in the code
    MaxMempoolSize,  \* 10_000 in the code
    MaxTxPerBlock,   \* 1_000 in the code
    TxExpiry         \* 3600 seconds in the code

ASSUME MempoolAssumption ==
    /\ Fee \subseteq Int64
    /\ MinFee \in Nat
    /\ MaxMempoolSize \in Nat
    /\ MaxTxPerBlock \in Nat
    /\ TxExpiry \in Nat

VARIABLES
    txs,      \* the PendingTx objects; they outlive their stay in the pool
    pending,  \* Mempool.pending: the hashes that key the map
    size      \* Mempool.size: the counter kept beside the map

mempoolVars == <<txs, pending, size>>

\* Ages are measured up to the first one that counts as expired.
Age == 0 .. TxExpiry + 1

\* "none" stands for a hash no submission has got yet.
PendingTx == [Fee : Fee \cup {0}, Status : {"none", "pending", "confirmed"}, age : Age]

NoTx == [Fee |-> 0, Status |-> "none", age |-> 0]

Expired(h) == txs[h].age > TxExpiry

\* Mutant of ByPriority: the comparison of the sort turned round.
CheapestFirst(S) ==
    {q \in [1 .. Cardinality(S) -> S] :
        /\ IsInjective(q)
        /\ \A i, j \in 1 .. Cardinality(S) : i < j => txs[q[i]].Fee <= txs[q[j]].Fee}

(***************************************************************************)
(* The orders in which sort.Slice may leave the transactions of S: by      *)
(* falling Priority, with ties in any order (the sort is not stable and    *)
(* the map is ranged over in random order).                                *)
(***************************************************************************)
ByPriority(S) ==
    {q \in [1 .. Cardinality(S) -> S] :
        /\ IsInjective(q)
        /\ \A i, j \in 1 .. Cardinality(S) : i < j => txs[q[i]].Fee >= txs[q[j]].Fee}

Truncate(q, n) == SubSeq(q, 1, IF Len(q) > n THEN n ELSE Len(q))

\* Mutant of Selections: the expiry is left to cleanupRoutine alone.
SelectionsOfAll(maxTxs) ==
    LET limit == IF maxTxs > MaxTxPerBlock THEN MaxTxPerBlock ELSE maxTxs
    IN  {Truncate(q, limit) : q \in ByPriority(pending)}

\* What SelectForBlock(maxTxs) may return.
Selections(maxTxs) ==
    LET limit == IF maxTxs > MaxTxPerBlock THEN MaxTxPerBlock ELSE maxTxs
    IN  {Truncate(q, limit) : q \in ByPriority({h \in pending : ~Expired(h)})}

PooledFees == SumFunction([h \in pending |-> txs[h].Fee])

\* The aggregates that Stats reports; it asks the counter whether the map is
\* empty.  The sum of the fees wraps around; adding them one by one, as the
\* code does, wraps to the same number.
Stats ==
    LET fees == {txs[h].Fee : h \in pending}
    IN  IF size = 0 THEN [MinFee |-> MinFee, MaxFee |-> 0, AvgFee |-> 0]
        ELSE [MinFee |-> IF fees = {} THEN 0 ELSE Min(fees),
              MaxFee |-> IF fees = {} THEN 0 ELSE Max(fees),
              AvgFee |-> Quotient64(ToInt64(PooledFees), size)]

----------------------------------------------------------------------------
MempoolInit ==
    /\ txs = [h \in TxHash |-> NoTx]
    /\ pending = {}
    /\ size = 0

\* Submit with a full pool or a fee below the minimum returns an error and
\* changes nothing.
Submit(h, fee) ==
    /\ size < MaxMempoolSize
    /\ fee >= MinFee
    /\ txs[h].Status = "none"
    /\ txs' = [txs EXCEPT ![h] = [Fee |-> fee, Status |-> "pending", age |-> 0]]
    /\ pending' = pending \cup {h}
    /\ size' = size + 1

\* Mutant of SelectForBlock: the counter is not decremented.
SelectWithoutCounting(q) ==
    /\ txs' = [h \in TxHash |->
                 IF h \in Range(q) THEN [txs[h] EXCEPT !.Status = "confirmed"] ELSE txs[h]]
    /\ pending' = pending \ Range(q)
    /\ UNCHANGED size

\* Mutant of SelectForBlock: what is selected stays in the map.
SelectWithoutDelete(q) ==
    /\ txs' = [h \in TxHash |->
                 IF h \in Range(q) THEN [txs[h] EXCEPT !.Status = "confirmed"] ELSE txs[h]]
    /\ UNCHANGED <<pending, size>>

\* SelectForBlock returning the sequence q.
SelectForBlock(q) ==
    /\ txs' = [h \in TxHash |->
                 IF h \in Range(q) THEN [txs[h] EXCEPT !.Status = "confirmed"] ELSE txs[h]]
    /\ pending' = pending \ Range(q)
    /\ size' = size - Len(q)

\* Mutant of Cleanup: the counter is not decremented.
CleanupWithoutCounting ==
    LET old == {h \in pending : Expired(h)}
    IN  old # {} /\ pending' = pending \ old /\ UNCHANGED <<txs, size>>

\* Mutant of Cleanup: a removed transaction is marked with a status of its own.
CleanupMarking ==
    LET old == {h \in pending : Expired(h)}
    IN  /\ old # {}
        /\ pending' = pending \ old
        /\ size' = size - Cardinality(old)
        /\ txs' = [h \in TxHash |->
                     IF h \in old THEN [txs[h] EXCEPT !.Status = "expired"] ELSE txs[h]]

\* Mutant of Cleanup: only a full pool is cleaned.
CleanupWhenFull ==
    LET old == {h \in pending : Expired(h)}
    IN  /\ size = MaxMempoolSize /\ old # {}
        /\ pending' = pending \ old
        /\ size' = size - Cardinality(old)
        /\ UNCHANGED txs

\* One tick of cleanupRoutine.  The removed objects keep Status "pending".
Cleanup ==
    LET old == {h \in pending : Expired(h)}
    IN  /\ old # {}
        /\ pending' = pending \ old
        /\ size' = size - Cardinality(old)
        /\ UNCHANGED txs

\* Time passes for the pooled transactions.
Tick ==
    /\ \E h \in pending : ~Expired(h)
    /\ txs' = [h \in TxHash |->
                 IF h \in pending /\ ~Expired(h) THEN [txs[h] EXCEPT !.age = @ + 1] ELSE txs[h]]
    /\ UNCHANGED <<pending, size>>

MempoolNext ==
    \/ \E h \in TxHash, fee \in Fee : Submit(h, fee)
    \/ \E n \in 1 .. MaxTxPerBlock + 1 : \E q \in Selections(n) : SelectForBlock(q)
    \/ Cleanup
    \/ Tick

MempoolSpec == MempoolInit /\ [][MempoolNext]_mempoolVars

\* Time passes, and cleanupRoutine wakes up every 60 seconds.
MempoolFairness == WF_mempoolVars(Tick) /\ WF_mempoolVars(Cleanup)

MempoolFairSpec == MempoolSpec /\ MempoolFairness

----------------------------------------------------------------------------
\* Every variable has its type; size is the int of the code and may in
\* principle be negative.
MempoolTypeOK ==
    /\ txs \in [TxHash -> PendingTx]
    /\ pending \subseteq TxHash
    /\ size \in Int

(***************************************************************************)
(* The counter that Submit's limit check and Stats' division read is the   *)
(* number of pooled transactions, although three methods maintain it apart *)
(* from the map; the pool never exceeds MaxMempoolSize.                    *)
(***************************************************************************)
SizeIsExact == IsFiniteSet(pending) /\ size = Cardinality(pending) /\ size <= MaxMempoolSize

(***************************************************************************)
(* A transaction that a block takes was submitted, paid at least the       *)
(* minimum fee, had not expired when it was taken, and is in the pool no   *)
(* more; an expired one that cleanupRoutine has yet to remove is skipped.  *)
(***************************************************************************)
ConfirmedWereLive ==
    \A h \in TxHash : txs[h].Status = "confirmed" =>
        h \notin pending /\ txs[h].age <= TxExpiry /\ txs[h].Fee >= MinFee

(***************************************************************************)
(* The inductive invariant: besides the above, the objects of the pool are *)
(* the ones Submit made and no block has taken.                            *)
(***************************************************************************)
MempoolInv ==
    /\ MempoolTypeOK
    /\ SizeIsExact
    /\ ConfirmedWereLive
    /\ \A h \in pending : txs[h].Status = "pending" /\ txs[h].Fee >= MinFee

(***************************************************************************)
(* SelectForBlock never takes a transaction while it leaves a better-paid  *)
(* one that has not expired in the pool.                                   *)
(***************************************************************************)
BestFeesFirst ==
    [][\A h \in pending, g \in pending \cap pending' :
          txs[h].Status = "pending" /\ txs'[h].Status = "confirmed" /\ ~Expired(g)
            => txs[h].Fee >= txs[g].Fee]_mempoolVars

(***************************************************************************)
(* As long as the fees of the pool add up to an int64, the average that    *)
(* Stats computes with the counter lies between the smallest and the       *)
(* largest fee it collects from the map.  Submit sets fees no upper limit, *)
(* so their sum may wrap around; of the average it then reports nothing is *)
(* claimed, it may be negative.                                            *)
(***************************************************************************)
AverageBetweenExtremes ==
    size # 0 /\ PooledFees < Half => Stats.MinFee <= Stats.AvgFee /\ Stats.AvgFee <= Stats.MaxFee

(***************************************************************************)
(* No transaction holds a pool slot for ever: a block takes it, or         *)
(* cleanupRoutine removes it once it has expired.                          *)
(***************************************************************************)
SlotsAreFreed == \A h \in TxHash : h \in pending ~> h \notin pending
============================================================================
