----------------------------- MODULE ChainStore -----------------------------
(***************************************************************************)
(* The block store on its own: processes that start, add blocks and die at *)
(* any point, and a file system that carries out a write as a whole, in    *)
(* part or not at all and may fail to read the file.  acked remembers the  *)
(* chain as callers last knew it: every block of it was returned by        *)
(* AddBlock or served after a start.                                       *)
(***************************************************************************)
EXTENDS Blockchain, SequencesExt

CONSTANTS
    Reads,     \* whether a start can read the file
    Batch,     \* the transaction lists that callers pass to AddBlock
    MaxBlocks, \* bound on the length of the chain
    MaxBoots   \* bound on the number of processes

ASSUME ChainStoreAssumption ==
    /\ Reads \subseteq BOOLEAN
    /\ Batch \subseteq Seq(TxHash)
    /\ MaxBlocks \in Nat
    /\ MaxBoots \in Nat

VARIABLES
    acked,  \* the chain as callers last knew it
    boots,  \* processes started so far; also the clock that stamps blocks
    apart,  \* some start could neither read the file nor write a new one
    damaged \* some start could not read the file, or some write was cut short,
            \* or failed while the process lived

storeVars == <<chainVars, acked, boots, apart, damaged>>

StoreInit ==
    /\ BlockchainInit
    /\ acked = <<>>
    /\ boots = 0
    /\ apart = FALSE
    /\ damaged = FALSE

StoreStart ==
    /\ boots < MaxBoots
    /\ \E read \in Reads :
          \/ Restart(read) /\ UNCHANGED <<apart, damaged>>
          \/ \E extent \in Writes :
                /\ RestartFromGenesis(read, extent)
                /\ apart' = (apart \/ (~read /\ extent = "none"))
                /\ damaged' = (damaged \/ ~read \/ extent # "line")
    /\ boots' = boots + 1
    /\ acked' = blocks'

\* A start that does not survive the writing of the genesis block.
StoreFailedStart ==
    /\ boots < MaxBoots
    /\ \E read \in Reads, extent \in CrashWrites :
          /\ CrashInSave(read, extent)
          /\ damaged' = (damaged \/ ~read \/ extent \in {"part", "text"})
    /\ boots' = boots + 1
    /\ UNCHANGED <<acked, apart>>

StoreAddBlock ==
    /\ Len(blocks) < MaxBlocks
    /\ \E transactions \in Batch, extent \in Writes :
          /\ AddBlock(boots, Founder, transactions, extent)
          /\ damaged' = (damaged \/ extent # "line")
    /\ acked' = blocks'
    /\ UNCHANGED <<boots, apart>>

StoreCrash == Crash /\ UNCHANGED <<acked, boots, apart, damaged>>

StoreCrashInAddBlock ==
    /\ Len(blocks) < MaxBlocks
    /\ \E transactions \in Batch, extent \in CrashWrites :
          /\ CrashInAddBlock(boots, Founder, transactions, extent)
          /\ damaged' = (damaged \/ extent \in {"part", "text"})
    /\ UNCHANGED <<acked, boots, apart>>

StoreNext ==
    StoreStart \/ StoreFailedStart \/ StoreAddBlock \/ StoreCrash \/ StoreCrashInAddBlock

StoreSpec == StoreInit /\ [][StoreNext]_storeVars

----------------------------------------------------------------------------
\* The chain that a caller is served, now or after the next start.
Served == IF up THEN blocks ELSE Load(disk)

(***************************************************************************)
(* "Sofort auf Disk speichern": what AddBlock has returned is stored, and  *)
(* every later process serves it.                                          *)
(***************************************************************************)
AckedIsStored == IsPrefix(acked, Served)

(***************************************************************************)
(* As long as every start could read the file, no write was cut short and  *)
(* none failed in a living process, a block that AddBlock has returned, or *)
(* that a running node has served, is there after any number of deaths and *)
(* restarts, at the same height and with the same hash, and a start        *)
(* recovers at most the one block whose AddBlock was cut off by a death.   *)
(***************************************************************************)
NothingAckedIsLost ==
    ~damaged => AckedIsStored /\ Len(Served) <= Len(acked) + 1

(***************************************************************************)
(* The chain that NewNuvexApp validates at the start, and every chain that *)
(* AddBlock makes of it, passes ValidateChain, starts with the genesis     *)
(* block and holds the block of height h in place h, where GetBlock's scan *)
(* finds it.                                                               *)
(***************************************************************************)
ChainIsValid ==
    up /\ ~damaged =>
        /\ ValidateChain
        /\ blocks # <<>> /\ blocks[1] = Genesis
        /\ \A i \in 1 .. Len(blocks) : blocks[i].Height = i - 1

(***************************************************************************)
(* Whatever writes failed or were cut short, and whichever files a start   *)
(* took for empty and wrote anew, load() skips what it cannot read without *)
(* a word, and ValidateChain tells: a stored chain that it accepts lacks   *)
(* no block in the middle.  It is a section of the chain that callers      *)
(* knew, without blocks at its ends at most, perhaps with the block after  *)
(* it that was being added.  Only a process that could neither read the    *)
(* file nor write a new one adds to a chain that it does not know.         *)
(***************************************************************************)
GapsAreDetected ==
    LET stored == Load(disk)
    IN  ~up /\ ~apart /\ Linked(stored) =>
            \E i \in 1 .. Len(acked) + 1 :
                LET known == SubSeq(acked, i, Len(acked))
                IN  \/ IsPrefix(stored, known)
                    \/ IsPrefix(known, stored) /\ Len(stored) = Len(known) + 1

(***************************************************************************)
(* The store is a durable log of blocks: its chain in memory, or the chain *)
(* that the next process will load, grows by one block at a time and keeps *)
(* what callers were told of.                                              *)
(***************************************************************************)
Told == {acked[i] : i \in 1 .. Len(acked)}

Log == INSTANCE DurableLog WITH log <- Served, acked <- Told, intact <- ~damaged

StoreIsDurableLog == Log!Spec
=============================================================================
