---------------------------- MODULE ChainProofs ----------------------------
(***************************************************************************)
(* Theorems about the block store, whatever the file system may do.  Most  *)
(* of them speak of the time up to the first start that could not read the *)
(* file and the first write that was cut short or failed: their invariant  *)
(* names the chain that the file holds until then and says how the memory  *)
(* of the process and the knowledge of its callers relate to it.  The last *)
(* one speaks of what comes after it: its invariant says which lines load()*)
(* may find, in which order.                                               *)
(***************************************************************************)
EXTENDS ChainStore, BlockProofs, SumLemmas

\* The file holds this chain, callers know it but for its last block, and a
\* running process has all of it in memory.
StoreHolds(chain) ==
    /\ disk = StoredAs(chain)
    /\ Sound(chain)
    /\ acked \in Seq(Block) /\ IsPrefix(acked, chain) /\ Len(chain) <= Len(acked) + 1
    /\ up => blocks = chain /\ acked = chain /\ chain # <<>>

HoldsAChain == \E chain \in Seq(Block) : StoreHolds(chain)

StoreInv ==
    /\ up \in BOOLEAN /\ boots \in Nat /\ damaged \in BOOLEAN
    /\ ~damaged => HoldsAChain

----------------------------------------------------------------------------
\* A chain is a prefix of itself and of the chain with one block more.
LEMMA PrefixFacts ==
    ASSUME NEW chain \in Seq(Block), NEW b \in Block
    PROVE  /\ IsPrefix(chain, chain) /\ IsPrefix(chain, Append(chain, b))
           /\ Len(chain) <= Len(chain) + 1 /\ Len(Append(chain, b)) <= Len(chain) + 1
  <1>1. /\ Append(chain, b) \in Seq(Block) /\ Len(chain) \in Nat
        /\ Len(Append(chain, b)) = Len(chain) + 1
        /\ \A i \in 1 .. Len(chain) : Append(chain, b)[i] = chain[i]
    BY AppendFacts
  <1>2. SubSeq(chain, 1, Len(chain)) = SubSeq(Append(chain, b), 1, Len(chain))
    <2>. DEFINE longer == Append(chain, b)
    <2>. HIDE DEF longer
    <2>. QED  BY <1>1
  <1>. QED  BY <1>1, <1>2 DEF IsPrefix

LEMMA InitStoreInv == StoreInit => StoreInv
  <1>. SUFFICES ASSUME StoreInit PROVE StoreInv
    OBVIOUS
  <1>. USE DEF StoreInit, BlockchainInit
  <1>1. PICK empty : empty = <<>>
    OBVIOUS
  <1>2. /\ empty \in Seq(Block) /\ disk = StoredAs(empty) /\ Sound(empty)
        /\ acked = empty /\ ~up
    BY <1>1, FirstFiles, Zenon
  <1>3. IsPrefix(empty, empty) /\ Len(empty) <= Len(empty) + 1
    BY <1>1 DEF IsPrefix
  <1>4. StoreHolds(empty)
    BY <1>2, <1>3, Zenon DEF StoreHolds
  <1>. QED  BY <1>2, <1>4 DEF StoreInv, HoldsAChain

\* A start loads the chain of the file, or writes the genesis block.
LEMMA StartStoreInv == ASSUME StoreInv, StoreStart, ~damaged' PROVE HoldsAChain'
  <1>1. PICK chain \in Seq(Block) : StoreHolds(chain)
    BY DEF StoreInv, HoldsAChain, StoreStart
  <1>2. Load(disk) = chain
    BY <1>1, LoadStored DEF StoreHolds
  <1>3. acked' = blocks' /\ boots' = boots + 1 /\ boots' \in Nat
    BY DEF StoreStart, StoreInv
  <1>4. ASSUME NEW read \in Reads, Restart(read) PROVE HoldsAChain'
    <2>0. Loaded(read) = chain
      BY <1>2, <1>4 DEF Restart, Loaded
    <2>1. /\ up' = TRUE /\ blocks' = chain /\ chain # <<>> /\ disk' = StoredAs(chain)
          /\ Sound(chain) /\ Sound(chain)'
      BY <1>1, <2>0, <1>4 DEF Restart, StoreHolds, Sound, Linked
    <2>2. IsPrefix(chain, chain) /\ Len(chain) <= Len(chain) + 1
      BY PrefixFacts, GenesisFacts
    <2>3. StoreHolds(chain)'
      BY <1>3, <2>1, <2>2 DEF StoreHolds
    <2>. QED  BY <1>3, <2>1, <2>3 DEF HoldsAChain
  <1>5. ASSUME NEW read \in Reads, RestartFromGenesis(read, "line") PROVE HoldsAChain'
    <2>1. PICK one \in Seq(Block) : one = << Genesis >>
      BY FirstFiles, Zenon
    <2>3. /\ up' = TRUE /\ blocks' = one /\ one # <<>> /\ disk' = StoredAs(one)
          /\ Sound(one)
      BY <1>5, <2>1, FirstFiles, Zenon DEF RestartFromGenesis
    <2>4. IsPrefix(one, one) /\ Len(one) <= Len(one) + 1
      BY PrefixFacts, GenesisFacts
    <2>5. StoreHolds(one)'
      BY <1>3, <2>3, <2>4 DEF StoreHolds, Sound, Linked
    <2>. QED  BY <1>3, <2>3, <2>5 DEF HoldsAChain
  <1>6. ASSUME NEW read \in Reads, NEW extent \in Writes, RestartFromGenesis(read, extent),
               damaged' = (damaged \/ ~read \/ extent # "line")
        PROVE  HoldsAChain'
    BY <1>5, <1>6
  <1>. QED  BY <1>4, <1>6 DEF StoreStart

\* A start that dies leaves no file or the file of the genesis block.
LEMMA FailedStartStoreInv == ASSUME StoreInv, StoreFailedStart, ~damaged' PROVE HoldsAChain'
  <1>1. PICK chain \in Seq(Block) : StoreHolds(chain)
    BY DEF StoreInv, HoldsAChain, StoreFailedStart
  <1>2. PICK extent \in {"none", "line"} : CrashInSave(TRUE, extent)
    BY BlockchainAssumption, ChainStoreAssumption DEF StoreFailedStart, Extent
  <1>3. ~up /\ UNCHANGED <<up, acked>> /\ boots' \in Nat
    BY <1>2 DEF CrashInSave, StoreFailedStart, StoreInv
  <1>4. PICK empty : empty = <<>>
    OBVIOUS
  <1>5. chain = empty /\ Load(disk) = chain
    BY <1>1, <1>2, <1>4, LoadStored DEF CrashInSave, Loaded, StoreHolds
  <1>6. acked = empty
    BY <1>1, <1>4, <1>5, EmptySeq, LenProperties DEF StoreHolds, IsPrefix
  <1>7. empty \in Seq(Block)
    BY <1>5
  <1>8. PICK one \in Seq(Block) : one = << Genesis >>
    BY FirstFiles, Zenon
  <1>9. /\ IsPrefix(empty, empty) /\ IsPrefix(empty, one)
        /\ Len(empty) <= Len(empty) + 1 /\ Len(one) <= Len(empty) + 1
    BY ONLY <1>4, <1>7, <1>8, PrefixFacts, GenesisFacts, FirstFiles, Zenon
  <1>10. CASE extent = "none"
    <2>1. disk' = StoredAs(empty) /\ Sound(empty)
      BY <1>2, <1>4, <1>10, FirstFiles, Zenon DEF CrashInSave
    <2>2. StoreHolds(empty)'
      BY <1>3, <1>6, <1>7, <1>9, <2>1 DEF StoreHolds, Sound, Linked
    <2>. QED  BY <1>3, <1>7, <2>2 DEF HoldsAChain
  <1>11. CASE extent = "line"
    <2>1. disk' = StoredAs(one) /\ Sound(one)
      BY <1>2, <1>8, <1>11, FirstFiles, Zenon DEF CrashInSave
    <2>2. StoreHolds(one)'
      BY <1>3, <1>6, <1>7, <1>9, <2>1 DEF StoreHolds, Sound, Linked
    <2>. QED  BY <1>3, <2>2 DEF HoldsAChain
  <1>. QED  BY <1>10, <1>11

\* A block is added to the memory, to the file and to what callers know.
LEMMA AddBlockStoreInv == ASSUME StoreInv, StoreAddBlock, ~damaged' PROVE HoldsAChain'
  <1>1. PICK chain \in Seq(Block) : StoreHolds(chain)
    BY DEF StoreInv, HoldsAChain, StoreAddBlock
  <1>2. PICK transactions \in Batch : AddBlock(boots, Founder, transactions, "line")
    BY DEF StoreAddBlock
  <1>. DEFINE b == NextBlock(boots, Founder, transactions)
              longer == Append(chain, b)
  <1>3. blocks = chain /\ chain # <<>> /\ Sound(chain) /\ disk = StoredAs(chain)
    BY <1>1, <1>2 DEF AddBlock, StoreHolds
  <1>4. b \in Block /\ Sound(longer)
    BY <1>3, NextBlockSound, ChainStoreAssumption, BlockchainAssumption DEF StoreInv
  <1>5. /\ up' /\ up' \in BOOLEAN /\ blocks' = longer /\ acked' = longer
        /\ boots' \in Nat /\ disk' = Write(disk, b, "line")
    BY <1>2, <1>3 DEF AddBlock, StoreAddBlock, StoreInv
  <1>. HIDE DEF b
  <1>6. longer \in Seq(Block) /\ longer # <<>> /\ disk' = StoredAs(longer)
    BY <1>3, <1>4, <1>5, AppendFacts, WriteLine
  <1>7. IsPrefix(longer, longer) /\ Len(longer) <= Len(longer) + 1
    BY <1>4, <1>6, PrefixFacts
  <1>8. PICK new : new = longer
    OBVIOUS
  <1>. HIDE DEF longer
  <1>9. StoreHolds(new)'
    BY <1>4, <1>5, <1>6, <1>7, <1>8 DEF StoreHolds, Sound, Linked
  <1>. QED  BY <1>5, <1>6, <1>8, <1>9 DEF HoldsAChain

\* A process that dies leaves its chain in the file ...
LEMMA CrashStoreInv == ASSUME StoreInv, StoreCrash, ~damaged' PROVE HoldsAChain'
  <1>1. PICK chain \in Seq(Block) : StoreHolds(chain)
    BY DEF StoreInv, HoldsAChain, StoreCrash
  <1>2. /\ UNCHANGED <<acked, boots, damaged, disk>> /\ boots' \in Nat
        /\ up /\ up' = FALSE
    BY DEF StoreCrash, Crash, StoreInv
  <1>3. StoreHolds(chain)'
    BY <1>1, <1>2 DEF StoreHolds, Sound, Linked
  <1>. QED  BY <1>2, <1>3 DEF HoldsAChain

\* ... perhaps with the block it was adding.
LEMMA CrashInAddStoreInv == ASSUME StoreInv, StoreCrashInAddBlock, ~damaged' PROVE HoldsAChain'
  <1>1. PICK chain \in Seq(Block) : StoreHolds(chain)
    BY DEF StoreInv, HoldsAChain, StoreCrashInAddBlock
  <1>2. PICK transactions \in Batch, extent \in {"none", "line"} :
            CrashInAddBlock(boots, Founder, transactions, extent)
    BY BlockchainAssumption DEF StoreCrashInAddBlock, Extent
  <1>3. UNCHANGED <<acked, boots>> /\ boots' \in Nat /\ up /\ up' = FALSE
    BY <1>2 DEF StoreCrashInAddBlock, CrashInAddBlock, StoreInv
  <1>4. /\ blocks = chain /\ acked = chain /\ chain # <<>> /\ Sound(chain)
        /\ disk = StoredAs(chain)
    BY <1>1, <1>3 DEF StoreHolds
  <1>. DEFINE b == NextBlock(boots, Founder, transactions)
              longer == Append(chain, b)
  <1>5. b \in Block /\ Sound(longer)
    BY <1>4, NextBlockSound, ChainStoreAssumption, BlockchainAssumption DEF StoreInv
  <1>6. disk' = Write(disk, b, extent)
    BY <1>2 DEF CrashInAddBlock
  <1>. HIDE DEF b
  <1>7. CASE extent = "none"
    <2>1. disk' = StoredAs(chain)
      BY <1>4, <1>6, <1>7 DEF Write
    <2>2. StoreHolds(chain)'
      BY <1>1, <1>3, <2>1 DEF StoreHolds, Sound, Linked
    <2>. QED  BY <1>3, <2>2 DEF HoldsAChain
  <1>8. CASE extent = "line"
    <2>1. longer \in Seq(Block) /\ disk' = StoredAs(longer)
      BY <1>4, <1>5, <1>6, <1>8, AppendFacts, WriteLine
    <2>2. IsPrefix(chain, longer) /\ Len(longer) <= Len(chain) + 1
      BY <1>5, PrefixFacts
    <2>3. PICK new : new = longer
      OBVIOUS
    <2>. HIDE DEF longer
    <2>4. StoreHolds(new)'
      BY <1>3, <1>4, <1>5, <2>1, <2>2, <2>3 DEF StoreHolds, Sound, Linked
    <2>. QED  BY <1>3, <2>1, <2>3, <2>4 DEF HoldsAChain
  <1>. QED  BY <1>7, <1>8

LEMMA NextStoreInv == StoreInv /\ [StoreNext]_storeVars => StoreInv'
  <1>. SUFFICES ASSUME StoreInv, [StoreNext]_storeVars PROVE StoreInv'
    OBVIOUS
  <1>1. CASE UNCHANGED storeVars
    BY <1>1 DEF StoreInv, HoldsAChain, StoreHolds, Sound, Linked, storeVars, chainVars
  <1>2. CASE StoreNext
    <2>1. boots' \in Nat
      BY <1>2 DEF StoreNext, StoreStart, StoreFailedStart, StoreAddBlock, StoreCrash,
         StoreCrashInAddBlock, StoreInv
    <2>2. up' \in {TRUE, FALSE, up}
      BY <1>2, Zenon DEF StoreNext, StoreStart, StoreFailedStart, StoreAddBlock, StoreCrash,
         StoreCrashInAddBlock, Restart, RestartFromGenesis, CrashInSave, AddBlock, Crash,
         CrashInAddBlock
    <2>3. damaged' \in BOOLEAN
      <3>1. damaged \in BOOLEAN
        BY DEF StoreInv
      <3>. QED  BY <1>2, <3>1 DEF StoreNext, StoreStart, StoreFailedStart, StoreAddBlock,
                StoreCrash, StoreCrashInAddBlock
    <2>4. ~damaged' => HoldsAChain'
      BY <1>2, StartStoreInv, FailedStartStoreInv, AddBlockStoreInv, CrashStoreInv,
         CrashInAddStoreInv DEF StoreNext
    <2>. QED  BY <2>1, <2>2, <2>3, <2>4 DEF StoreInv
  <1>. QED  BY <1>1, <1>2

LEMMA StoreInvHolds == StoreSpec => []StoreInv
  BY InitStoreInv, NextStoreInv, PTL DEF StoreSpec

----------------------------------------------------------------------------
(***************************************************************************)
(* Nothing that AddBlock returned or a running node served is lost by any  *)
(* number of deaths and restarts, and a start recovers at most the block   *)
(* in flight, for every chain and every batch, up to the first write that  *)
(* was cut short or failed, or the first start that could not read the     *)
(* file.                                                                   *)
(***************************************************************************)
THEOREM NothingAckedIsLostCorrect == StoreSpec => []NothingAckedIsLost
  <1>1. StoreInv => NothingAckedIsLost
    BY LoadStored DEF StoreInv, HoldsAChain, StoreHolds, NothingAckedIsLost, AckedIsStored, Served
  <1>. QED  BY <1>1, StoreInvHolds, PTL

(***************************************************************************)
(* The chain of a running node passes ValidateChain, starts with the       *)
(* genesis block and has the block of height h in place h.                 *)
(***************************************************************************)
THEOREM ChainIsValidCorrect == StoreSpec => []ChainIsValid
  <1>1. StoreInv => ChainIsValid
    BY DEF StoreInv, HoldsAChain, StoreHolds, Sound, ChainIsValid, ValidateChain
  <1>. QED  BY <1>1, StoreInvHolds, PTL

----------------------------------------------------------------------------
\* Before the first damage, callers are served the chain that the file holds.
LEMMA ServedChain ==
    ASSUME StoreInv, ~damaged
    PROVE  \E chain \in Seq(Block) : StoreHolds(chain) /\ Served = chain
  BY LoadStored DEF StoreInv, HoldsAChain, StoreHolds, Served

\* What callers were told of is in a chain that extends what they know.
LEMMA ToldIsInChain ==
    ASSUME NEW chain \in Seq(Block), NEW known \in Seq(Block), IsPrefix(known, chain)
    PROVE  {known[i] : i \in 1 .. Len(known)} \subseteq {chain[i] : i \in 1 .. Len(chain)}
  <1>1. /\ Len(known) \in Nat /\ Len(chain) \in Nat /\ Len(known) <= Len(chain)
        /\ SubSeq(known, 1, Len(known)) = SubSeq(chain, 1, Len(known))
    BY LenProperties DEF IsPrefix
  <1>2. \A i \in 1 .. Len(known) : known[i] = chain[i]
    BY <1>1
  <1>. QED  BY <1>1, <1>2

\* A longer chain keeps the shorter one and what can be told of it.
LEMMA LongerChain ==
    ASSUME NEW chain \in Seq(Block), NEW b \in Block
    PROVE  LET longer == Append(chain, b)
           IN  /\ Len(longer) = Len(chain) + 1
               /\ SubSeq(longer, 1, Len(chain)) = chain
               /\ longer[Len(longer)] = b
               /\ {longer[i] : i \in 1 .. Len(longer)} =
                     {chain[i] : i \in 1 .. Len(chain)} \cup {b}
  <1>. DEFINE longer == Append(chain, b)
  <1>1. /\ longer \in Seq(Block) /\ Len(chain) \in Nat
        /\ Len(longer) = Len(chain) + 1 /\ longer[Len(chain) + 1] = b
        /\ \A i \in 1 .. Len(chain) : longer[i] = chain[i]
    BY AppendFacts
  <1>. HIDE DEF longer
  <1>2. SubSeq(longer, 1, Len(chain)) = chain
    BY <1>1
  <1>3. ASSUME NEW x
        PROVE  (\E i \in 1 .. Len(longer) : x = longer[i]) <=>
               (\E i \in 1 .. Len(chain) : x = chain[i]) \/ x = b
    <2>1. \A i \in 1 .. Len(longer) : i \in 1 .. Len(chain) \/ i = Len(chain) + 1
      BY <1>1
    <2>2. /\ Len(chain) + 1 \in 1 .. Len(longer)
          /\ \A i \in 1 .. Len(chain) : i \in 1 .. Len(longer)
      BY <1>1
    <2>. QED  BY <1>1, <2>1, <2>2, Zenon
  <1>. QED  BY <1>1, <1>2, <1>3 DEF longer

\* The same chain is served, and callers may be told more of it.
LEMMA SameChainIsTell ==
    ASSUME NEW chain \in Seq(Block), Served = chain, Served' = chain, ~damaged, ~damaged',
           damaged' = damaged,
           Told \subseteq Told', Told' \subseteq {chain[i] : i \in 1 .. Len(chain)}
    PROVE  Log!Next
  BY DEF Log!Next, Log!Tell, Log!Entries

\* A chain of one block more is served, and callers are told of the block or
\* of nothing.
LEMMA LongerChainIsExtend ==
    ASSUME NEW chain \in Seq(Block), NEW b \in Block, Served = chain,
           Served' = Append(chain, b), damaged' = damaged,
           Told \subseteq Told', Told' \subseteq Told \cup {b}
    PROVE  Log!Next
  BY LongerChain DEF Log!Next, Log!Extend

\* Every step of the store is a step of the log, or leaves it alone.
LEMMA StartIsLogStep == ASSUME StoreInv, StoreStart, ~damaged' PROVE Log!Next
  <1>1. ~damaged /\ damaged' = damaged /\ acked' = blocks'
    <2>1. damaged \in BOOLEAN
      BY DEF StoreInv
    <2>2. \/ damaged' = damaged
          \/ \E read \in Reads, extent \in Writes :
                damaged' = (damaged \/ ~read \/ extent # "line")
      BY DEF StoreStart
    <2>3. ~damaged
      BY <2>2, <2>1
    <2>. QED  BY <2>1, <2>2, <2>3 DEF StoreStart
  <1>2. PICK chain \in Seq(Block) : StoreHolds(chain) /\ Served = chain
    BY <1>1, ServedChain
  <1>3. ~up /\ up' = TRUE /\ Load(disk) = chain
    BY <1>2 DEF StoreStart, Restart, RestartFromGenesis, Served
  <1>4. Served' = blocks'
    BY <1>3 DEF Served
  <1>5. Told \subseteq {chain[i] : i \in 1 .. Len(chain)}
    BY <1>2, ToldIsInChain DEF StoreHolds, Told
  <1>6. ASSUME NEW read \in Reads, Restart(read) PROVE Log!Next
    <2>1. blocks' = chain
      BY <1>3, <1>6 DEF Restart, Loaded
    <2>. QED  BY <1>1, <1>2, <1>4, <1>5, <2>1, SameChainIsTell DEF Told
  <1>7. ASSUME RestartFromGenesis(TRUE, "line") PROVE Log!Next
    <2>1. chain = <<>> /\ blocks' = Append(chain, Genesis) /\ Genesis \in Block
      BY <1>3, <1>7, GenesisFacts, FirstFiles DEF RestartFromGenesis, Loaded
    <2>2. /\ {chain[i] : i \in 1 .. Len(chain)} = {}
          /\ Told' = {chain[i] : i \in 1 .. Len(chain)} \cup {Genesis}
      BY <1>1, <2>1, LongerChain DEF Told
    <2>3. Told = {} /\ Told' = {Genesis}
      BY <1>5, <2>2
    <2>. QED  BY <1>1, <1>2, <1>4, <2>1, <2>3, LongerChainIsExtend
  <1>8. ASSUME NEW read \in Reads, NEW extent \in Writes, RestartFromGenesis(read, extent),
               damaged' = (damaged \/ ~read \/ extent # "line")
        PROVE  Log!Next
    <2>1. read = TRUE /\ extent = "line"
      BY <1>8, ChainStoreAssumption
    <2>. QED  BY <1>7, <1>8, <2>1
  <1>. QED  BY <1>6, <1>8 DEF StoreStart

LEMMA FailedStartIsLogStep == ASSUME StoreInv, StoreFailedStart, ~damaged' PROVE Log!Next
  <1>1. ~damaged /\ damaged' = damaged /\ acked' = acked
    BY DEF StoreFailedStart, StoreInv
  <1>2. PICK chain \in Seq(Block) : StoreHolds(chain) /\ Served = chain
    BY <1>1, ServedChain
  <1>3. PICK extent \in {"none", "line"} : CrashInSave(TRUE, extent)
    BY BlockchainAssumption, ChainStoreAssumption DEF StoreFailedStart, Extent
  <1>4. ~up /\ up' = up /\ chain = <<>> /\ Served' = Load(disk')
    BY <1>2, <1>3 DEF CrashInSave, Loaded, Served
  <1>5. Told' = Told /\ Told \subseteq {chain[i] : i \in 1 .. Len(chain)}
    BY <1>1, <1>2, ToldIsInChain DEF StoreHolds, Told
  <1>6. CASE extent = "none"
    <2>1. Served' = chain
      BY <1>2, <1>3, <1>4, <1>6, FirstFiles, LoadStored DEF CrashInSave
    <2>. QED  BY <1>1, <1>2, <1>5, <2>1, SameChainIsTell
  <1>7. CASE extent = "line"
    <2>1. Served' = Append(chain, Genesis) /\ Genesis \in Block
      BY <1>3, <1>4, <1>7, FirstFiles, LoadStored, GenesisFacts DEF CrashInSave
    <2>. QED  BY <1>1, <1>2, <1>5, <2>1, LongerChainIsExtend
  <1>. QED  BY <1>6, <1>7

LEMMA AddBlockIsLogStep == ASSUME StoreInv, StoreAddBlock, ~damaged' PROVE Log!Next
  <1>1. ~damaged /\ damaged' = damaged /\ acked' = blocks'
    BY DEF StoreAddBlock, StoreInv
  <1>2. PICK chain \in Seq(Block) : StoreHolds(chain) /\ Served = chain
    BY <1>1, ServedChain
  <1>3. PICK transactions \in Batch : AddBlock(boots, Founder, transactions, "line")
    BY DEF StoreAddBlock
  <1>4. up /\ up' /\ blocks = chain /\ acked = chain /\ chain # <<>> /\ Sound(blocks)
    BY <1>2, <1>3 DEF AddBlock, StoreHolds
  <1>. DEFINE b == NextBlock(boots, Founder, transactions)
  <1>5. b \in Block
    BY <1>4, NextBlockSound, ChainStoreAssumption, BlockchainAssumption DEF StoreInv
  <1>6. Served' = Append(chain, b) /\ acked' = Append(chain, b)
    BY <1>1, <1>3, <1>4 DEF AddBlock, Served
  <1>. HIDE DEF b
  <1>7. Told' = Told \cup {b}
    BY <1>4, <1>5, <1>6, LongerChain DEF Told
  <1>. QED  BY <1>1, <1>2, <1>5, <1>6, <1>7, LongerChainIsExtend

LEMMA CrashIsLogStep ==
    ASSUME StoreInv, StoreCrash \/ StoreCrashInAddBlock, ~damaged' PROVE Log!Next
  <1>1. ~damaged /\ damaged' = damaged /\ acked' = acked
    BY DEF StoreCrash, StoreCrashInAddBlock, StoreInv
  <1>2. PICK chain \in Seq(Block) : StoreHolds(chain) /\ Served = chain
    BY <1>1, ServedChain
  <1>3. up /\ ~up' /\ Served' = Load(disk')
    BY DEF StoreCrash, StoreCrashInAddBlock, Crash, CrashInAddBlock, Served
  <1>4. /\ blocks = chain /\ acked = chain /\ chain # <<>> /\ Sound(blocks)
        /\ disk = StoredAs(chain)
    BY <1>2, <1>3 DEF StoreHolds
  <1>5. Told' = Told /\ Told \subseteq {chain[i] : i \in 1 .. Len(chain)}
    BY <1>1, <1>4 DEF Told
  <1>6. disk' = disk => Log!Next
    <2>1. disk' = disk => Served' = chain
      BY <1>3, <1>4, LoadStored
    <2>. QED  BY <1>1, <1>2, <1>5, <2>1, SameChainIsTell
  <1>7. CASE StoreCrash
    BY <1>6, <1>7 DEF StoreCrash, Crash
  <1>8. CASE StoreCrashInAddBlock
    <2>1. PICK transactions \in Batch, extent \in {"none", "line"} :
              CrashInAddBlock(boots, Founder, transactions, extent)
      BY <1>8, BlockchainAssumption DEF StoreCrashInAddBlock, Extent
    <2>. DEFINE b == NextBlock(boots, Founder, transactions)
    <2>2. b \in Block
      BY <1>4, NextBlockSound, ChainStoreAssumption, BlockchainAssumption DEF StoreInv
    <2>3. disk' = Write(disk, b, extent)
      BY <2>1 DEF CrashInAddBlock
    <2>. HIDE DEF b
    <2>4. CASE extent = "none"
      BY <1>6, <2>3, <2>4 DEF Write
    <2>5. CASE extent = "line"
      <3>1. Append(chain, b) \in Seq(Block) /\ disk' = StoredAs(Append(chain, b))
        BY <1>4, <2>2, <2>3, <2>5, AppendFacts, WriteLine
      <3>2. Served' = Append(chain, b)
        BY <1>3, <3>1, LoadStored
      <3>. QED  BY <1>1, <1>2, <1>5, <2>2, <3>2, LongerChainIsExtend
    <2>. QED  BY <2>4, <2>5
  <1>. QED  BY <1>7, <1>8

(***************************************************************************)
(* The block store implements the durable log: what callers see of it is   *)
(* a log that only grows and keeps what they were told of, through every   *)
(* death and restart, up to the first write that was cut short or failed   *)
(* or the first start that could not read the file.                        *)
(***************************************************************************)
THEOREM StoreIsDurableLogCorrect == StoreSpec => StoreIsDurableLog
  <1>1. StoreInit => Log!Init
    <2>. SUFFICES ASSUME StoreInit PROVE Log!Init
      OBVIOUS
    <2>1. PICK empty \in Seq(Block) : empty = <<>>
      BY FirstFiles
    <2>2. Served = empty /\ acked = empty /\ ~damaged
      BY <2>1, FirstFiles, LoadStored DEF StoreInit, BlockchainInit, Served
    <2>3. Told = {}
      BY <2>1, <2>2 DEF Told
    <2>. QED  BY <2>1, <2>2, <2>3 DEF Log!Init
  <1>2. StoreInv /\ [StoreNext]_storeVars => [Log!Next]_(Log!vars)
    <2>. SUFFICES ASSUME StoreInv, [StoreNext]_storeVars PROVE [Log!Next]_(Log!vars)
      OBVIOUS
    <2>1. CASE UNCHANGED storeVars
      BY <2>1 DEF storeVars, chainVars, Log!vars, Served, Told
    <2>2. CASE damaged'
      BY <2>2 DEF Log!Next, Log!Break
    <2>3. CASE StoreNext /\ ~damaged'
      BY <2>3, StartIsLogStep, FailedStartIsLogStep, AddBlockIsLogStep, CrashIsLogStep
         DEF StoreNext
    <2>. QED  BY <2>1, <2>2, <2>3
  <1>. QED  BY <1>1, <1>2, StoreInvHolds, PTL DEF StoreSpec, StoreIsDurableLog, Log!Spec

----------------------------------------------------------------------------
\* The lines that load() can read, and what it reads in them.
Good(file) == {i \in 1 .. Len(file) : Parses(file[i])}
BlockAt(file, i) == file[i][1].block

Rank(S, i) == Cardinality({j \in S : j <= i})

LEMMA RankRises ==
  ASSUME NEW S \in SUBSET Nat, IsFiniteSet(S)
  PROVE  /\ \A i \in S : Rank(S, i) \in 1 .. Cardinality(S)
         /\ \A i, j \in S : i < j => Rank(S, i) < Rank(S, j)
  <1>. DEFINE Upto(i) == {j \in S : j <= i}
  <1>1. ASSUME NEW i \in S
        PROVE  /\ IsFiniteSet(Upto(i)) /\ Cardinality(Upto(i)) \in Nat
               /\ Cardinality(Upto(i)) <= Cardinality(S) /\ i \in Upto(i)
    <2>1. Upto(i) \in SUBSET S /\ i \in Upto(i)
      OBVIOUS
    <2>. HIDE DEF Upto
    <2>. QED  BY <2>1, FS_Subset, FS_CardinalityType
  <1>2. ASSUME NEW i \in S PROVE Rank(S, i) \in 1 .. Cardinality(S)
    <2>1. Upto(i) # {} /\ Cardinality(S) \in Nat
      BY <1>1, FS_CardinalityType
    <2>2. Cardinality(Upto(i)) # 0
      BY <1>1, <2>1, FS_EmptySet
    <2>3. Rank(S, i) = Cardinality(Upto(i))
      BY DEF Rank
    <2>. HIDE DEF Upto
    <2>. QED  BY <1>1, <2>1, <2>2, <2>3
  <1>3. ASSUME NEW i \in S, NEW j \in S, i < j PROVE Rank(S, i) < Rank(S, j)
    <2>1. Upto(i) \in SUBSET Upto(j) /\ j \in Upto(j) /\ j \notin Upto(i)
      <3>1. i \in Nat /\ j \in Nat /\ i <= j /\ j <= j /\ ~(j <= i)
        BY <1>3
      <3>2. \A x \in S : x <= i => x <= j
        BY <3>1
      <3>. QED  BY <3>1, <3>2
    <2>2. Rank(S, i) = Cardinality(Upto(i)) /\ Rank(S, j) = Cardinality(Upto(j))
      BY DEF Rank
    <2>3. PICK A, B : A = Upto(i) /\ B = Upto(j)
      OBVIOUS
    <2>4. /\ IsFiniteSet(B) /\ A \in SUBSET B /\ A # B
          /\ Cardinality(A) \in Nat /\ Cardinality(B) \in Nat
      BY <1>1, <2>1, <2>3
    <2>5. Cardinality(A) <= Cardinality(B) /\ Cardinality(A) # Cardinality(B)
      BY <2>4, FS_Subset
    <2>. QED  BY <2>2, <2>3, <2>4, <2>5
  <1>. QED  BY <1>2, <1>3

\* The k-th smallest number is a number of the set, and k is its rank.
LEMMA KthIs ==
  ASSUME NEW S \in SUBSET Nat, IsFiniteSet(S)
  PROVE  /\ \A k \in 1 .. Cardinality(S) : Kth(S, k) \in S /\ Rank(S, Kth(S, k)) = k
         /\ \A i \in S : Kth(S, Rank(S, i)) = i
  <1>1. PICK n \in Nat : n = Cardinality(S)
    BY FS_CardinalityType
  <1>2. PICK f : f = [i \in S |-> Rank(S, i)]
    OBVIOUS
  <1>3. f \in [S -> 1 .. n] /\ \A i \in S : f[i] = Rank(S, i)
    BY <1>1, <1>2, RankRises
  <1>4. \A i, j \in S : f[i] = f[j] => i = j
    <2>1. ASSUME NEW i \in S, NEW j \in S, f[i] = f[j] PROVE i = j
      <3>1. ~(i < j) /\ ~(j < i)
        <4>1. /\ i < j => Rank(S, i) < Rank(S, j)
              /\ j < i => Rank(S, j) < Rank(S, i)
          BY RankRises
        <4>2. Rank(S, i) = Rank(S, j) /\ Rank(S, i) \in 1 .. n
          BY <1>3, <2>1
        <4>. QED  BY <4>1, <4>2
      <3>2. i \in Nat /\ j \in Nat
        OBVIOUS
      <3>. QED  BY <3>1, <3>2
    <2>. QED  BY <2>1
  <1>5. f \in Injection(S, 1 .. n)
    BY <1>3, <1>4 DEF Injection, IsInjective
  <1>6. IsFiniteSet(1 .. n) /\ Cardinality(1 .. n) = n
    BY CardinalityOfInterval
  <1>7. f \in Surjection(S, 1 .. n)
    BY <1>1, <1>5, <1>6, FS_Injection
  <1>8. ASSUME NEW k \in 1 .. n PROVE Kth(S, k) \in S /\ Rank(S, Kth(S, k)) = k
    <2>1. \E i \in S : Rank(S, i) = k
      BY <1>3, <1>7 DEF Surjection
    <2>. QED  BY <2>1 DEF Kth, Rank
  <1>9. ASSUME NEW i \in S PROVE Kth(S, Rank(S, i)) = i
    <2>1. PICK k \in 1 .. n : k = Rank(S, i)
      BY <1>3
    <2>2. PICK j : j = Kth(S, k)
      OBVIOUS
    <2>3. j \in S /\ Rank(S, j) = k
      BY <1>8, <2>2
    <2>4. j = i
      BY <1>3, <1>4, <2>1, <2>3
    <2>. QED  BY <2>1, <2>2, <2>4
  <1>. QED  BY <1>1, <1>8, <1>9

----------------------------------------------------------------------------
Rising(chain) == \A i, j \in 1 .. Len(chain) : i < j => chain[i].Height < chain[j].Height

Ordered(file) ==
    \A i, j \in Good(file) : i < j => BlockAt(file, i).Height < BlockAt(file, j).Height

Member(b, chain) == \E k \in 1 .. Len(chain) : chain[k] = b

After(b, chain) == chain # <<>> /\ b.Height = chain[Len(chain)].Height + 1

\* What a line holds that load() can read.
LEMMA GoodLines ==
  ASSUME NEW file \in Seq(Line)
  PROVE  /\ Good(file) \in SUBSET Nat /\ IsFiniteSet(Good(file)) /\ Cardinality(Good(file)) \in Nat
         /\ \A i \in Good(file) : i \in 1 .. Len(file) /\ BlockAt(file, i) \in Block
  <1>1. PICK n \in Nat : n = Len(file)
    BY LenProperties
  <1>2. IsFiniteSet(1 .. n) /\ Good(file) \in SUBSET (1 .. n)
    BY <1>1, CardinalityOfInterval DEF Good
  <1>3. IsFiniteSet(Good(file)) /\ Cardinality(Good(file)) \in Nat
    BY <1>2, FS_Subset, FS_CardinalityType
  <1>4. ASSUME NEW i \in Good(file) PROVE i \in 1 .. Len(file) /\ BlockAt(file, i) \in Block
    <2>1. i \in 1 .. Len(file) /\ Len(file[i]) = 1
      BY DEF Good, Parses
    <2>2. PICK line, R : line = file[i] /\ R = [block : Block, whole : BOOLEAN]
      OBVIOUS
    <2>3. line \in Seq(R) /\ Len(line) = 1
      BY <2>1, <2>2, ElementOfSeq DEF Line
    <2>4. line[1] \in R
      BY <2>3, ElementOfSeq
    <2>5. line[1].block \in Block
      BY <2>2, <2>4
    <2>. QED  BY <2>1, <2>2, <2>5 DEF BlockAt
  <1>. QED  BY <1>2, <1>3, <1>4

\* load() finds the blocks of the lines it can read, in the order of the file.
LEMMA LoadIs ==
  ASSUME NEW file \in Seq(Line)
  PROVE  /\ Load(file) \in Seq(Block)
         /\ \A k \in 1 .. Len(Load(file)) : \E i \in Good(file) : Load(file)[k] = BlockAt(file, i)
         /\ \A i \in Good(file) : Member(BlockAt(file, i), Load(file))
         /\ Ordered(file) => Rising(Load(file))
  <1>1. PICK S, n : S = Good(file) /\ n = Cardinality(S)
    OBVIOUS
  <1>2. /\ S \in SUBSET Nat /\ IsFiniteSet(S) /\ n \in Nat
        /\ \A i \in S : BlockAt(file, i) \in Block
    BY <1>1, GoodLines
  <1>3. /\ \A k \in 1 .. n : Kth(S, k) \in S /\ Rank(S, Kth(S, k)) = k
        /\ \A i \in S : Kth(S, Rank(S, i)) = i /\ Rank(S, i) \in 1 .. n
    BY <1>1, <1>2, KthIs, RankRises
  <1>4. PICK c : c = Load(file)
    OBVIOUS
  <1>5. c = [k \in 1 .. n |-> BlockAt(file, Kth(S, k))]
    BY <1>1, <1>4 DEF Load, Good, BlockAt
  <1>6. \A k \in 1 .. n : c[k] = BlockAt(file, Kth(S, k)) /\ c[k] \in Block
    BY <1>2, <1>3, <1>5
  <1>7. c \in Seq(Block) /\ Len(c) = n
    BY <1>2, <1>5, <1>6
  <1>8. \A k \in 1 .. n : \E i \in S : c[k] = BlockAt(file, i)
    BY <1>3, <1>6
  <1>9. ASSUME NEW i \in S PROVE Member(BlockAt(file, i), c)
    <2>1. PICK k \in 1 .. n : k = Rank(S, i) /\ Kth(S, k) = i
      BY <1>3
    <2>2. c[k] = BlockAt(file, i)
      BY <1>6, <2>1
    <2>. QED  BY <1>7, <2>2 DEF Member
  <1>10. ASSUME Ordered(file) PROVE Rising(c)
    <2>1. ASSUME NEW k \in 1 .. n, NEW l \in 1 .. n, k < l PROVE c[k].Height < c[l].Height
      <3>1. PICK i, j : i = Kth(S, k) /\ j = Kth(S, l)
        OBVIOUS
      <3>2. i \in S /\ j \in S /\ Rank(S, i) = k /\ Rank(S, j) = l
        BY <1>3, <3>1
      <3>3. i < j
        <4>1. ~(j < i) /\ i # j
          <5>1. j < i => l < k
            BY <1>2, <3>2, RankRises
          <5>. QED  BY <2>1, <3>2, <5>1
        <4>2. i \in Nat /\ j \in Nat
          BY <1>2, <3>2
        <4>. QED  BY <4>1, <4>2
      <3>4. c[k] = BlockAt(file, i) /\ c[l] = BlockAt(file, j)
        BY <1>6, <3>1
      <3>. QED  BY <1>1, <1>10, <3>2, <3>3, <3>4 DEF Ordered
    <2>. QED  BY <1>7, <2>1 DEF Rising
  <1>. QED  BY <1>1, <1>4, <1>7, <1>8, <1>9, <1>10

----------------------------------------------------------------------------
\* Every line that can be read after a write is a line that could be read
\* before, or is the line that was written to, and then it holds the block.
LEMMA WriteIs ==
  ASSUME NEW file \in Seq(Line), file # <<>>, NEW b \in Block, NEW extent \in Extent
  PROVE  \A i \in Good(Write(file, b, extent)) :
            \/ i \in Good(file) /\ BlockAt(Write(file, b, extent), i) = BlockAt(file, i)
            \/ i = Len(file) /\ BlockAt(Write(file, b, extent), i) = b
  <1>1. PICK n \in Nat : n = Len(file) /\ n > 0
    BY EmptySeq, LenProperties
  <1>2. PICK empty \in Line : empty = <<>>
    <2>1. <<>> \in Line
      BY EmptySeq DEF Line
    <2>. QED  BY <2>1
  <1>3. PICK R : R = [block : Block, whole : BOOLEAN]
    OBVIOUS
  <1>. DEFINE Fits(next) ==
                \A i \in Good(next) : \/ i \in Good(file) /\ BlockAt(next, i) = BlockAt(file, i)
                                      \/ i = n /\ BlockAt(next, i) = b
  <1>4. ASSUME NEW w \in BOOLEAN, NEW next,
               next = [file EXCEPT ![n] = Append(@, [block |-> b, whole |-> w])]
        PROVE  next \in Seq(Line) /\ Len(next) = n /\ Fits(next)
    <2>1. PICK r \in R : r = [block |-> b, whole |-> w] /\ r.block = b
      <3>1. PICK r : r = [block |-> b, whole |-> w]
        OBVIOUS
      <3>2. r \in R /\ r.block = b
        BY <1>3, <3>1
      <3>. QED  BY <3>1, <3>2
    <2>0. PICK old \in Line : old = file[n]
      <3>1. file[n] \in Line
        BY <1>1, ElementOfSeq
      <3>. QED  BY <3>1
    <2>2. PICK line : line = Append(old, r)
      OBVIOUS
    <2>3. /\ line \in Seq(R) /\ Len(line) = Len(old) + 1 /\ Len(old) \in Nat
          /\ line[Len(old) + 1] = r
      BY <1>3, <2>1, <2>2, AppendFacts DEF Line
    <2>4. next = [file EXCEPT ![n] = line]
      BY <1>4, <2>0, <2>1, <2>2
    <2>5. line \in Line /\ n \in 1 .. Len(file)
      BY <1>1, <1>3, <2>3 DEF Line
    <2>6. /\ next \in Seq(Line) /\ Len(next) = n
          /\ \A i \in 1 .. n : next[i] = IF i = n THEN line ELSE file[i]
      BY <1>1, <2>4, <2>5, ExceptSeq
    <2>7. ASSUME NEW i \in Good(next)
          PROVE  \/ i \in Good(file) /\ BlockAt(next, i) = BlockAt(file, i)
                 \/ i = n /\ BlockAt(next, i) = b
      <3>1. i \in 1 .. n /\ Parses(next[i])
        BY <2>6 DEF Good
      <3>2. CASE i = n
        <4>1. next[i] = line
          BY <2>6, <3>1, <3>2
        <4>2. Len(line) = 1
          BY <3>1, <4>1 DEF Parses
        <4>3. line[1] = r
          BY <2>3, <4>2
        <4>. QED  BY <2>1, <3>2, <4>1, <4>3 DEF BlockAt
      <3>3. CASE i # n
        <4>1. next[i] = file[i]
          BY <2>6, <3>1, <3>3
        <4>. QED  BY <1>1, <3>1, <4>1 DEF BlockAt, Good
      <3>. QED  BY <3>2, <3>3
    <2>. QED  BY <2>6, <2>7
  <1>5. ASSUME NEW next \in Seq(Line), Len(next) = n, Fits(next)
        PROVE  Fits(Append(next, empty))
    <2>1. PICK longer : longer = Append(next, empty)
      OBVIOUS
    <2>2. /\ Len(longer) = n + 1 /\ longer[n + 1] = empty
          /\ \A i \in 1 .. n : longer[i] = next[i]
      BY <1>1, <1>2, <1>5, <2>1, AppendFacts
    <2>3. ~Parses(empty)
      BY <1>2, EmptyLine
    <2>4. ASSUME NEW i \in Good(longer)
          PROVE  i \in Good(next) /\ BlockAt(longer, i) = BlockAt(next, i)
      <3>1. i \in 1 .. n + 1 /\ Parses(longer[i])
        BY <2>2 DEF Good
      <3>2. i # n + 1
        BY <2>2, <2>3, <3>1
      <3>3. i \in 1 .. n
        BY <3>1, <3>2
      <3>4. longer[i] = next[i]
        BY <2>2, <3>3
      <3>. QED  BY <1>5, <3>1, <3>3, <3>4 DEF Good, BlockAt
    <2>5. Fits(longer)
      BY <1>5, <2>4
    <2>. QED  BY <2>1, <2>5
  <1>6. PICK next : next = Write(file, b, extent)
    OBVIOUS
  <1>7. PICK part, text :
           /\ part = [file EXCEPT ![n] = Append(@, [block |-> b, whole |-> FALSE])]
           /\ text = [file EXCEPT ![n] = Append(@, [block |-> b, whole |-> TRUE])]
    OBVIOUS
  <1>8. /\ text \in Seq(Line) /\ Len(text) = n /\ Fits(text) /\ Fits(part)
    <2>1. TRUE \in BOOLEAN /\ FALSE \in BOOLEAN
      OBVIOUS
    <2>. HIDE DEF Fits
    <2>. QED  BY <1>4, <1>7, <2>1
  <1>9. Fits(Append(text, empty))
    BY <1>5, <1>8
  <1>10. Fits(file)
    OBVIOUS
  <1>11. \/ next = file \/ next = part \/ next = text \/ next = Append(text, empty)
    BY <1>1, <1>2, <1>6, <1>7 DEF Write, Extent
  <1>12. Fits(next)
    <2>. HIDE DEF Fits
    <2>. QED  BY <1>8, <1>9, <1>10, <1>11
  <1>. QED  BY <1>1, <1>6, <1>12

----------------------------------------------------------------------------
(***************************************************************************)
(* Whatever writes fail: what can be read of the file are blocks of the    *)
(* chain that callers know, in its order, and when no process runs perhaps *)
(* the block that was being added, or a genesis block alone.               *)
(***************************************************************************)
KnownLines == \A i \in Good(disk) : Member(BlockAt(disk, i), acked)

LinesInOrder ==
    /\ up \in BOOLEAN /\ boots \in Nat
    /\ disk \in Seq(Line) /\ disk # <<>>
    /\ acked \in Seq(Block) /\ Rising(acked) /\ Ordered(disk)
    /\ up => blocks = acked /\ acked # <<>> /\ KnownLines
    /\ ~up => \/ \A i \in Good(disk) :
                    Member(BlockAt(disk, i), acked) \/ After(BlockAt(disk, i), acked)
              \/ \A i \in Good(disk) : BlockAt(disk, i) = Genesis

LEMMA NothingToRead ==
  ASSUME NEW file \in Seq(Line), Load(file) = <<>>
  PROVE  Good(file) = {}
  <1>1. ASSUME NEW i \in Good(file) PROVE FALSE
    <2>1. Member(BlockAt(file, i), Load(file))
      BY LoadIs
    <2>2. Len(Load(file)) = 0
      OBVIOUS
    <2>. QED  BY <2>1, <2>2 DEF Member
  <1>. QED  BY <1>1

LEMMA NoFileIsEmpty == Good(NoFile) = {}
  <1>1. NoFile \in Seq(Line) /\ Load(NoFile) = <<>>
    BY NoFileType, FirstFiles, LoadStored
  <1>. QED  BY <1>1, NothingToRead

\* The file that a first start writes.
LEMMA GenesisFile ==
  ASSUME NEW extent \in Extent
  PROVE  LET file == Write(NoFile, Genesis, extent)
         IN  /\ file \in Seq(Line) /\ file # <<>> /\ Ordered(file)
             /\ \A i \in Good(file) : BlockAt(file, i) = Genesis
  <1>1. PICK old, file : old = NoFile /\ file = Write(NoFile, Genesis, extent)
    OBVIOUS
  <1>2. old \in Seq(Line) /\ old # <<>> /\ Good(old) = {} /\ Genesis \in Block
    BY <1>1, NoFileType, NoFileIsEmpty, GenesisFacts
  <1>3. file \in Seq(Line) /\ file # <<>>
    BY <1>1, <1>2, WriteType
  <1>4. \A i \in Good(file) : i = Len(old) /\ BlockAt(file, i) = Genesis
    BY <1>1, <1>2, WriteIs
  <1>5. Ordered(file)
    <2>1. Len(old) \in Nat
      BY <1>2, LenProperties
    <2>2. ASSUME NEW i \in Good(file), NEW j \in Good(file), i < j PROVE FALSE
      BY <1>4, <2>1, <2>2
    <2>. QED  BY <2>2 DEF Ordered
  <1>. QED  BY <1>1, <1>3, <1>4, <1>5

\* The chain of one block.
LEMMA GenesisChain ==
  << Genesis >> \in Seq(Block) /\ << Genesis >> # <<>> /\ Rising(<< Genesis >>)
    /\ Member(Genesis, << Genesis >>)
  <1>1. PICK one : one = << Genesis >>
    OBVIOUS
  <1>2. one \in Seq(Block) /\ one # <<>> /\ Len(one) = 1 /\ one[1] = Genesis
    <2>1. Genesis \in Block
      BY GenesisFacts
    <2>. QED  BY <1>1, <2>1
  <1>3. \A i, j \in 1 .. 1 : ~(i < j)
    OBVIOUS
  <1>4. Rising(one) /\ Member(Genesis, one)
    BY <1>2, <1>3 DEF Rising, Member
  <1>. QED  BY <1>1, <1>2, <1>4

\* The block that AddBlock makes comes after the latest one.
LEMMA NextBlockIs ==
  ASSUME NEW now \in Nat, NEW transactions \in Seq(TxHash), blocks \in Seq(Block), blocks # <<>>
  PROVE  LET b == NextBlock(now, Founder, transactions)
         IN  b \in Block /\ After(b, blocks)
  <1>1. Height \in Nat /\ LatestBlock.Hash \in Hash /\ Founder \in Address
    BY LatestBlockType, BlockchainAssumption
  <1>2. PICK b : b = NextBlock(now, Founder, transactions)
    OBVIOUS
  <1>3. b \in Block /\ b.Height = Height + 1
    BY <1>1, <1>2, NewBlockFacts DEF NextBlock
  <1>. QED  BY <1>2, <1>3 DEF After, Height, LatestBlock

\* Nothing in a rising chain is as high as the block after it.
LEMMA AfterIsHigher ==
  ASSUME NEW chain \in Seq(Block), NEW b \in Block, Rising(chain), After(b, chain),
         NEW x, Member(x, chain)
  PROVE  x.Height < b.Height
  <1>1. PICK n \in Nat : n = Len(chain) /\ n > 0
    BY EmptySeq, LenProperties DEF After
  <1>2. PICK k \in 1 .. n : chain[k] = x
    BY <1>1 DEF Member
  <1>3. chain[k] \in Block /\ chain[n] \in Block
    BY <1>1, <1>2, ElementOfSeq
  <1>4. PICK h \in Nat, top \in Nat : h = chain[k].Height /\ top = chain[n].Height
    BY <1>3 DEF Block
  <1>5. h <= top
    <2>1. CASE k = n
      BY <1>4, <2>1
    <2>2. CASE k # n
      <3>1. k < n /\ n \in 1 .. n
        BY <1>1, <1>2, <2>2
      <3>. QED  BY <1>1, <1>4, <3>1 DEF Rising
    <2>. QED  BY <2>1, <2>2
  <1>. QED  BY <1>1, <1>2, <1>4, <1>5 DEF After

LEMMA RisingOn ==
  ASSUME NEW chain \in Seq(Block), NEW b \in Block, Rising(chain), After(b, chain)
  PROVE  LET longer == Append(chain, b)
         IN  /\ longer \in Seq(Block) /\ longer # <<>> /\ Rising(longer) /\ Member(b, longer)
             /\ \A x : Member(x, chain) => Member(x, longer)
  <1>1. PICK n \in Nat : n = Len(chain)
    BY LenProperties
  <1>2. PICK longer : longer = Append(chain, b)
    OBVIOUS
  <1>3. /\ longer \in Seq(Block) /\ longer # <<>> /\ Len(longer) = n + 1 /\ longer[n + 1] = b
        /\ \A i \in 1 .. n : longer[i] = chain[i]
    BY <1>1, <1>2, AppendFacts
  <1>4. Rising(longer)
    <2>1. ASSUME NEW i \in 1 .. n + 1, NEW j \in 1 .. n + 1, i < j
          PROVE  longer[i].Height < longer[j].Height
      <3>1. i \in 1 .. n /\ longer[i] = chain[i]
        BY <1>3, <2>1
      <3>2. CASE j = n + 1
        <4>1. Member(chain[i], chain)
          BY <1>1, <3>1 DEF Member
        <4>. QED  BY <1>3, <3>1, <3>2, <4>1, AfterIsHigher
      <3>3. CASE j # n + 1
        <4>1. j \in 1 .. n
          BY <3>3
        <4>. QED  BY <1>1, <1>3, <2>1, <3>1, <4>1 DEF Rising
      <3>. QED  BY <3>2, <3>3
    <2>. QED  BY <1>3, <2>1 DEF Rising
  <1>5. Member(b, longer)
    <2>1. n + 1 \in 1 .. n + 1
      OBVIOUS
    <2>. QED  BY <1>3, <2>1 DEF Member
  <1>6. ASSUME NEW x, Member(x, chain) PROVE Member(x, longer)
    <2>1. PICK k \in 1 .. n : chain[k] = x
      BY <1>1, <1>6 DEF Member
    <2>2. k \in 1 .. n + 1
      OBVIOUS
    <2>. QED  BY <1>3, <2>1, <2>2 DEF Member
  <1>. QED  BY <1>2, <1>3, <1>4, <1>5, <1>6

\* A write of the next block keeps the lines in order.
LEMMA WriteInOrder ==
  ASSUME NEW chain \in Seq(Block), NEW file \in Seq(Line), NEW b \in Block, NEW extent \in Extent,
         file # <<>>, Rising(chain), Ordered(file), After(b, chain),
         \A i \in Good(file) : Member(BlockAt(file, i), chain)
  PROVE  LET next == Write(file, b, extent)
         IN  /\ next \in Seq(Line) /\ next # <<>> /\ Ordered(next)
             /\ \A i \in Good(next) : Member(BlockAt(next, i), chain) \/ BlockAt(next, i) = b
  <1>1. PICK next : next = Write(file, b, extent)
    OBVIOUS
  <1>2. next \in Seq(Line) /\ next # <<>>
    BY <1>1, WriteType
  <1>3. PICK n \in Nat : n = Len(file)
    BY LenProperties
  <1>4. \A i \in Good(next) : \/ i \in Good(file) /\ BlockAt(next, i) = BlockAt(file, i)
                              \/ i = n /\ BlockAt(next, i) = b
    BY <1>1, <1>3, WriteIs
  <1>5. \A i \in Good(file) : i \in 1 .. n
    BY <1>3 DEF Good
  <1>6. ASSUME NEW i \in Good(next), NEW j \in Good(next), i < j
        PROVE  BlockAt(next, i).Height < BlockAt(next, j).Height
    <2>1. i # n
      BY <1>3, <1>4, <1>5, <1>6
    <2>2. i \in Good(file) /\ BlockAt(next, i) = BlockAt(file, i)
      BY <1>4, <2>1
    <2>3. CASE j \in Good(file) /\ BlockAt(next, j) = BlockAt(file, j)
      BY <1>6, <2>2, <2>3 DEF Ordered
    <2>4. CASE BlockAt(next, j) = b
      BY <2>2, <2>4, AfterIsHigher
    <2>. QED  BY <1>4, <2>3, <2>4
  <1>7. \A i \in Good(next) : Member(BlockAt(next, i), chain) \/ BlockAt(next, i) = b
    BY <1>4
  <1>. QED  BY <1>1, <1>2, <1>6, <1>7 DEF Ordered

LEMMA InitLinesInOrder == StoreInit => LinesInOrder
  <1>. SUFFICES ASSUME StoreInit PROVE LinesInOrder
    OBVIOUS
  <1>1. /\ acked = <<>> /\ disk = NoFile /\ ~up /\ up \in BOOLEAN /\ boots \in Nat
    BY DEF StoreInit, BlockchainInit
  <1>2. disk \in Seq(Line) /\ disk # <<>> /\ Good(disk) = {}
    BY <1>1, NoFileType, NoFileIsEmpty
  <1>3. PICK empty : empty = <<>>
    OBVIOUS
  <1>4. empty \in Seq(Block) /\ Rising(empty)
    BY <1>3 DEF Rising
  <1>5. Ordered(disk)
    BY <1>2 DEF Ordered
  <1>. QED  BY <1>1, <1>2, <1>3, <1>4, <1>5 DEF LinesInOrder

LEMMA StartInOrder == ASSUME LinesInOrder, StoreStart, ~apart' PROVE LinesInOrder'
  <1>1. /\ acked' = blocks' /\ boots' \in Nat
        /\ disk \in Seq(Line) /\ disk # <<>> /\ Ordered(disk)
    BY DEF StoreStart, LinesInOrder
  <1>2. ASSUME NEW read \in Reads, Restart(read) PROVE LinesInOrder'
    <2>1. PICK c : c = Load(disk)
      OBVIOUS
    <2>2. /\ up' = TRUE /\ blocks' = c /\ c # <<>> /\ disk' = disk
      BY <1>2, <2>1 DEF Restart, Loaded
    <2>3. c \in Seq(Block) /\ Rising(c) /\ \A i \in Good(disk) : Member(BlockAt(disk, i), c)
      BY <1>1, <2>1, LoadIs
    <2>. QED  BY <1>1, <2>2, <2>3 DEF LinesInOrder, KnownLines
  <1>3. ASSUME NEW read \in Reads, NEW extent \in Writes, RestartFromGenesis(read, extent),
               apart' = (apart \/ (~read /\ extent = "none"))
        PROVE  LinesInOrder'
    <2>1. PICK one : one = << Genesis >>
      OBVIOUS
    <2>2. up' = TRUE /\ blocks' = one
      BY <1>3, <2>1 DEF RestartFromGenesis
    <2>3. one \in Seq(Block) /\ one # <<>> /\ Rising(one) /\ Member(Genesis, one)
      BY <2>1, GenesisChain
    <2>4. PICK next : next = disk'
      OBVIOUS
    <2>5. (next = disk /\ Load(disk) = <<>>) \/ next = Write(NoFile, Genesis, extent)
      BY <1>3, <2>4 DEF RestartFromGenesis, Loaded
    <2>6. extent \in Extent
      BY BlockchainAssumption
    <2>7. /\ next \in Seq(Line) /\ next # <<>> /\ Ordered(next)
          /\ \A i \in Good(next) : BlockAt(next, i) = Genesis
      BY <1>1, <2>2, <2>5, <2>6, NothingToRead, GenesisFile
    <2>. QED  BY <1>1, <2>2, <2>3, <2>4, <2>7 DEF LinesInOrder, KnownLines
  <1>. QED  BY <1>2, <1>3 DEF StoreStart

LEMMA FailedStartInOrder == ASSUME LinesInOrder, StoreFailedStart PROVE LinesInOrder'
  <1>1. PICK read \in Reads, extent \in CrashWrites : CrashInSave(read, extent)
    BY DEF StoreFailedStart
  <1>2. /\ ~up /\ up' = up /\ acked' = acked /\ boots' \in Nat
        /\ acked \in Seq(Block) /\ Rising(acked) /\ up \in BOOLEAN
    BY <1>1 DEF CrashInSave, StoreFailedStart, LinesInOrder
  <1>3. PICK next : next = disk'
    OBVIOUS
  <1>4. /\ next \in Seq(Line) /\ next # <<>> /\ Ordered(next)
        /\ \A i \in Good(next) : BlockAt(next, i) = Genesis
    <2>1. next = Write(NoFile, Genesis, extent) /\ extent \in Extent
      BY <1>1, <1>3, BlockchainAssumption DEF CrashInSave
    <2>. QED  BY <2>1, GenesisFile
  <1>. QED  BY <1>2, <1>3, <1>4 DEF LinesInOrder

LEMMA AddBlockInOrder == ASSUME LinesInOrder, StoreAddBlock PROVE LinesInOrder'
  <1>1. PICK transactions \in Batch, extent \in Writes :
            AddBlock(boots, Founder, transactions, extent)
    BY DEF StoreAddBlock
  <1>2. PICK b : b = NextBlock(boots, Founder, transactions)
    OBVIOUS
  <1>3. /\ up /\ up' = up /\ up \in BOOLEAN /\ boots' = boots /\ boots \in Nat
        /\ blocks' = Append(blocks, b) /\ acked' = blocks'
        /\ disk' = Write(disk, b, extent)
    BY <1>1, <1>2 DEF AddBlock, StoreAddBlock, LinesInOrder
  <1>4. /\ acked \in Seq(Block) /\ acked # <<>> /\ blocks = acked /\ Rising(acked)
        /\ disk \in Seq(Line) /\ disk # <<>> /\ Ordered(disk) /\ KnownLines
    BY <1>3 DEF LinesInOrder
  <1>5. b \in Block /\ After(b, acked)
    BY <1>2, <1>3, <1>4, NextBlockIs, ChainStoreAssumption
  <1>6. extent \in Extent
    BY BlockchainAssumption
  <1>7. PICK next, longer : next = disk' /\ longer = Append(acked, b)
    OBVIOUS
  <1>8. /\ longer \in Seq(Block) /\ longer # <<>> /\ Rising(longer) /\ Member(b, longer)
        /\ \A x : Member(x, acked) => Member(x, longer)
    BY <1>4, <1>5, <1>7, RisingOn
  <1>9. /\ next \in Seq(Line) /\ next # <<>> /\ Ordered(next)
        /\ \A i \in Good(next) : Member(BlockAt(next, i), acked) \/ BlockAt(next, i) = b
    BY <1>3, <1>4, <1>5, <1>6, <1>7, WriteInOrder DEF KnownLines
  <1>10. \A i \in Good(next) : Member(BlockAt(next, i), longer)
    BY <1>8, <1>9
  <1>. QED  BY <1>3, <1>4, <1>7, <1>8, <1>9, <1>10 DEF LinesInOrder, KnownLines

LEMMA CrashInOrder == ASSUME LinesInOrder, StoreCrash PROVE LinesInOrder'
  <1>1. /\ up /\ up' = FALSE /\ UNCHANGED <<acked, boots, disk>>
    BY DEF StoreCrash, Crash
  <1>. QED  BY <1>1 DEF LinesInOrder, KnownLines

LEMMA CrashInAddInOrder == ASSUME LinesInOrder, StoreCrashInAddBlock PROVE LinesInOrder'
  <1>1. PICK transactions \in Batch, extent \in CrashWrites :
            CrashInAddBlock(boots, Founder, transactions, extent)
    BY DEF StoreCrashInAddBlock
  <1>2. PICK b : b = NextBlock(boots, Founder, transactions)
    OBVIOUS
  <1>3. /\ up /\ up' = FALSE /\ UNCHANGED <<acked, boots>> /\ boots \in Nat
        /\ disk' = Write(disk, b, extent)
    BY <1>1, <1>2 DEF CrashInAddBlock, StoreCrashInAddBlock, LinesInOrder
  <1>4. /\ acked \in Seq(Block) /\ acked # <<>> /\ blocks = acked /\ Rising(acked)
        /\ disk \in Seq(Line) /\ disk # <<>> /\ Ordered(disk) /\ KnownLines
    BY <1>3 DEF LinesInOrder
  <1>5. b \in Block /\ After(b, acked)
    BY <1>2, <1>3, <1>4, NextBlockIs, ChainStoreAssumption
  <1>6. extent \in Extent
    BY BlockchainAssumption
  <1>7. PICK next : next = disk'
    OBVIOUS
  <1>8. /\ next \in Seq(Line) /\ next # <<>> /\ Ordered(next)
        /\ \A i \in Good(next) : Member(BlockAt(next, i), acked) \/ BlockAt(next, i) = b
    BY <1>3, <1>4, <1>5, <1>6, <1>7, WriteInOrder DEF KnownLines
  <1>9. \A i \in Good(next) : Member(BlockAt(next, i), acked) \/ After(BlockAt(next, i), acked)
    BY <1>5, <1>8
  <1>. QED  BY <1>3, <1>4, <1>7, <1>8, <1>9 DEF LinesInOrder

OrderInv == apart \in BOOLEAN /\ (~apart => LinesInOrder)

LEMMA NextLinesInOrder == OrderInv /\ [StoreNext]_storeVars => OrderInv'
  <1>. SUFFICES ASSUME OrderInv, [StoreNext]_storeVars PROVE OrderInv'
    OBVIOUS
  <1>1. CASE UNCHANGED storeVars
    BY <1>1 DEF storeVars, chainVars, OrderInv, LinesInOrder, KnownLines
  <1>2. CASE StoreNext
    <2>1. apart' \in BOOLEAN /\ (apart => apart')
      BY <1>2 DEF OrderInv, StoreNext, StoreStart, StoreFailedStart, StoreAddBlock, StoreCrash,
         StoreCrashInAddBlock
    <2>2. ASSUME ~apart' PROVE LinesInOrder'
      <3>1. LinesInOrder
        BY <2>1, <2>2 DEF OrderInv
      <3>. QED  BY <1>2, <2>2, <3>1, StartInOrder, FailedStartInOrder, AddBlockInOrder,
                CrashInOrder, CrashInAddInOrder DEF StoreNext
    <2>. QED  BY <2>1, <2>2 DEF OrderInv
  <1>. QED  BY <1>1, <1>2

----------------------------------------------------------------------------
\* A linked chain counts its blocks.
LEMMA LinkedCounts ==
  ASSUME NEW stored \in Seq(Block), Linked(stored)
  PROVE  \A k \in 1 .. Len(stored) :
            stored[k].Height \in Nat /\ stored[k].Height = stored[1].Height + (k - 1)
  <1>1. PICK n \in Nat : n = Len(stored)
    BY LenProperties
  <1>2. ASSUME NEW k \in 1 .. n PROVE stored[k].Height \in Nat
    <2>1. stored[k] \in Block
      BY <1>1, ElementOfSeq
    <2>. QED  BY <2>1 DEF Block
  <1>. DEFINE Counts(k) == stored[k].Height = stored[1].Height + (k - 1)
              T == {k \in 1 .. n : ~Counts(k)}
  <1>3. SUFFICES ASSUME T # {} PROVE FALSE
    BY <1>1, <1>2
  <1>4. PICK k \in T : \A j \in T : k <= j
    <2>1. T \subseteq Nat
      OBVIOUS
    <2>. HIDE DEF T
    <2>. QED  BY <1>3, <2>1, LeastNumber
  <1>5. k \in 1 .. n /\ ~Counts(k)
    OBVIOUS
  <1>6. k # 1
    <2>1. 1 \in 1 .. n
      BY <1>5
    <2>2. stored[1].Height \in Nat
      BY <1>2, <2>1
    <2>. QED  BY <1>5, <2>2
  <1>7. PICK j \in 1 .. n : j = k - 1 /\ k \in 2 .. n
    BY <1>5, <1>6
  <1>8. Counts(j)
    <2>1. ~(k <= j)
      BY <1>5, <1>7
    <2>. QED  BY <1>4, <2>1
  <1>9. stored[k].Height = stored[j].Height + 1
    BY <1>1, <1>7 DEF Linked, ValidLink
  <1>10. stored[1].Height \in Nat
    <2>1. 1 \in 1 .. n
      BY <1>5
    <2>. QED  BY <1>2, <2>1
  <1>11. stored[k].Height = stored[1].Height + (k - 1)
    BY <1>5, <1>7, <1>8, <1>9, <1>10
  <1>. QED  BY <1>5, <1>11

\* In a rising chain the next height is next to it.
LEMMA NextTo ==
  ASSUME NEW chain \in Seq(Block), Rising(chain),
         NEW p \in 1 .. Len(chain), NEW q \in 1 .. Len(chain),
         chain[q].Height = chain[p].Height + 1
  PROVE  q = p + 1
  <1>1. PICK n \in Nat : n = Len(chain)
    BY LenProperties
  <1>2. \A k \in 1 .. n : chain[k].Height \in Nat
    <2>1. \A k \in 1 .. n : chain[k] \in Block
      BY <1>1, ElementOfSeq
    <2>. QED  BY <2>1 DEF Block
  <1>3. p \in 1 .. n /\ q \in 1 .. n
    BY <1>1
  <1>4. \A i, j \in 1 .. n : i < j => chain[i].Height < chain[j].Height
    BY <1>1 DEF Rising
  <1>5. ~(q < p) /\ q # p
    BY <1>2, <1>3, <1>4
  <1>6. ~(p + 1 < q)
    <2>. SUFFICES ASSUME p + 1 < q PROVE FALSE
      OBVIOUS
    <2>1. p + 1 \in 1 .. n /\ p < p + 1
      BY <1>3
    <2>2. chain[p].Height < chain[p + 1].Height /\ chain[p + 1].Height < chain[q].Height
      BY <1>3, <1>4, <2>1
    <2>. QED  BY <1>2, <1>3, <2>1, <2>2
  <1>. QED  BY <1>3, <1>5, <1>6

SameFrom(chain, i, stored, k) == i + k - 1 \in 1 .. Len(chain) /\ chain[i + k - 1] = stored[k]

\* The linked blocks that a rising chain holds stand side by side there.
LEMMA SideBySide ==
  ASSUME NEW chain \in Seq(Block), NEW stored \in Seq(Block), Rising(chain), Linked(stored),
         NEW m \in 1 .. Len(stored), \A k \in 1 .. m : Member(stored[k], chain)
  PROVE  \E i \in 1 .. Len(chain) : \A k \in 1 .. m : SameFrom(chain, i, stored, k)
  <1>1. PICK n \in Nat : n = Len(chain)
    BY LenProperties
  <1>2. m \in Nat /\ 1 \in 1 .. m /\ 1 .. m \subseteq 1 .. Len(stored)
    BY LenProperties
  <1>3. PICK i \in 1 .. n : chain[i] = stored[1]
    BY <1>1, <1>2 DEF Member
  <1>. DEFINE T == {k \in 1 .. m : ~SameFrom(chain, i, stored, k)}
  <1>4. SUFFICES ASSUME T # {} PROVE FALSE
    BY <1>1
  <1>5. PICK k \in T : \A j \in T : k <= j
    <2>1. T \subseteq Nat
      OBVIOUS
    <2>. HIDE DEF T
    <2>. QED  BY <1>4, <2>1, LeastNumber
  <1>6. k \in 1 .. m /\ ~SameFrom(chain, i, stored, k)
    OBVIOUS
  <1>7. k # 1
    <2>1. i + 1 - 1 = i
      BY <1>3
    <2>2. SameFrom(chain, i, stored, 1)
      BY <1>1, <1>3, <2>1 DEF SameFrom
    <2>. QED  BY <1>6, <2>2
  <1>8. PICK j \in 1 .. m : j = k - 1 /\ k = j + 1
    BY <1>6, <1>7
  <1>9. SameFrom(chain, i, stored, j)
    <2>1. ~(k <= j)
      BY <1>6, <1>8
    <2>. QED  BY <1>5, <2>1
  <1>10. PICK p \in 1 .. n, q \in 1 .. n :
            p = i + j - 1 /\ chain[p] = stored[j] /\ chain[q] = stored[k]
    <2>1. PICK q \in 1 .. n : chain[q] = stored[k]
      BY <1>1, <1>6 DEF Member
    <2>2. i + j - 1 \in 1 .. n /\ chain[i + j - 1] = stored[j]
      BY <1>1, <1>9 DEF SameFrom
    <2>. QED  BY <2>1, <2>2
  <1>11. stored[k].Height = stored[j].Height + 1
    <2>1. k \in 2 .. Len(stored) /\ j = k - 1
      BY <1>2, <1>6, <1>7, <1>8
    <2>. QED  BY <2>1 DEF Linked, ValidLink
  <1>12. q = p + 1
    BY <1>1, <1>10, <1>11, NextTo
  <1>13. i + k - 1 = q
    BY <1>3, <1>8, <1>10, <1>12
  <1>. QED  BY <1>1, <1>6, <1>10, <1>13 DEF SameFrom

LEMMA KnownFrom ==
  ASSUME NEW chain \in Seq(Block), NEW i \in 1 .. Len(chain) + 1
  PROVE  LET known == SubSeq(chain, i, Len(chain))
         IN  /\ known \in Seq(Block) /\ Len(known) = Len(chain) - i + 1
             /\ \A k \in 1 .. Len(known) : known[k] = chain[i + k - 1]
  <1>1. PICK n \in Nat : n = Len(chain)
    BY LenProperties
  <1>2. \A k \in i .. n : chain[k] \in Block
    BY <1>1, ElementOfSeq
  <1>. QED  BY <1>1, <1>2

LEMMA PrefixIs ==
  ASSUME NEW s \in Seq(Block), NEW t \in Seq(Block), Len(s) <= Len(t),
         \A k \in 1 .. Len(s) : s[k] = t[k]
  PROVE  IsPrefix(s, t)
  <1>1. PICK n \in Nat : n = Len(s) /\ Len(t) \in Nat
    BY LenProperties
  <1>2. SubSeq(s, 1, n) = SubSeq(t, 1, n)
    BY <1>1
  <1>. QED  BY <1>1, <1>2 DEF IsPrefix

IsSection(stored, chain) ==
    \E i \in 1 .. Len(chain) + 1 :
        LET known == SubSeq(chain, i, Len(chain))
        IN  \/ IsPrefix(stored, known)
            \/ IsPrefix(known, stored) /\ Len(stored) = Len(known) + 1

\* At most one block, whichever.
LEMMA ShortSection ==
  ASSUME NEW chain \in Seq(Block), NEW stored \in Seq(Block), Len(stored) <= 1
  PROVE  IsSection(stored, chain)
  <1>1. PICK n \in Nat, i \in Nat : n = Len(chain) /\ i = n + 1
    BY LenProperties
  <1>2. PICK known : known = SubSeq(chain, i, n)
    OBVIOUS
  <1>3. known \in Seq(Block) /\ Len(known) = 0 /\ i \in 1 .. n + 1
    <2>1. i \in 1 .. n + 1
      BY <1>1
    <2>2. known \in Seq(Block) /\ Len(known) = n - i + 1
      BY <1>1, <1>2, <2>1, KnownFrom
    <2>. QED  BY <1>1, <2>1, <2>2
  <1>4. Len(stored) \in Nat /\ (Len(stored) = 0 \/ Len(stored) = 1)
    <2>1. PICK m \in Nat : m = Len(stored)
      BY LenProperties
    <2>2. m = 0 \/ m = 1
      BY <2>1
    <2>. QED  BY <2>1, <2>2
  <1>5. CASE Len(stored) = 0
    <2>1. Len(stored) <= Len(known) /\ \A k \in 1 .. Len(stored) : stored[k] = known[k]
      BY <1>3, <1>4, <1>5
    <2>2. IsPrefix(stored, known)
      BY <1>3, <2>1, PrefixIs
    <2>. QED  BY <1>1, <1>2, <1>3, <2>2 DEF IsSection
  <1>6. CASE Len(stored) = 1
    <2>1. Len(known) <= Len(stored) /\ \A k \in 1 .. Len(known) : known[k] = stored[k]
      BY <1>3, <1>4, <1>6
    <2>2. IsPrefix(known, stored)
      BY <1>3, <2>1, PrefixIs
    <2>3. Len(stored) = Len(known) + 1
      BY <1>3, <1>6
    <2>4. i \in 1 .. Len(chain) + 1 /\ known = SubSeq(chain, i, Len(chain))
      BY <1>1, <1>2, <1>3
    <2>. QED  BY <2>2, <2>3, <2>4 DEF IsSection
  <1>. QED  BY <1>4, <1>5, <1>6, Zenon

LEMMA MembersSection ==
  ASSUME NEW chain \in Seq(Block), NEW stored \in Seq(Block), Rising(chain), Linked(stored),
         stored # <<>>, \A k \in 1 .. Len(stored) : Member(stored[k], chain)
  PROVE  IsSection(stored, chain)
  <1>1. PICK n \in Nat, m \in Nat : n = Len(chain) /\ m = Len(stored) /\ m > 0
    BY EmptySeq, LenProperties
  <1>2. m \in 1 .. Len(stored)
    BY <1>1
  <1>3. PICK i \in 1 .. n : \A k \in 1 .. m : SameFrom(chain, i, stored, k)
    BY <1>1, <1>2, SideBySide
  <1>4. PICK known : known = SubSeq(chain, i, n)
    OBVIOUS
  <1>5. /\ i \in 1 .. n + 1 /\ known \in Seq(Block) /\ Len(known) = n - i + 1
        /\ \A k \in 1 .. Len(known) : known[k] = chain[i + k - 1]
    <2>1. i \in 1 .. n + 1
      BY <1>3
    <2>. QED  BY <1>1, <1>4, <2>1, KnownFrom
  <1>6. m <= Len(known)
    <2>1. i + m - 1 \in 1 .. n
      BY <1>1, <1>2, <1>3 DEF SameFrom
    <2>. QED  BY <1>5, <2>1
  <1>7. \A k \in 1 .. m : stored[k] = known[k]
    <2>1. ASSUME NEW k \in 1 .. m PROVE stored[k] = known[k]
      <3>1. k \in 1 .. Len(known)
        BY <1>5, <1>6
      <3>2. chain[i + k - 1] = stored[k]
        BY <1>3 DEF SameFrom
      <3>. QED  BY <1>5, <3>1, <3>2
    <2>. QED  BY <2>1
  <1>8. IsPrefix(stored, known)
    BY <1>1, <1>5, <1>6, <1>7, PrefixIs
  <1>. QED  BY <1>1, <1>4, <1>5, <1>8 DEF IsSection

\* All but the last one, and the last one comes after the chain.
LEMMA AddedSection ==
  ASSUME NEW chain \in Seq(Block), NEW stored \in Seq(Block), Rising(chain), Linked(stored),
         Len(stored) > 1, After(stored[Len(stored)], chain),
         \A k \in 1 .. Len(stored) - 1 : Member(stored[k], chain)
  PROVE  IsSection(stored, chain)
  <1>1. PICK n \in Nat, m \in Nat : n = Len(chain) /\ Len(stored) = m + 1 /\ m > 0
    <2>1. Len(stored) \in Nat /\ Len(chain) \in Nat
      BY LenProperties
    <2>2. Len(stored) - 1 \in Nat /\ Len(stored) = (Len(stored) - 1) + 1 /\ Len(stored) - 1 > 0
      BY <2>1
    <2>. QED  BY <2>1, <2>2
  <1>2. m \in 1 .. Len(stored) /\ m = Len(stored) - 1
    BY <1>1
  <1>3. PICK i \in 1 .. n : \A k \in 1 .. m : SameFrom(chain, i, stored, k)
    BY <1>1, <1>2, SideBySide
  <1>4. PICK p \in 1 .. n : p = i + m - 1 /\ chain[p] = stored[m]
    <2>1. m \in 1 .. m
      BY <1>1
    <2>. QED  BY <1>1, <1>3, <2>1 DEF SameFrom
  <1>5. n > 0 /\ n \in 1 .. n /\ stored[m + 1].Height = chain[n].Height + 1
    BY <1>1, <1>4 DEF After
  <1>6. stored[m + 1].Height = stored[m].Height + 1
    <2>1. m + 1 \in 2 .. Len(stored) /\ (m + 1) - 1 = m
      BY <1>1
    <2>. QED  BY <2>1 DEF Linked, ValidLink
  <1>7. chain[n] \in Block /\ chain[p] \in Block
    BY <1>1, <1>5, ElementOfSeq
  <1>8. PICK a \in Nat, b \in Nat : a = chain[n].Height /\ b = chain[p].Height
    BY <1>7 DEF Block
  <1>9. p = n
    <2>1. a = b
      <3>1. PICK top : top = stored[m + 1].Height
        OBVIOUS
      <3>2. top = b + 1
        BY <1>4, <1>6, <1>8, <3>1
      <3>3. top = a + 1
        BY <1>5, <1>8, <3>1
      <3>. QED  BY <3>2, <3>3
    <2>2. p < n => b < a
      BY <1>1, <1>5, <1>8 DEF Rising
    <2>. QED  BY <1>4, <1>8, <2>1, <2>2
  <1>10. PICK known : known = SubSeq(chain, i, n)
    OBVIOUS
  <1>11. /\ i \in 1 .. n + 1 /\ known \in Seq(Block) /\ Len(known) = n - i + 1
         /\ \A k \in 1 .. Len(known) : known[k] = chain[i + k - 1]
    <2>1. i \in 1 .. n + 1
      BY <1>3
    <2>. QED  BY <1>1, <1>10, <2>1, KnownFrom
  <1>12. Len(known) = m
    <2>1. i + m - 1 = n
      BY <1>4, <1>9
    <2>. QED  BY <1>1, <1>3, <1>11, <2>1
  <1>13. \A k \in 1 .. m : known[k] = stored[k]
    BY <1>3, <1>11, <1>12 DEF SameFrom
  <1>14. IsPrefix(known, stored)
    <2>1. Len(known) <= Len(stored) /\ \A k \in 1 .. Len(known) : known[k] = stored[k]
      BY <1>1, <1>12, <1>13
    <2>. QED  BY <1>11, <2>1, PrefixIs
  <1>. QED  BY <1>1, <1>10, <1>11, <1>12, <1>14 DEF IsSection

LEMMA StoredIsSection ==
  ASSUME LinesInOrder, ~up, Linked(Load(disk))
  PROVE  IsSection(Load(disk), acked)
  <1>1. PICK stored, chain : stored = Load(disk) /\ chain = acked
    OBVIOUS
  <1>2. /\ stored \in Seq(Block) /\ Linked(stored) /\ chain \in Seq(Block) /\ Rising(chain)
        /\ \A k \in 1 .. Len(stored) : \E i \in Good(disk) : stored[k] = BlockAt(disk, i)
    BY <1>1, LoadIs DEF LinesInOrder
  <1>3. PICK n \in Nat : n = Len(stored)
    BY <1>2, LenProperties
  <1>4. \A k \in 1 .. n : stored[k].Height \in Nat /\ stored[k].Height = stored[1].Height + (k - 1)
    BY <1>2, <1>3, LinkedCounts
  <1>5. CASE n <= 1
    BY <1>1, <1>2, <1>3, <1>5, ShortSection
  <1>6. CASE n > 1 /\ \A i \in Good(disk) : BlockAt(disk, i) = Genesis
    <2>1. 1 \in 1 .. n /\ 2 \in 1 .. n
      BY <1>6
    <2>2. stored[1] = Genesis /\ stored[2] = Genesis
      BY <1>2, <1>3, <1>6, <2>1
    <2>3. stored[1].Height \in Nat /\ stored[2].Height = stored[1].Height + (2 - 1)
      BY <1>4, <2>1
    <2>. QED  BY <2>2, <2>3
  <1>7. CASE n > 1 /\ \A i \in Good(disk) :
                        Member(BlockAt(disk, i), chain) \/ After(BlockAt(disk, i), chain)
    <2>1. \A k \in 1 .. n : Member(stored[k], chain) \/ After(stored[k], chain)
      BY <1>2, <1>3, <1>7
    <2>2. ASSUME NEW k \in 1 .. n - 1 PROVE Member(stored[k], chain)
      <3>1. k \in 1 .. n /\ n \in 1 .. n /\ k < n
        BY <1>3
      <3>2. PICK a \in Nat, b \in Nat : a = stored[k].Height /\ b = stored[n].Height
        BY <1>4, <3>1
      <3>3. a < b
        <4>1. PICK c \in Nat : c = stored[1].Height
          BY <1>4, <1>7
        <4>. QED  BY <1>4, <3>1, <3>2, <4>1
      <3>4. ASSUME After(stored[k], chain) PROVE FALSE
        <4>1. stored[k] \in Block
          BY <1>2, <1>3, <3>1, ElementOfSeq
        <4>2. Member(stored[n], chain) => b < a
          BY <1>2, <3>2, <3>4, <4>1, AfterIsHigher
        <4>3. After(stored[n], chain) => b = a
          BY <3>2, <3>4 DEF After
        <4>. QED  BY <2>1, <3>1, <3>2, <3>3, <4>2, <4>3
      <3>. QED  BY <2>1, <3>1, <3>4
    <2>3. CASE Member(stored[n], chain)
      <3>1. \A k \in 1 .. n : k = n \/ k \in 1 .. n - 1
        OBVIOUS
      <3>2. stored # <<>>
        BY <1>3, <1>7, EmptySeq
      <3>. QED  BY <1>1, <1>2, <1>3, <2>2, <2>3, <3>1, <3>2, MembersSection
    <2>4. CASE After(stored[n], chain)
      BY <1>1, <1>2, <1>3, <1>7, <2>2, <2>4, AddedSection
    <2>5. n \in 1 .. n
      BY <1>7
    <2>. QED  BY <2>1, <2>3, <2>4, <2>5
  <1>. QED  BY <1>1, <1>3, <1>5, <1>6, <1>7 DEF LinesInOrder

(***************************************************************************)
(* Whatever writes failed, were cut short or ran together with others, and *)
(* whichever files were taken for empty and written anew, a stored chain   *)
(* that ValidateChain accepts is a section of the chain that callers knew, *)
(* perhaps with the block that was being added: load() may skip lines      *)
(* without a word, but never unnoticed in the middle.                      *)
(***************************************************************************)
THEOREM GapsAreDetectedCorrect == StoreSpec => []GapsAreDetected
  <1>1. OrderInv => GapsAreDetected
    BY StoredIsSection DEF OrderInv, GapsAreDetected, IsSection
  <1>2. StoreInit => OrderInv
    BY InitLinesInOrder DEF OrderInv, StoreInit
  <1>. QED  BY <1>1, <1>2, NextLinesInOrder, PTL DEF StoreSpec
=============================================================================
