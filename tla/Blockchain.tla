----------------------------- MODULE Blockchain -----------------------------
(***************************************************************************)
(* The block store of a Nuvex node (x/nvx/keeper/blockchain.go): the chain *)
(* in memory, the file that AddBlock extends line by line, and the load    *)
(* that rebuilds the chain from the file when a process starts.            *)
(*                                                                         *)
(* A hash is the value it is computed from.  calculateHash digests         *)
(* PrevHash with the block's own header, so the hash of a block is the     *)
(* sequence of the headers from the genesis block up to it, and two blocks *)
(* have the same hash exactly when all of these agree (SHA-256 is taken to *)
(* be injective, and so is the state root over the transaction list).      *)
(* TotalFees, MiningReward and TxCount are functions of the transaction    *)
(* list and the node's constants and are left out.  Signature is never     *)
(* set.                                                                    *)
(***************************************************************************)
EXTENDS Nuvex, Integers, Sequences, FiniteSets

CONSTANTS
    Founder,      \* the validator address in the genesis block
    Writes,       \* how much of a line may reach the file if the process lives
    CrashWrites   \* how much of it may reach the file if the process dies

(***************************************************************************)
(* What a call of appendBlock leaves in the file.  It opens the file, then *)
(* writes the JSON text, then writes the newline, and ignores every error. *)
(*   "none"  nothing: the file could not be opened, or death came first    *)
(*   "part"  a proper prefix of the JSON text and no newline               *)
(*   "text"  the JSON text and no newline                                  *)
(*   "line"  the whole line                                                *)
(***************************************************************************)
Extent == {"none", "part", "text", "line"}

ASSUME BlockchainAssumption ==
    /\ Founder \in Address
    /\ Writes \subseteq Extent
    /\ CrashWrites \subseteq Extent

VARIABLES
    blocks,  \* Blockchain.blocks: the chain in memory
    disk,    \* the file at dbPath: its lines, the last one not terminated
    up       \* whether a process is running

chainVars == <<blocks, disk, up>>

\* Which function computed a digest: the store's or the consensus engine's
\* format string.  The two never yield the same text.
Hasher == {"calculateHash", "hashBlock"}

Header == [by : Hasher, Height : Nat, Timestamp : Nat, Validator : Address,
           Transactions : Seq(TxHash)]

Hash == Seq(Header)

Block == [Height : Nat, PrevHash : Hash, Hash : Hash, Timestamp : Nat,
          Validator : Address, Transactions : Seq(TxHash)]

HeaderOf(b, by) ==
    [by |-> by, Height |-> b.Height, Timestamp |-> b.Timestamp,
     Validator |-> b.Validator, Transactions |-> b.Transactions]

calculateHash(b) == Append(b.PrevHash, HeaderOf(b, "calculateHash"))

\* A block of these contents with the hash the store computes for it.
NewBlock(height, prevHash, now, validator, transactions) ==
    LET b == [Height |-> height, PrevHash |-> prevHash, Hash |-> <<>>,
              Timestamp |-> now, Validator |-> validator,
              Transactions |-> transactions]
    IN  [b EXCEPT !.Hash = calculateHash(b)]

\* The genesis block has a fixed timestamp, here 0, and the all-zero PrevHash.
Genesis == NewBlock(0, <<>>, 0, Founder, <<>>)

LatestBlock == blocks[Len(blocks)]

Height == LatestBlock.Height

ValidLink(current, previous) ==
    /\ current.Hash = calculateHash(current)
    /\ current.PrevHash = previous.Hash
    /\ current.Height = previous.Height + 1

\* Mutant of Linked: the loop starts one block later.
LinkedFromThird(chain) == \A i \in 3 .. Len(chain) : ValidLink(chain[i], chain[i - 1])

\* The loop of ValidateChain() finds no error; it never looks at the first
\* block itself.
Linked(chain) == \A i \in 2 .. Len(chain) : ValidLink(chain[i], chain[i - 1])

ValidateChain == Linked(blocks)

----------------------------------------------------------------------------
(***************************************************************************)
(* The file.  A line is the sequence of the JSON texts that were written   *)
(* to it one after the other: json.Unmarshal accepts it only if it is one  *)
(* whole text, and fails on a truncated text and on two texts run together.*)
(***************************************************************************)
Line == Seq([block : Block, whole : BOOLEAN])

NoFile == << <<>> >>

\* Mutant of Write: a whole line is written twice.
WriteTwice(file, b, extent) ==
    LET last    == Len(file)
        text(w) == [file EXCEPT ![last] = Append(@, [block |-> b, whole |-> w])]
        again   == << [block |-> b, whole |-> TRUE] >>
    IN  CASE extent = "none" -> file
          [] extent = "part" -> text(FALSE)
          [] extent = "text" -> text(TRUE)
          [] extent = "line" -> Append(Append(text(TRUE), again), <<>>)

Write(file, b, extent) ==
    LET last    == Len(file)
        text(w) == [file EXCEPT ![last] = Append(@, [block |-> b, whole |-> w])]
    IN  CASE extent = "none" -> file
          [] extent = "part" -> text(FALSE)
          [] extent = "text" -> text(TRUE)
          [] extent = "line" -> Append(text(TRUE), <<>>)

Parses(line) == Len(line) = 1 /\ line[1].whole

\* The k-th smallest number of a finite set.
Kth(S, k) == CHOOSE i \in S : Cardinality({j \in S : j <= i}) = k

\* The blocks that load() finds: lines that do not parse are skipped.
Load(file) ==
    LET good == {i \in 1 .. Len(file) : Parses(file[i])}
    IN  [k \in 1 .. Cardinality(good) |-> file[Kth(good, k)][1].block]

----------------------------------------------------------------------------
BlockchainInit ==
    /\ blocks = <<>>
    /\ disk = NoFile
    /\ up = FALSE

\* What load() finds; read tells whether os.ReadFile returns the file.  An
\* error is ignored, and an unreadable file is taken for an empty one.
Loaded(read) == IF read THEN Load(disk) ELSE <<>>

\* NewBlockchain that finds blocks in the file.
Restart(read) ==
    /\ ~up
    /\ Loaded(read) # <<>>
    /\ up' = TRUE
    /\ blocks' = Loaded(read)
    /\ UNCHANGED disk

\* NewBlockchain that finds none: createGenesisBlock, whose save truncates
\* the file first (os.Create), whatever is in it, unless the file cannot be
\* opened.
RestartFromGenesis(read, extent) ==
    /\ ~up
    /\ Loaded(read) = <<>>
    /\ up' = TRUE
    /\ blocks' = <<Genesis>>
    /\ disk' = IF extent = "none" THEN disk ELSE Write(NoFile, Genesis, extent)

\* The process dies while save() writes the genesis block.
CrashInSave(read, extent) ==
    /\ ~up
    /\ Loaded(read) = <<>>
    /\ disk' = Write(NoFile, Genesis, extent)
    /\ UNCHANGED <<blocks, up>>

\* Mutant of NextBlock: the block links to the genesis block.
NextBlockOfFirst(now, validator, transactions) ==
    NewBlock(Height + 1, blocks[1].Hash, now, validator, transactions)

\* The block that AddBlock builds: height, link and hash are the store's own.
NextBlock(now, validator, transactions) ==
    NewBlock(Height + 1, LatestBlock.Hash, now, validator, transactions)

\* Mutant of AddBlock: the block is kept in memory only.
AddBlockInMemory(now, validator, transactions, extent) ==
    /\ up
    /\ blocks' = Append(blocks, NextBlock(now, validator, transactions))
    /\ UNCHANGED <<disk, up>>

AddBlock(now, validator, transactions, extent) ==
    LET b == NextBlock(now, validator, transactions)
    IN  /\ up
        /\ blocks' = Append(blocks, b)
        /\ disk' = Write(disk, b, extent)
        /\ UNCHANGED up

\* The process dies in AddBlock, before the call returns.
CrashInAddBlock(now, validator, transactions, extent) ==
    /\ up
    /\ disk' = Write(disk, NextBlock(now, validator, transactions), extent)
    /\ up' = FALSE
    /\ blocks' = <<>>

\* The process dies between two calls.
Crash ==
    /\ up
    /\ up' = FALSE
    /\ blocks' = <<>>
    /\ UNCHANGED disk
=============================================================================
