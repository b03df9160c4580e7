---------------------------- MODULE BFTConsensus ----------------------------
(***************************************************************************)
(* One Nuvex node producing blocks (x/nvx/keeper/consensus_bft.go) on top  *)
(* of its mempool and its block store.  Three kinds of threads interleave  *)
(* at the boundaries of the critical sections of bft.mu:                   *)
(*   - the loop of Run(), with its local variable height and a program     *)
(*     counter for the places where it holds no lock;                      *)
(*   - one goroutine per "go bft.submitCommitVote()", which reads the      *)
(*     round under the read lock, lets go, and delivers its vote under the *)
(*     write lock later, perhaps in another round;                         *)
(*   - the callers of ReceivePrepareVote and ReceiveCommitVote on behalf   *)
(*     of the other validators, and of AddValidator, which are exported.   *)
(* The mempool's own threads (Submit, Tick, Cleanup) run beside them.      *)
(*                                                                         *)
(* A vote's Round and Phase are never read and are left out.  Height is    *)
(* read from the vote, so a vote in flight keeps it.  Timestamps of blocks *)
(* are taken from failedRounds: two rounds at one height are separated by  *)
(* a timeout of two seconds, more than the one-second resolution of the    *)
(* RFC 3339 time in the hash.                                              *)
(***************************************************************************)
EXTENDS Mempool, Blockchain

CONSTANTS
    NodeAddr,    \* the address of this node
    Validators,  \* the sequence of validators NewBFTConsensus is given
    Joining,     \* the validators that AddValidator may add
    HashByte,    \* per height, the first byte of SHA-256("<height>:0:nuvex-1")
    Views,       \* whose proposal the other validators vote for
    Routine,     \* identities for the goroutines alive at one time
    Nil,         \* the nil pointer
    MaxHeight,   \* no round is started above this height, no vote delivered
                 \* once the chain is higher
    MaxFailed    \* failedRounds is counted up to this bound

ASSUME BFTAssumption ==
    /\ NodeAddr \in Address
    /\ Validators \in Seq(Address) /\ Validators # <<>>
    /\ Joining \subseteq Address
    /\ MaxHeight \in Nat \ {0}
    /\ HashByte \in [1 .. MaxHeight -> 0 .. 255]
    /\ Views \subseteq {"ours", "theirs"}
    /\ MaxFailed \in Nat

VARIABLES
    validators,    \* BFTConsensus.validators
    quorum,        \* BFTConsensus.quorum
    round,         \* BFTConsensus.currentRound
    totalBlocks,   \* BFTConsensus.totalBlocks
    failedRounds,  \* BFTConsensus.failedRounds
    loop,          \* where the loop of Run() is
    height,        \* the loop's local variable
    routine,       \* the commit goroutines
    sent           \* the blocks handed to BroadcastBlock

bftVars == <<validators, quorum, round, totalBlocks, failedRounds, loop, height, routine, sent>>

vars == <<mempoolVars, chainVars, bftVars>>

Phase == {"NEW_ROUND", "PROPOSE", "PREPARE", "COMMIT", "FINALIZED"}

Vote == [ValidatorAddr : Address, BlockHash : Hash, Height : Nat]

\* The two maps of votes are kept as the sets of their values: the key of a
\* vote is its ValidatorAddr.
Round == [Height : Nat, Phase : Phase, LeaderAddr : Address,
          ProposedBlock : Block \cup {Nil},
          PrepareVotes : SUBSET Vote, CommitVotes : SUBSET Vote]

\* The nil pointer points at no round and at no block.
ASSUME NilAssumption == Nil \notin Round /\ Nil \notin Block

\* A goroutine is not there, has been started, or carries the vote it made.
Goroutine == [at : {"idle", "started", "voting"}, vote : Vote \cup {Nil}]

Idle == [at |-> "idle", vote |-> Nil]
Started == [at |-> "started", vote |-> Nil]
Voting(vote) == [at |-> "voting", vote |-> vote]

Put(votes, vote) == {v \in votes : v.ValidatorAddr # vote.ValidatorAddr} \cup {vote}

QuorumOf(n) == (2 * n) \div 3 + 1

selectLeader(h) == validators[(HashByte[h] % Len(validators)) + 1]

hashBlock(b) == Append(b.PrevHash, HeaderOf(b, "hashBlock"))

\* The block a proposer makes of the transactions q; prevHash is the hash of
\* the latest block in the store.
Proposal(h, q) ==
    LET b == [NewBlock(h, LatestBlock.Hash, failedRounds, NodeAddr, q) EXCEPT !.Hash = <<>>]
    IN  [b EXCEPT !.Hash = hashBlock(b)]

----------------------------------------------------------------------------
BFTInit ==
    /\ MempoolInit
    /\ blocks = <<Genesis>>
    /\ disk = Write(NoFile, Genesis, "line")
    /\ up = TRUE
    /\ validators = Validators
    /\ quorum = QuorumOf(Len(Validators))
    /\ round = Nil
    /\ totalBlocks = 0
    /\ failedRounds = 0
    /\ loop = "height"
    /\ height = 0
    /\ routine = [r \in Routine |-> Idle]
    /\ sent = {}

----------------------------------------------------------------------------
\* Run: height := bft.blockchain.Height() + 1.
ReadHeight ==
    /\ loop = "height"
    /\ Height < MaxHeight
    /\ height' = Height + 1
    /\ loop' = "start"
    /\ UNCHANGED <<mempoolVars, chainVars, validators, quorum, round, totalBlocks,
                   failedRounds, routine, sent>>

\* StartRound(height, 0) up to the unlock: the old round is dropped, whatever
\* its state.  Only the leader goes on to propose.
StartRound ==
    /\ loop = "start"
    /\ round' = [Height |-> height, Phase |-> "NEW_ROUND", LeaderAddr |-> selectLeader(height),
                 ProposedBlock |-> Nil, PrepareVotes |-> {}, CommitVotes |-> {}]
    /\ loop' = IF selectLeader(height) = NodeAddr THEN "propose" ELSE "wait"
    /\ UNCHANGED <<mempoolVars, chainVars, validators, quorum, totalBlocks, failedRounds,
                   height, routine, sent>>

\* proposeBlock up to the unlock.
ProposeBlock ==
    /\ loop = "propose"
    /\ \E q \in Selections(MaxTxPerBlock) :
          /\ SelectForBlock(q)
          /\ round' = [round EXCEPT !.ProposedBlock = Proposal(round.Height, q),
                                    !.Phase = "PROPOSE"]
    /\ loop' = "prepare"
    /\ UNCHANGED <<chainVars, validators, quorum, totalBlocks, failedRounds, height,
                   routine, sent>>

(***************************************************************************)
(* ReceivePrepareVote.  Only the vote's height is compared with the round; *)
(* each vote that finds a quorum starts one more commit goroutine, and     *)
(* each vote sets the phase, whatever it was.                              *)
(***************************************************************************)
ReceivePrepareVote(vote) ==
    IF round = Nil \/ vote.Height # round.Height
    THEN UNCHANGED <<round, routine>>
    ELSE LET votes == Put(round.PrepareVotes, vote)
         IN  \/ /\ Cardinality(votes) < quorum
                /\ round' = [round EXCEPT !.PrepareVotes = votes, !.Phase = "PREPARE"]
                /\ UNCHANGED routine
             \/ /\ Cardinality(votes) >= quorum
                /\ round' = [round EXCEPT !.PrepareVotes = votes, !.Phase = "COMMIT"]
                /\ \E r \in Routine : /\ routine[r].at = "idle"
                                      /\ routine' = [routine EXCEPT ![r] = Started]

\* proposeBlock after the unlock: the proposer's own prepare vote.  Only the
\* loop replaces the round, so block and round are still the ones it made.
OwnPrepareVote ==
    /\ loop = "prepare"
    /\ ReceivePrepareVote([ValidatorAddr |-> NodeAddr,
                           BlockHash |-> round.ProposedBlock.Hash,
                           Height |-> round.ProposedBlock.Height])
    /\ loop' = "wait"
    /\ UNCHANGED <<mempoolVars, chainVars, validators, quorum, totalBlocks, failedRounds,
                   height, sent>>

\* Run: the ticker finds the round finalized.
SeeFinalized ==
    /\ loop = "wait"
    /\ round.Phase = "FINALIZED"
    /\ loop' = "height"
    /\ UNCHANGED <<mempoolVars, chainVars, validators, quorum, round, totalBlocks,
                   failedRounds, height, routine, sent>>

\* Mutant of Timeout: the round gets a phase of its own.
TimeoutMarking ==
    /\ loop = "wait"
    /\ failedRounds' = IF failedRounds < MaxFailed THEN failedRounds + 1 ELSE failedRounds
    /\ round' = [round EXCEPT !.Phase = "TIMED_OUT"]
    /\ loop' = "height"
    /\ UNCHANGED <<mempoolVars, chainVars, validators, quorum, totalBlocks, height, routine, sent>>

\* Run: the timeout fires.  If the round has been finalized too, select may
\* still choose this case.
Timeout ==
    /\ loop = "wait"
    /\ failedRounds' = IF failedRounds < MaxFailed THEN failedRounds + 1 ELSE failedRounds
    /\ loop' = "height"
    /\ UNCHANGED <<mempoolVars, chainVars, validators, quorum, round, totalBlocks,
                   height, routine, sent>>

\* submitCommitVote up to the unlock: the vote for what is now the round.
ReadForCommit(r) ==
    /\ routine[r].at = "started"
    /\ routine' = [routine EXCEPT ![r] =
                      IF round = Nil \/ round.ProposedBlock = Nil
                      THEN Idle
                      ELSE Voting([ValidatorAddr |-> NodeAddr,
                                   BlockHash |-> round.ProposedBlock.Hash,
                                   Height |-> round.Height])]
    /\ UNCHANGED <<mempoolVars, chainVars, validators, quorum, round, totalBlocks,
                   failedRounds, loop, height, sent>>

\* Mutant of FinalizeBlock: the store is not given the transactions.
FinalizeEmpty(r) ==
    /\ round' = [r EXCEPT !.Phase = "FINALIZED"]
    /\ totalBlocks' = totalBlocks + 1
    /\ AddBlock(failedRounds, r.ProposedBlock.Validator, <<>>, "line")
    /\ sent' = sent \cup {r.ProposedBlock}

\* finalizeBlock, on the round that holds the last commit vote.  The store
\* gives the block its own height, link and hash; peers are sent the proposal.
FinalizeBlock(r) ==
    /\ round' = [r EXCEPT !.Phase = "FINALIZED"]
    /\ totalBlocks' = totalBlocks + 1
    /\ AddBlock(failedRounds, r.ProposedBlock.Validator, r.ProposedBlock.Transactions, "line")
    /\ sent' = sent \cup {r.ProposedBlock}

\* Mutant of ReceiveCommitVote: more than a quorum is asked for.
CommitBeyondQuorum(vote) ==
    IF round = Nil \/ vote.Height # round.Height
    THEN UNCHANGED <<round, totalBlocks, chainVars, sent>>
    ELSE LET r == [round EXCEPT !.CommitVotes = Put(@, vote)]
         IN  IF Cardinality(r.CommitVotes) > quorum /\ r.Phase = "COMMIT" /\ r.ProposedBlock # Nil
             THEN FinalizeBlock(r)
             ELSE /\ round' = r
                  /\ UNCHANGED <<totalBlocks, chainVars, sent>>

(***************************************************************************)
(* ReceiveCommitVote.  Again only the height is compared.                  *)
(***************************************************************************)
ReceiveCommitVote(vote) ==
    IF round = Nil \/ vote.Height # round.Height
    THEN UNCHANGED <<round, totalBlocks, chainVars, sent>>
    ELSE LET r == [round EXCEPT !.CommitVotes = Put(@, vote)]
         IN  IF Cardinality(r.CommitVotes) >= quorum /\ r.Phase = "COMMIT" /\ r.ProposedBlock # Nil
             THEN FinalizeBlock(r)
             ELSE /\ round' = r
                  /\ UNCHANGED <<totalBlocks, chainVars, sent>>

\* submitCommitVote after the unlock: the goroutine delivers its vote and ends.
DeliverCommitVote(r) ==
    /\ routine[r].at = "voting"
    /\ Height <= MaxHeight
    /\ ReceiveCommitVote(routine[r].vote)
    /\ routine' = [routine EXCEPT ![r] = Idle]
    /\ UNCHANGED <<mempoolVars, validators, quorum, failedRounds, loop, height>>

----------------------------------------------------------------------------
\* The other validators.
Others == Range(validators) \ {NodeAddr}

\* The votes validator v may send about height h: for this node's proposal,
\* or for a block of v's own that extends the same chain.
VotesOf(v, h) ==
    LET theirs == Append(LatestBlock.Hash, [by |-> "hashBlock", Height |-> h, Timestamp |-> 0,
                                            Validator |-> v, Transactions |-> <<>>])
        hashes == {theirs : w \in Views \cap {"theirs"}} \cup
                  {round.ProposedBlock.Hash :
                      w \in IF round = Nil \/ round.ProposedBlock = Nil THEN {} ELSE Views \cap {"ours"}}
    IN  {[ValidatorAddr |-> v, BlockHash |-> hash, Height |-> h] : hash \in hashes}

RemotePrepareVote(v, h) ==
    /\ \E vote \in VotesOf(v, h) : ReceivePrepareVote(vote)
    /\ UNCHANGED <<mempoolVars, chainVars, validators, quorum, totalBlocks, failedRounds,
                   loop, height, sent>>

RemoteCommitVote(v, h) ==
    /\ Height <= MaxHeight
    /\ \E vote \in VotesOf(v, h) : ReceiveCommitVote(vote)
    /\ UNCHANGED <<mempoolVars, validators, quorum, failedRounds, loop, height, routine>>

\* Each of them joins once.
AddValidator(v) ==
    /\ v \in Joining \ Range(validators)
    /\ validators' = Append(validators, v)
    /\ quorum' = QuorumOf(Len(validators'))
    /\ UNCHANGED <<mempoolVars, chainVars, round, totalBlocks, failedRounds, loop, height,
                   routine, sent>>

\* The API's calls of Submit and the mempool's own goroutine and clock.
MempoolStep ==
    /\ \/ \E h \in TxHash, fee \in Fee : Submit(h, fee)
       \/ Cleanup
       \/ Tick
    /\ UNCHANGED <<chainVars, bftVars>>

RunStep ==
    \/ ReadHeight
    \/ StartRound
    \/ ProposeBlock
    \/ OwnPrepareVote
    \/ SeeFinalized
    \/ Timeout

RoutineStep == \E r \in Routine : ReadForCommit(r) \/ DeliverCommitVote(r)

RemoteStep ==
    \/ \E v \in Others, h \in 1 .. MaxHeight : RemotePrepareVote(v, h) \/ RemoteCommitVote(v, h)
    \/ \E v \in Joining : AddValidator(v)

BFTNext == RunStep \/ RoutineStep \/ RemoteStep \/ MempoolStep

BFTSpec == BFTInit /\ [][BFTNext]_vars

(***************************************************************************)
(* A network that is in time: the two seconds are long compared with the   *)
(* scheduling of a goroutine, with the 50 ms ticker and with the arrival   *)
(* of the others' votes.  The timeout then finds no commit goroutine on    *)
(* its way, no finalized round, and no proposal that lacks a vote.         *)
(***************************************************************************)
AllVoted(votes) == Others \subseteq {v.ValidatorAddr : v \in votes}

LateTimeout ==
    /\ Timeout
    /\ round.Phase # "FINALIZED"
    /\ \A r \in Routine : routine[r].at = "idle"
    /\ round.ProposedBlock # Nil => AllVoted(round.PrepareVotes) /\ AllVoted(round.CommitVotes)

TimelyNext ==
    \/ ReadHeight \/ StartRound \/ ProposeBlock \/ OwnPrepareVote \/ SeeFinalized
    \/ LateTimeout
    \/ RoutineStep
    \/ RemoteStep
    \/ MempoolStep

\* The Go scheduler runs every runnable goroutine, the ticker ticks, the
\* timeout fires, and the other validators keep voting.
TimelyFairness ==
    /\ WF_vars(ReadHeight) /\ WF_vars(StartRound) /\ WF_vars(ProposeBlock)
    /\ WF_vars(OwnPrepareVote) /\ WF_vars(SeeFinalized) /\ WF_vars(LateTimeout)
    /\ \A r \in Routine : WF_vars(ReadForCommit(r)) /\ WF_vars(DeliverCommitVote(r))
    /\ \A v \in Address \ {NodeAddr}, h \in 1 .. MaxHeight :
          /\ WF_vars(v \in Others /\ RemotePrepareVote(v, h))
          /\ WF_vars(v \in Others /\ RemoteCommitVote(v, h))

TimelySpec == BFTInit /\ [][TimelyNext]_vars /\ TimelyFairness

----------------------------------------------------------------------------
OnChain(h) == \E i \in 1 .. Len(blocks) : h \in Range(blocks[i].Transactions)

Proposed(h) ==
    /\ round # Nil
    /\ round.ProposedBlock # Nil
    /\ h \in Range(round.ProposedBlock.Transactions)

\* Every variable has its type.
BFTTypeOK ==
    /\ MempoolTypeOK
    /\ blocks \in Seq(Block) /\ blocks # <<>>
    /\ disk \in Seq(Line) /\ disk # <<>>
    /\ up = TRUE
    /\ validators \in Seq(Address) /\ validators # <<>>
    /\ quorum \in Nat
    /\ round \in Round \cup {Nil}
    /\ totalBlocks \in Nat
    /\ failedRounds \in 0 .. MaxFailed
    /\ loop \in {"height", "start", "propose", "prepare", "wait"}
    /\ height \in 0 .. MaxHeight
    /\ routine \in [Routine -> Goroutine]
    /\ sent \subseteq Block

\* No transaction is in two places of the chain.
NoTxTwice ==
    \A i, j \in 1 .. Len(blocks) :
        \A k \in 1 .. Len(blocks[i].Transactions), l \in 1 .. Len(blocks[j].Transactions) :
            blocks[i].Transactions[k] = blocks[j].Transactions[l] => i = j /\ k = l

\* Nobody but this node votes.
Alone == validators = <<NodeAddr>>

(***************************************************************************)
(* As long as the node votes alone, a transaction is on the chain at most  *)
(* once, in one place of one block: neither two rounds nor two             *)
(* finalizations of one round include it twice.                            *)
(***************************************************************************)
AtMostOnce == Alone => NoTxTwice

(***************************************************************************)
(* A transaction in the pool is in no block, proposed or on the chain: a   *)
(* block that takes it takes it out of the pool, and nothing puts it back. *)
(***************************************************************************)
PoolApartFromChain == \A h \in pending : ~OnChain(h) /\ ~Proposed(h)

(***************************************************************************)
(* The inductive invariant for any set of validators: what the loop and    *)
(* the goroutines find where they use it without asking again, and that    *)
(* the transactions of proposed and stored blocks are confirmed ones.      *)
(***************************************************************************)
ThreadsAreInOrder ==
    /\ loop = "start" => height # 0
    /\ loop \in {"propose", "prepare", "wait"} => round \in Round
    /\ loop = "prepare" => round.ProposedBlock \in Block
    /\ \A r \in Routine : routine[r].at = "voting" => routine[r].vote \in Vote

TakenAreConfirmed == \A h \in TxHash : OnChain(h) \/ Proposed(h) => txs[h].Status = "confirmed"

BFTInv == BFTTypeOK /\ MempoolInv /\ ThreadsAreInOrder /\ TakenAreConfirmed

(***************************************************************************)
(* What a node that votes alone adds to it: the quorum is one vote, which  *)
(* only the loop casts, once per round, and up to the finalization of the  *)
(* round its transactions are new to the chain.                            *)
(***************************************************************************)
SoloInv ==
    /\ BFTInv
    /\ Alone
    /\ NoTxTwice
    /\ loop = "prepare" => round.Phase = "PROPOSE"
    /\ round # Nil /\ round.ProposedBlock # Nil =>
          /\ IsInjective(round.ProposedBlock.Transactions)
          /\ round.Phase # "FINALIZED" => \A h \in TxHash : Proposed(h) => ~OnChain(h)

(***************************************************************************)
(* Transactions that a block took and that are neither on the chain nor in *)
(* the current proposal are the ones of timed-out rounds: no more of them  *)
(* than these rounds could take.  Without a timeout nothing is lost.  (At  *)
(* MaxFailed the count of the timeouts stops.)                             *)
(***************************************************************************)
LostOnlyByTimeout ==
    failedRounds < MaxFailed =>
        Cardinality({h \in TxHash : txs[h].Status = "confirmed" /\ ~OnChain(h) /\ ~Proposed(h)})
            <= failedRounds * MaxTxPerBlock

(***************************************************************************)
(* The chain passes ValidateChain, heights count up from the genesis block,*)
(* the file holds the same chain, and the counter that Stats reports as    *)
(* total_blocks_finalized is the number of blocks beyond it.               *)
(***************************************************************************)
StoredChainIsValid ==
    /\ ValidateChain
    /\ \A i \in 1 .. Len(blocks) : blocks[i].Height = i - 1
    /\ Load(disk) = blocks
    /\ totalBlocks = Len(blocks) - 1

(***************************************************************************)
(* "2/3+1 signatures = IRREVERSIBLE finality": a block is finalized by the *)
(* commit votes of a quorum of validators for this very block.             *)
(***************************************************************************)
FinalizedByItsOwnVotes ==
    [][totalBlocks' # totalBlocks =>
          Cardinality({v \in round'.CommitVotes :
                          v.BlockHash = round'.ProposedBlock.Hash}) >= quorum]_vars

(***************************************************************************)
(* What BroadcastBlock sends to the peers is the proposal, not the block   *)
(* that AddBlock made at the end of the chain, of another hash (the two    *)
(* are digests of different texts) and another time.  As long as nobody    *)
(* else votes, the two agree in the rest: a peer is sent, under a height   *)
(* of this chain, the predecessor, the proposer and the transactions that  *)
(* the chain has at this height.                                           *)
(***************************************************************************)
SameButHash(b, c) ==
    /\ b.Height = c.Height /\ b.PrevHash = c.PrevHash
    /\ b.Validator = c.Validator /\ b.Transactions = c.Transactions

SentExtendsOurChain ==
    Alone => \A b \in sent : \E i \in 1 .. Len(blocks) : SameButHash(b, blocks[i])

(***************************************************************************)
(* The chain gets past every height up to which this node is the leader of *)
(* each height, whatever the number of validators.                         *)
(***************************************************************************)
ChainGrowsWhileLeading ==
    \A h \in 1 .. MaxHeight :
        <>(Height >= h \/ \E k \in 1 .. h : selectLeader(k) # NodeAddr)

(***************************************************************************)
(* A transaction that a block takes out of the pool gets onto the chain,   *)
(* here unless the chain has outgrown the bound.                           *)
(***************************************************************************)
TakenGetsOnChain ==
    \A h \in TxHash : txs[h].Status = "confirmed" ~> OnChain(h) \/ Height > MaxHeight
=============================================================================
