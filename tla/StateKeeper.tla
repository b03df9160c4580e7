---------------------------- MODULE StateKeeper ----------------------------
(***************************************************************************)
(* The account state of a Nuvex node (x/nvx/keeper/state.go): the accounts *)
(* and the transfer log in memory, and the JSON file that holds a copy of  *)
(* both.  SignedTransfer rewrites the whole file; staking and governance   *)
(* change the accounts without writing it.                                 *)
(*                                                                         *)
(* Only requests whose signature and address fit reach the part modelled   *)
(* here.  The signed payload holds the nonce that the request must have,   *)
(* so a signed request is its sender, receiver, amount, fee and nonce.     *)
(* Amounts and fees are any int64, negative ones too: no handler looks.    *)
(***************************************************************************)
EXTENDS Nuvex, Words, Sequences, FiniteSets, Functions

CONSTANTS
    GenesisAmount,  \* the amount of each account that NewNuvexApp creates
    Probe,          \* the account whose empty balance makes it do so
    Short,          \* addresses too short to be sliced for a log line or an id
    Reads,          \* whether a start can read the file
    Saves,          \* what a save may do to the file if the process lives
    CrashSaves,     \* what it may do if the process dies in it
    NoCall          \* no call of a keeper is between its two critical sections

\* os.WriteFile truncates the file, then writes it; its errors are ignored.
\*   "none"   the file could not be opened, or death came first
\*   "torn"   the file is shorter than what was to be written
\*   "whole"  all of it was written
Saving == {"none", "torn", "whole"}

ASSUME StateKeeperAssumption ==
    /\ DOMAIN GenesisAmount \subseteq Address /\ IsFiniteSet(DOMAIN GenesisAmount)
    /\ \A a \in DOMAIN GenesisAmount : GenesisAmount[a] \in Nat \cap Int64
    /\ Probe \in DOMAIN GenesisAmount
    /\ Short \subseteq Address
    /\ Reads \subseteq BOOLEAN
    /\ Saves \subseteq Saving /\ CrashSaves \subseteq Saving

VARIABLES
    accounts,   \* StateKeeper.accounts
    txs,        \* StateKeeper.txs
    stateFile,  \* the file at dbPath; readable if json.Unmarshal accepts it
    clock,      \* the wall clock, in hours
    wrapped     \* some balance or reward was not the sum that it was to be

stateVars == <<accounts, txs, stateFile, clock, wrapped>>

Account == [Balance : Int64, Nonce : Nat]

Transaction == [From : Address, To : Address, Amount : Int64, Fee : Int64, Nonce : Nat]

Unreadable == [readable |-> FALSE, accounts |-> <<>>, txs |-> <<>>]

BalanceIn(accs, a) == IF a \in DOMAIN accs THEN accs[a].Balance ELSE 0

GetBalance(a) == BalanceIn(accounts, a)

\* int64 addition wraps around, so x stands for all numbers with its residue:
\* for the int64 sum of amount and fee, and for int64(x) of a uint64.
Credit(accs, a, x) == [accs EXCEPT ![a].Balance = ToInt64(@ + x)]

\* Whether the balance of a has room for x.
Fits(a, x) == GetBalance(a) + x \in Int64

\* The accounts accs and, for the addresses of new that have none yet, an
\* account with these amounts.
Opened(accs, new, amount) ==
    [a \in DOMAIN accs \cup new |->
        IF a \in DOMAIN accs THEN accs[a] ELSE [Balance |-> amount[a], Nonce |-> 0]]

WithAccount(accs, a) == Opened(accs, {a}, [x \in {a} |-> 0])

save(saving, accs, log) ==
    CASE saving = "none"  -> stateFile
      [] saving = "torn"  -> Unreadable
      [] saving = "whole" -> [readable |-> TRUE, accounts |-> accs, txs |-> log]

\* Mutant of Paid: the nonce is not used up.
PaidSameNonce(from, to, amount, fee) ==
    Credit(Credit(WithAccount(accounts, to), from, -(amount + fee)), to, amount)

\* The accounts once from has paid amount to to, and the fee to nobody.
Paid(from, to, amount, fee) ==
    LET moved == Credit(Credit(WithAccount(accounts, to), from, -(amount + fee)), to, amount)
    IN  [moved EXCEPT ![from].Nonce = @ + 1]

Logged(from, to, amount, fee, nonce) ==
    Append(txs, [From |-> from, To |-> to, Amount |-> amount, Fee |-> fee, Nonce |-> nonce])

CanPay(from, amount, fee, nonce) ==
    /\ from \in DOMAIN accounts
    /\ nonce = accounts[from].Nonce + 1
    /\ accounts[from].Balance >= ToInt64(amount + fee)

\* Whether both balances have room for what the transfer does to them.
TransferFits(from, to, amount, fee) ==
    /\ Fits(from, -(amount + fee))
    /\ Fits(to, IF to = from THEN -fee ELSE amount)

----------------------------------------------------------------------------
StateInit ==
    /\ accounts = <<>>
    /\ txs = <<>>
    /\ stateFile = Unreadable
    /\ clock = 0
    /\ wrapped = FALSE

\* What load() makes of the file; read tells whether os.ReadFile returns it.
\* An error is ignored, and an unreadable file is taken for an empty one.
Loaded(read) == IF read THEN stateFile ELSE Unreadable

\* NewNuvexApp: the probed account has nothing, so InitGenesis is called.
NeedsGenesis(read) == BalanceIn(Loaded(read).accounts, Probe) = 0

\* Mutant of StateStart: the genesis accounts are set up over the ones loaded.
StartOver(read, saving) ==
    LET old == Loaded(read)
        all == [a \in DOMAIN GenesisAmount \cup DOMAIN old.accounts |->
                  IF a \in DOMAIN GenesisAmount
                  THEN [Balance |-> GenesisAmount[a], Nonce |-> 0] ELSE old.accounts[a]]
    IN  /\ accounts' = IF NeedsGenesis(read) THEN all ELSE old.accounts
        /\ txs' = old.txs
        /\ stateFile' = IF NeedsGenesis(read) THEN save(saving, all, old.txs) ELSE stateFile
        /\ UNCHANGED <<clock, wrapped>>

\* NewStateKeeper loads the file if it can; then NewNuvexApp creates the
\* genesis accounts that are missing if the probed one has nothing, and saves
\* them over whatever the file holds.
StateStart(read, saving) ==
    LET old == Loaded(read)
        new == IF NeedsGenesis(read) THEN DOMAIN GenesisAmount ELSE {}
        all == Opened(old.accounts, new, GenesisAmount)
    IN  /\ accounts' = all
        /\ txs' = old.txs
        /\ stateFile' = IF NeedsGenesis(read) THEN save(saving, all, old.txs) ELSE stateFile
        /\ UNCHANGED <<clock, wrapped>>

\* Mutant of SignedTransfer: the answer does not wait for the save.
TransferUnsaved(from, to, amount, fee, nonce, saving) ==
    /\ CanPay(from, amount, fee, nonce)
    /\ accounts' = Paid(from, to, amount, fee)
    /\ txs' = Logged(from, to, amount, fee, nonce)
    /\ wrapped' = (wrapped \/ ~TransferFits(from, to, amount, fee))
    /\ UNCHANGED <<stateFile, clock>>

SignedTransfer(from, to, amount, fee, nonce, saving) ==
    /\ CanPay(from, amount, fee, nonce)
    /\ accounts' = Paid(from, to, amount, fee)
    /\ txs' = Logged(from, to, amount, fee, nonce)
    /\ stateFile' = save(saving, accounts', txs')
    /\ wrapped' = (wrapped \/ ~TransferFits(from, to, amount, fee))
    /\ UNCHANGED clock

\* The process dies in the save of a transfer: memory is lost, and the file
\* is what the save made of it.
CrashInTransfer(from, to, amount, fee, nonce, saving) ==
    /\ CanPay(from, amount, fee, nonce)
    /\ stateFile' = save(saving, Paid(from, to, amount, fee),
                         Logged(from, to, amount, fee, nonce))
    /\ accounts' = <<>>
    /\ txs' = <<>>
    /\ wrapped' = (wrapped \/ ~TransferFits(from, to, amount, fee))
    /\ UNCHANGED clock

StateCrash ==
    /\ accounts' = <<>>
    /\ txs' = <<>>
    /\ UNCHANGED <<stateFile, clock, wrapped>>

Hour ==
    /\ clock' = clock + 1
    /\ UNCHANGED <<accounts, txs, stateFile, wrapped>>
============================================================================
