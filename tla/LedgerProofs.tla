---------------------------- MODULE LedgerProofs ----------------------------
(***************************************************************************)
(* Theorems about the accounts and the keepers that share them, for any    *)
(* accounts, amounts, stakes and proposals and any number of processes:    *)
(* the transfer log is a durable log, nonces count transfers, rewards are  *)
(* linear in time, what a vote has closed stays closed and has the outcome *)
(* of its votes, and no coin comes from nothing.                           *)
(***************************************************************************)
EXTENDS Ledger, SumLemmas, FiniteSetTheorems, TLAPS

----------------------------------------------------------------------------
(* Words.                                                                  *)

LEMMA WordIs == Half \in Nat /\ Half > 0 /\ Word \in Nat /\ Word = Half + Half /\ Word > 0
  BY WordsAssumption DEF Word

\* A uint64 is a number below Word, and such a number is its own uint64.
LEMMA AsUint64 ==
  ASSUME NEW x \in Int
  PROVE  /\ ToUint64(x) \in Uint64 /\ ToUint64(x) \in Nat
         /\ x \in Uint64 => ToUint64(x) = x
  <1>1. PICK w \in Nat : w = Word /\ w > 0
    BY WordIs
  <1>2. x % w \in 0 .. w - 1
    BY ONLY <1>1, RemainderIn
  <1>3. ASSUME x \in Uint64 PROVE x % w = x
    <2>1. x \in Nat /\ x < w
      BY <1>1, <1>3 DEF Uint64
    <2>. QED  BY ONLY <1>1, <2>1, Remains
  <1>. QED  BY <1>1, <1>2, <1>3 DEF ToUint64, Uint64

LEMMA AsInt64 ==
  ASSUME NEW x \in Int
  PROVE  /\ ToInt64(x) \in Int64 /\ ToInt64(x) \in Int
         /\ x \in Int64 => ToInt64(x) = x
  <1>1. PICK h \in Nat, w \in Nat : h = Half /\ w = Word /\ w = h + h /\ w > 0
    BY WordIs
  <1>2. PICK y \in Int : y = x + h
    OBVIOUS
  <1>3. y % w \in 0 .. w - 1
    BY ONLY <1>1, <1>2, RemainderIn
  <1>4. ASSUME x \in Int64 PROVE y % w = y
    <2>1. y \in Nat /\ y < w
      BY <1>1, <1>2, <1>4 DEF Int64
    <2>. QED  BY ONLY <1>1, <2>1, Remains
  <1>. QED  BY <1>1, <1>2, <1>3, <1>4 DEF ToInt64, Int64

LEMMA WordTypes == Int64 \subseteq Int /\ Uint64 \subseteq Nat /\ 0 \in Int64
  BY WordIs DEF Int64, Uint64

\* Sums may be taken as uint64 early or late.
LEMMA SumAsUint64 ==
  ASSUME NEW x \in Int, NEW y \in Int
  PROVE  ToUint64(ToUint64(x) + y) = ToUint64(x + y)
  <1>1. PICK w \in Nat : w = Word /\ w > 0
    BY WordIs
  <1>2. ((x % w) + y) % w = (x + y) % w
    BY ONLY <1>1, RemainderOfSum
  <1>. QED  BY <1>1, <1>2 DEF ToUint64

----------------------------------------------------------------------------
(* The transfer log.                                                       *)

Sequential(s) == \E S : s \in Seq(S)

LogInv ==
    /\ Sequential(txs) /\ Sequential(stateFile.txs)
    /\ ~damaged /\ running => stateFile.txs = txs

\* A log and one more entry: what Append does, whatever the entries are.
LEMMA OneMore ==
  ASSUME NEW s, NEW e, Sequential(s)
  PROVE  /\ Sequential(Append(s, e))
         /\ Len(Append(s, e)) = Len(s) + 1
         /\ SubSeq(Append(s, e), 1, Len(s)) = s
         /\ Append(s, e)[Len(Append(s, e))] = e
  <1>1. PICK S : s \in Seq(S)
    BY DEF Sequential
  <1>. DEFINE T == S \cup {e}
  <1>2. s \in Seq(T) /\ e \in T
    BY <1>1
  <1>. HIDE DEF T
  <1>3. Append(s, e) \in Seq(T)
    BY <1>2
  <1>4. Len(Append(s, e)) = Len(s) + 1 /\ Append(s, e)[Len(Append(s, e))] = e
    BY <1>2
  <1>5. SubSeq(Append(s, e), 1, Len(s)) = s
    BY <1>2
  <1>. QED  BY <1>3, <1>4, <1>5 DEF Sequential

\* What a save leaves in the file.
LEMMA SavedLog ==
  ASSUME NEW saving \in Saving, NEW accs, NEW log
  PROVE  /\ saving = "none" => save(saving, accs, log) = stateFile
         /\ saving = "torn" => save(saving, accs, log).txs = <<>>
         /\ saving = "whole" => save(saving, accs, log).txs = log
  BY DEF Saving, save, Unreadable

LEMMA EmptyLog == Sequential(<<>>)
  <1>1. <<>> \in Seq({0})
    OBVIOUS
  <1>. QED  BY <1>1 DEF Sequential

\* What a start loads is what the file holds, or nothing.
LEMMA WhatIsLoaded ==
  ASSUME NEW read \in Reads
  PROVE  \/ read = TRUE /\ Loaded(read) = stateFile
         \/ read = FALSE /\ Loaded(read).accounts = <<>> /\ Loaded(read).txs = <<>>
  BY StateKeeperAssumption DEF Loaded, Unreadable

\* A start gives the process the log of the file, if it can read it.
LEMMA StartKeepsLog ==
  ASSUME LogInv, Start
  PROVE  /\ LogInv'
         /\ ~damaged' => UNCHANGED TransferLog!vars
  <1>1. PICK read \in Reads, saving \in Saves :
            /\ StateStart(read, saving)
            /\ damaged' = (damaged \/ ~read \/ (NeedsGenesis(read) /\ saving # "whole"))
    BY DEF Start
  <1>2. saving \in Saving
    BY StateKeeperAssumption
  <1>3. ~running /\ running' = TRUE /\ confirmed' = confirmed
    BY DEF Start
  <1>4. PICK old : old = Loaded(read) /\ txs' = old.txs
    BY <1>1 DEF StateStart
  <1>5. \/ stateFile' = stateFile
        \/ NeedsGenesis(read) /\ saving = "torn" /\ stateFile'.txs = <<>>
        \/ saving = "whole" /\ stateFile'.txs = old.txs
    BY <1>1, <1>2, <1>4, SavedLog DEF StateStart, Saving
  <1>a. (read = TRUE /\ old = stateFile) \/ (read = FALSE /\ old.txs = <<>>)
    BY <1>4, WhatIsLoaded
  <1>6. Sequential(txs') /\ Sequential(stateFile'.txs)
    BY <1>4, <1>5, <1>a, EmptyLog DEF LogInv
  <1>7. ~damaged' => txs' = stateFile.txs /\ stateFile'.txs = txs' /\ ~damaged
    BY <1>1, <1>4, <1>5, <1>a
  <1>8. LogInv'
    BY <1>6, <1>7 DEF LogInv, Sequential
  <1>9. ~damaged' => UNCHANGED TransferLog!vars
    BY <1>3, <1>4, <1>7 DEF TransferLog!vars
  <1>. QED  BY <1>8, <1>9

\* A transfer adds one entry, in memory and, if the save succeeds, on disk.
LEMMA SendExtendsLog ==
  ASSUME LogInv, Send
  PROVE  /\ LogInv'
         /\ ~damaged' => TransferLog!Extend
  <1>1. PICK from \in DOMAIN accounts, to \in Address, amount \in Amounts, fee \in Fees,
             saving \in Saves :
            /\ SignedTransfer(from, to, amount, fee, accounts[from].Nonce + 1, saving)
            /\ confirmed' = IF {from, to} \cap Short = {} THEN confirmed \cup {txs'[Len(txs')]}
                            ELSE confirmed
            /\ damaged' = (damaged \/ saving # "whole")
    BY DEF Send
  <1>. DEFINE entry == [From |-> from, To |-> to, Amount |-> amount, Fee |-> fee,
                        Nonce |-> accounts[from].Nonce + 1]
  <1>2. saving \in Saving
    BY StateKeeperAssumption
  <1>3. running /\ running' = running
    BY DEF Send
  <1>4. txs' = Append(txs, entry)
    BY <1>1 DEF SignedTransfer, Logged
  <1>. HIDE DEF entry
  <1>5. stateFile' = save(saving, accounts', txs')
    BY <1>1 DEF SignedTransfer
  <1>6. \/ saving = "none" /\ stateFile' = stateFile
        \/ saving = "torn" /\ stateFile'.txs = <<>>
        \/ saving = "whole" /\ stateFile'.txs = txs'
    BY <1>2, <1>5, SavedLog DEF Saving
  <1>7. /\ Sequential(txs')
        /\ Len(txs') = Len(txs) + 1
        /\ SubSeq(txs', 1, Len(txs)) = txs
    BY <1>4, OneMore DEF LogInv
  <1>8. LogInv'
    <2>1. Sequential(stateFile'.txs)
      BY <1>6, <1>7, EmptyLog DEF LogInv
    <2>2. ~damaged' => stateFile'.txs = txs'
      BY <1>1, <1>6
    <2>. QED  BY <1>7, <2>1, <2>2 DEF LogInv, Sequential
  <1>9. ASSUME ~damaged' PROVE TransferLog!Extend
    <2>1. ~damaged
      BY <1>1, <1>9
    <2>2. confirmed \subseteq confirmed' /\ confirmed' \subseteq confirmed \cup {txs'[Len(txs')]}
      BY <1>1
    <2>. QED  BY <1>3, <1>7, <1>9, <2>1, <2>2 DEF TransferLog!Extend
  <1>. QED  BY <1>8, <1>9

\* After a death the log is the one in the file: the same, or one entry longer
\* if the process died in a save that had come to its end.
LEMMA DieKeepsLog ==
  ASSUME LogInv, Die
  PROVE  /\ LogInv'
         /\ ~damaged' => UNCHANGED TransferLog!vars \/ TransferLog!Extend
  <1>1. running /\ running' = FALSE /\ confirmed' = confirmed
    BY DEF Die
  <1>2. CASE StateCrash /\ UNCHANGED damaged
    <2>1. txs' = <<>> /\ stateFile' = stateFile /\ damaged' = damaged
      BY <1>2 DEF StateCrash
    <2>2. LogInv'
      BY <1>1, <2>1, EmptyLog DEF LogInv, Sequential
    <2>3. ~damaged' => UNCHANGED TransferLog!vars
      BY <1>1, <2>1 DEF LogInv, TransferLog!vars
    <2>. QED  BY <2>2, <2>3
  <1>3. CASE ~(StateCrash /\ UNCHANGED damaged)
    <2>1. PICK from \in DOMAIN accounts, to \in Address, amount \in Amounts, fee \in Fees,
               saving \in CrashSaves :
              /\ CrashInTransfer(from, to, amount, fee, accounts[from].Nonce + 1, saving)
              /\ damaged' = (damaged \/ saving = "torn")
      BY <1>3 DEF Die
    <2>. DEFINE entry == [From |-> from, To |-> to, Amount |-> amount, Fee |-> fee,
                          Nonce |-> accounts[from].Nonce + 1]
                log == Append(txs, entry)
    <2>2. saving \in Saving
      BY StateKeeperAssumption
    <2>3. stateFile' = save(saving, Paid(from, to, amount, fee), log) /\ txs' = <<>>
      BY <2>1 DEF CrashInTransfer, Logged
    <2>. HIDE DEF entry
    <2>4. \/ saving = "none" /\ stateFile' = stateFile
          \/ saving = "torn" /\ stateFile'.txs = <<>>
          \/ saving = "whole" /\ stateFile'.txs = log
      BY <2>2, <2>3, SavedLog DEF Saving
    <2>5. Sequential(log) /\ Len(log) = Len(txs) + 1 /\ SubSeq(log, 1, Len(txs)) = txs
      BY OneMore DEF LogInv
    <2>. HIDE DEF log
    <2>6. LogInv'
      <3>1. Sequential(stateFile'.txs)
        BY <2>4, <2>5, EmptyLog DEF LogInv
      <3>. QED  BY <1>1, <2>3, <3>1, EmptyLog DEF LogInv, Sequential
    <2>7. ASSUME ~damaged' PROVE UNCHANGED TransferLog!vars \/ TransferLog!Extend
      <3>1. ~damaged /\ stateFile.txs = txs
        BY <1>1, <2>1, <2>7 DEF LogInv
      <3>2. CASE saving = "none"
        BY <1>1, <2>4, <2>7, <3>1, <3>2 DEF TransferLog!vars
      <3>3. CASE saving = "whole"
        BY <1>1, <2>4, <2>5, <2>7, <3>1, <3>3 DEF TransferLog!Extend
      <3>. QED  BY <2>1, <2>2, <2>7, <3>2, <3>3 DEF Saving
    <2>. QED  BY <2>6, <2>7
  <1>. QED  BY <1>2, <1>3

\* No other step touches the log, in memory or on disk.
LEMMA OthersKeepLog ==
  ASSUME LogInv,
         StakingStep \/ CreateBegin \/ CreateEnd \/ Cast \/ Close \/ Wait \/ UNCHANGED ledgerVars
  PROVE  LogInv' /\ UNCHANGED TransferLog!vars
  <1>1. UNCHANGED <<txs, stateFile, running, confirmed, damaged>>
    <2>1. CASE StakingStep
      BY <2>1 DEF StakingStep, StakeCheck, StakeDeduct, Unstake, RewardLoop, stateVars, history
    <2>2. CASE CreateBegin
      BY <2>2 DEF CreateBegin, CreateCheck, stateVars, history
    <2>3. CASE CreateEnd
      BY <2>3 DEF CreateEnd, CreateDeduct, history
    <2>4. CASE Cast
      BY <2>4 DEF Cast, Vote, stateVars, history
    <2>5. CASE Close
      BY <2>5 DEF Close, ProcessLoop, history
    <2>6. CASE Wait
      BY <2>6 DEF Wait, Hour, history
    <2>7. CASE UNCHANGED ledgerVars
      BY <2>7 DEF ledgerVars, stateVars, history
    <2>. QED  BY <2>1, <2>2, <2>3, <2>4, <2>5, <2>6, <2>7
  <1>. QED  BY <1>1 DEF LogInv, Sequential, TransferLog!vars

LEMMA LogInvHolds == LedgerSpec => []LogInv
  <1>1. LedgerInit => LogInv
    BY EmptyLog DEF LedgerInit, StateInit, LogInv, Unreadable
  <1>2. LogInv /\ [LedgerNext]_ledgerVars => LogInv'
    BY StartKeepsLog, SendExtendsLog, DieKeepsLog, OthersKeepLog DEF LedgerNext
  <1>. QED  BY <1>1, <1>2, PTL DEF LedgerSpec

(***************************************************************************)
(* The account state implements a durable log of transfers: until the      *)
(* first save that fails or is cut short, or start that cannot read the    *)
(* file, whatever stakes, proposals, panics, deaths and restarts come      *)
(* between, the log grows by one transfer at a time, and a transfer that   *)
(* was answered with success stays in it.                                  *)
(***************************************************************************)
THEOREM TransfersAreDurableCorrect == LedgerSpec => TransfersAreDurable
  <1>1. LedgerInit => TransferLog!Init
    BY DEF LedgerInit, StateInit, Unreadable, TransferLog!Init
  <1>2. LogInv /\ [LedgerNext]_ledgerVars => [TransferLog!Next]_(TransferLog!vars)
    <2>. SUFFICES ASSUME LogInv, [LedgerNext]_ledgerVars
                  PROVE  [TransferLog!Next]_(TransferLog!vars)
      OBVIOUS
    <2>1. CASE damaged'
      BY <2>1 DEF TransferLog!Next, TransferLog!Break
    <2>2. CASE ~damaged'
      <3>1. CASE Start
        BY <2>2, <3>1, StartKeepsLog
      <3>2. CASE Send
        BY <2>2, <3>2, SendExtendsLog DEF TransferLog!Next
      <3>3. CASE Die
        BY <2>2, <3>3, DieKeepsLog DEF TransferLog!Next
      <3>4. CASE ~(Start \/ Send \/ Die)
        BY <3>4, OthersKeepLog DEF LedgerNext
      <3>. QED  BY <3>1, <3>2, <3>3, <3>4
    <2>. QED  BY <2>1, <2>2
  <1>. QED  BY <1>1, <1>2, LogInvHolds, PTL DEF LedgerSpec, TransfersAreDurable, TransferLog!Spec

----------------------------------------------------------------------------
(* Nonces.                                                                 *)

\* The places of a log where a is the sender.
SentBy(log, a) == {i \in 1 .. Len(log) : log[i].From = a}

\* An account is a balance, whatever it is, and a nonce.
HasNonce(account) ==
    /\ account = [Balance |-> account.Balance, Nonce |-> account.Nonce]
    /\ account.Nonce \in Nat

\* The nonces up to that of an account are those of the transfers it sent.
NonceCounts(account, log, a) ==
    /\ {log[i].Nonce : i \in SentBy(log, a)} = 1 .. account.Nonce
    /\ IsFiniteSet(SentBy(log, a)) /\ Cardinality(SentBy(log, a)) = account.Nonce

\* The nonces of the accounts count the transfers of the log, which only
\* accounts have sent.
Counted(accs, log) ==
    /\ \A i \in 1 .. Len(log) : log[i].From \in DOMAIN accs
    /\ \A a \in DOMAIN accs : HasNonce(accs[a]) /\ NonceCounts(accs[a], log, a)

(***************************************************************************)
(* Memory and file agree with themselves, each accounts with its own log:  *)
(* a save writes both at once, and a restart reads both.                   *)
(***************************************************************************)
NonceInv == Counted(accounts, txs) /\ Counted(stateFile.accounts, stateFile.txs)

LEMMA NothingCounted == Counted(<<>>, <<>>)
  BY DEF Counted

\* A new account has sent nothing.
LEMMA OpenedCounted ==
  ASSUME NEW accs, NEW log, NEW new, NEW amount, Counted(accs, log)
  PROVE  Counted(Opened(accs, new, amount), log)
  <1>. DEFINE all == Opened(accs, new, amount)
  <1>1. /\ DOMAIN all = DOMAIN accs \cup new
        /\ \A a \in DOMAIN accs : all[a] = accs[a]
        /\ \A a \in new \ DOMAIN accs : all[a] = [Balance |-> amount[a], Nonce |-> 0]
    BY DEF Opened
  <1>. HIDE DEF all
  <1>2. ASSUME NEW a \in new \ DOMAIN accs
        PROVE  HasNonce(all[a]) /\ NonceCounts(all[a], log, a)
    <2>1. SentBy(log, a) = {}
      BY DEF Counted, SentBy
    <2>2. IsFiniteSet({}) /\ Cardinality({}) = 0
      BY FS_EmptySet
    <2>3. all[a].Nonce = 0 /\ HasNonce(all[a])
      BY <1>1 DEF HasNonce
    <2>. QED  BY <2>1, <2>2, <2>3 DEF NonceCounts
  <1>3. Counted(all, log)
    BY <1>1, <1>2 DEF Counted
  <1>. QED  BY <1>3 DEF all

\* Balances may change as they like.
LEMMA BalancesAside ==
  ASSUME NEW accs, NEW log, NEW others, Counted(accs, log), DOMAIN others = DOMAIN accs,
         \A a \in DOMAIN accs : HasNonce(others[a]) /\ others[a].Nonce = accs[a].Nonce
  PROVE  Counted(others, log)
  BY DEF Counted, NonceCounts

LEMMA CreditKeepsNonces ==
  ASSUME NEW accs, NEW a, NEW x, \A b \in DOMAIN accs : HasNonce(accs[b])
  PROVE  /\ DOMAIN Credit(accs, a, x) = DOMAIN accs
         /\ \A b \in DOMAIN accs : /\ HasNonce(Credit(accs, a, x)[b])
                                   /\ Credit(accs, a, x)[b].Nonce = accs[b].Nonce
  <1>1. /\ DOMAIN Credit(accs, a, x) = DOMAIN accs
        /\ \A b \in DOMAIN accs : Credit(accs, a, x)[b] =
              IF b = a THEN [accs[b] EXCEPT !.Balance = ToInt64(@ + x)] ELSE accs[b]
    BY DEF Credit
  <1>2. ASSUME NEW b \in DOMAIN accs, NEW c, c = [accs[b] EXCEPT !.Balance = ToInt64(@ + x)]
        PROVE  HasNonce(c) /\ c.Nonce = accs[b].Nonce
    <2>1. PICK d : d = accs[b] /\ d = [Balance |-> d.Balance, Nonce |-> d.Nonce] /\ d.Nonce \in Nat
      BY DEF HasNonce
    <2>2. c = [Balance |-> ToInt64(d.Balance + x), Nonce |-> d.Nonce]
      BY <1>2, <2>1
    <2>. QED  BY <2>1, <2>2 DEF HasNonce
  <1>. QED  BY <1>1, <1>2

\* One more entry leaves the others where they are.
LEMMA OneMoreAt ==
  ASSUME NEW s, NEW e, Sequential(s)
  PROVE  /\ Len(s) \in Nat /\ Len(Append(s, e)) = Len(s) + 1
         /\ Append(s, e)[Len(s) + 1] = e
         /\ \A i \in 1 .. Len(s) : Append(s, e)[i] = s[i]
  <1>1. PICK S : s \in Seq(S)
    BY DEF Sequential
  <1>2. s \in Seq(S \cup {e}) /\ e \in S \cup {e}
    BY <1>1
  <1>. QED  BY <1>2

\* In accs the sender has used up its next nonce, and nobody else has; only
\* the receiver's account may be new.
NextNonce(accs, from, to) ==
    /\ DOMAIN accs = DOMAIN accounts \cup {to}
    /\ \A a \in DOMAIN accs :
          /\ HasNonce(accs[a])
          /\ accs[a].Nonce = (IF a \in DOMAIN accounts THEN accounts[a].Nonce ELSE 0)
                               + (IF a = from THEN 1 ELSE 0)

LEMMA PaidNonces ==
  ASSUME NEW log, NEW from, NEW to, NEW amount, NEW fee,
         Counted(accounts, log), from \in DOMAIN accounts
  PROVE  NextNonce(Paid(from, to, amount, fee), from, to)
  <1>. DEFINE all   == WithAccount(accounts, to)
              less  == Credit(all, from, -(amount + fee))
              moved == Credit(less, to, amount)
              paid  == Paid(from, to, amount, fee)
  <1>1. /\ Counted(all, log) /\ DOMAIN all = DOMAIN accounts \cup {to}
        /\ \A a \in DOMAIN accounts : all[a] = accounts[a]
        /\ \A a \in DOMAIN all \ DOMAIN accounts : all[a].Nonce = 0
    <2>1. PICK zero : zero = [x \in {to} |-> 0]
      OBVIOUS
    <2>2. all = Opened(accounts, {to}, zero)
      BY <2>1 DEF WithAccount
    <2>. HIDE DEF all
    <2>3. Counted(all, log)
      BY <2>2, OpenedCounted
    <2>4. /\ DOMAIN all = DOMAIN accounts \cup {to}
          /\ \A a \in DOMAIN accounts : all[a] = accounts[a]
          /\ \A a \in {to} \ DOMAIN accounts : all[a].Nonce = 0
      BY <2>1, <2>2 DEF Opened
    <2>. QED  BY <2>3, <2>4
  <1>. HIDE DEF all
  <1>2. \A a \in DOMAIN all : HasNonce(all[a])
    BY <1>1 DEF Counted
  <1>3. /\ DOMAIN less = DOMAIN all
        /\ \A a \in DOMAIN all : HasNonce(less[a]) /\ less[a].Nonce = all[a].Nonce
    BY <1>2, CreditKeepsNonces
  <1>. HIDE DEF less
  <1>4. /\ DOMAIN moved = DOMAIN all
        /\ \A a \in DOMAIN all : HasNonce(moved[a]) /\ moved[a].Nonce = all[a].Nonce
    BY <1>3, CreditKeepsNonces
  <1>5. paid = [moved EXCEPT ![from].Nonce = @ + 1]
    BY DEF Paid, moved, less, all
  <1>. HIDE DEF moved, paid
  <1>6. /\ DOMAIN paid = DOMAIN all
        /\ \A a \in DOMAIN all : a # from => paid[a] = moved[a]
        /\ paid[from] = [moved[from] EXCEPT !.Nonce = @ + 1]
    BY <1>1, <1>4, <1>5
  <1>7. HasNonce(paid[from]) /\ paid[from].Nonce = moved[from].Nonce + 1
    <2>1. PICK d : d = moved[from] /\ d = [Balance |-> d.Balance, Nonce |-> d.Nonce] /\ d.Nonce \in Nat
      BY <1>1, <1>4 DEF HasNonce
    <2>2. paid[from] = [Balance |-> d.Balance, Nonce |-> d.Nonce + 1]
      BY <1>6, <2>1
    <2>. QED  BY <2>1, <2>2 DEF HasNonce
  <1>8. ASSUME NEW a \in DOMAIN paid
        PROVE  /\ HasNonce(paid[a])
               /\ paid[a].Nonce = (IF a \in DOMAIN accounts THEN accounts[a].Nonce ELSE 0)
                                    + (IF a = from THEN 1 ELSE 0)
    <2>1. all[a].Nonce \in Nat /\ all[a].Nonce = IF a \in DOMAIN accounts THEN accounts[a].Nonce ELSE 0
      BY <1>1, <1>2, <1>6 DEF HasNonce
    <2>2. CASE a = from
      BY <1>1, <1>4, <1>7, <2>1, <2>2
    <2>3. CASE a # from
      BY <1>4, <1>6, <2>1, <2>3
    <2>. QED  BY <2>2, <2>3
  <1>9. NextNonce(paid, from, to)
    BY <1>1, <1>6, <1>8 DEF NextNonce
  <1>. QED  BY <1>9 DEF paid

LEMMA PaidCounted ==
  ASSUME NEW from, NEW to, NEW amount, NEW fee,
         Sequential(txs), Counted(accounts, txs), from \in DOMAIN accounts
  PROVE  Counted(Paid(from, to, amount, fee),
                 Logged(from, to, amount, fee, accounts[from].Nonce + 1))
  <1>. DEFINE entry == [From |-> from, To |-> to, Amount |-> amount, Fee |-> fee,
                        Nonce |-> accounts[from].Nonce + 1]
              log   == Append(txs, entry)
              paid  == Paid(from, to, amount, fee)
  <1>1. /\ Len(txs) \in Nat /\ Len(log) = Len(txs) + 1
        /\ log[Len(txs) + 1].From = from
        /\ log[Len(txs) + 1].Nonce = accounts[from].Nonce + 1
        /\ \A i \in 1 .. Len(txs) : log[i] = txs[i]
    BY OneMoreAt
  <1>2. log = Logged(from, to, amount, fee, accounts[from].Nonce + 1)
    BY DEF Logged
  <1>3. /\ DOMAIN paid = DOMAIN accounts \cup {to}
        /\ \A a \in DOMAIN paid :
              /\ HasNonce(paid[a])
              /\ paid[a].Nonce = (IF a \in DOMAIN accounts THEN accounts[a].Nonce ELSE 0)
                                   + (IF a = from THEN 1 ELSE 0)
    <2>1. NextNonce(paid, from, to)
      BY PaidNonces
    <2>. HIDE DEF paid
    <2>. QED  BY <2>1 DEF NextNonce
  <1>. HIDE DEF log, entry, paid
  <1>4. \A i \in 1 .. Len(log) : i \in 1 .. Len(txs) \/ i = Len(txs) + 1
    BY <1>1
  <1>5. \A i \in 1 .. Len(log) : log[i].From \in DOMAIN paid
    BY <1>1, <1>3, <1>4 DEF Counted
  <1>6. ASSUME NEW a \in DOMAIN paid, a # from PROVE NonceCounts(paid[a], log, a)
    <2>1. SentBy(log, a) = SentBy(txs, a)
      BY <1>1, <1>4, <1>6 DEF SentBy
    <2>2. {log[i].Nonce : i \in SentBy(log, a)} = {txs[i].Nonce : i \in SentBy(txs, a)}
      BY <1>1, <2>1 DEF SentBy
    <2>3. CASE a \in DOMAIN accounts
      <3>1. accounts[a].Nonce \in Nat
        BY <2>3 DEF Counted, HasNonce
      <3>2. paid[a].Nonce = accounts[a].Nonce
        BY <1>3, <1>6, <2>3, <3>1
      <3>. QED  BY <2>1, <2>2, <2>3, <3>2 DEF Counted, NonceCounts
    <2>4. CASE a \notin DOMAIN accounts
      <3>1. paid[a].Nonce = 0
        BY <1>3, <1>6, <2>4
      <3>2. SentBy(txs, a) = {}
        BY <2>4 DEF SentBy, Counted
      <3>3. IsFiniteSet({}) /\ Cardinality({}) = 0
        BY FS_EmptySet
      <3>. QED  BY <2>1, <2>2, <3>1, <3>2, <3>3 DEF NonceCounts
    <2>. QED  BY <2>3, <2>4
  <1>7. NonceCounts(paid[from], log, from)
    <2>1. PICK n \in Nat : n = accounts[from].Nonce
      BY DEF Counted, HasNonce
    <2>2. /\ {txs[i].Nonce : i \in SentBy(txs, from)} = 1 .. n
          /\ IsFiniteSet(SentBy(txs, from)) /\ Cardinality(SentBy(txs, from)) = n
      BY <2>1 DEF Counted, NonceCounts
    <2>3. paid[from].Nonce = n + 1
      BY <1>3, <2>1
    <2>4. SentBy(log, from) = SentBy(txs, from) \cup {Len(txs) + 1}
      BY <1>1, <1>4 DEF SentBy
    <2>5. Len(txs) + 1 \notin SentBy(txs, from)
      BY <1>1 DEF SentBy
    <2>6. IsFiniteSet(SentBy(log, from)) /\ Cardinality(SentBy(log, from)) = n + 1
      BY <2>2, <2>4, <2>5, FS_AddElement
    <2>7. {log[i].Nonce : i \in SentBy(log, from)}
            = {txs[i].Nonce : i \in SentBy(txs, from)} \cup {n + 1}
      BY <1>1, <2>1, <2>4 DEF SentBy
    <2>8. (1 .. n) \cup {n + 1} = 1 .. n + 1
      BY <2>1
    <2>. QED  BY <2>2, <2>3, <2>6, <2>7, <2>8 DEF NonceCounts
  <1>8. \A a \in DOMAIN paid : HasNonce(paid[a]) /\ NonceCounts(paid[a], log, a)
    BY <1>3, <1>6, <1>7
  <1>9. Counted(paid, log)
    BY <1>5, <1>8 DEF Counted
  <1>. QED  BY <1>2, <1>9 DEF paid

\* What a save leaves in the file is what it was, nothing, or what was saved.
LEMMA SavedCounted ==
  ASSUME NEW saving, NEW accs, NEW log, saving \in Saving, Counted(accs, log),
         Counted(stateFile.accounts, stateFile.txs)
  PROVE  Counted(save(saving, accs, log).accounts, save(saving, accs, log).txs)
  <1>1. PICK file : file = save(saving, accs, log)
    OBVIOUS
  <1>2. CASE saving = "none"
    BY <1>1, <1>2 DEF save
  <1>3. CASE saving = "torn"
    <2>1. file.accounts = <<>> /\ file.txs = <<>>
      BY <1>1, <1>3 DEF save, Unreadable
    <2>. QED  BY <1>1, <2>1, NothingCounted
  <1>4. CASE saving = "whole"
    <2>1. file.accounts = accs /\ file.txs = log
      BY <1>1, <1>4 DEF save
    <2>. QED  BY <1>1, <2>1
  <1>. QED  BY <1>2, <1>3, <1>4 DEF Saving

LEMMA CreditCounted ==
  ASSUME NEW accs, NEW log, NEW a, NEW x, Counted(accs, log)
  PROVE  Counted(Credit(accs, a, x), log)
  <1>1. \A b \in DOMAIN accs : HasNonce(accs[b])
    BY DEF Counted
  <1>2. PICK others : others = Credit(accs, a, x)
    OBVIOUS
  <1>3. /\ DOMAIN others = DOMAIN accs
        /\ \A b \in DOMAIN accs : HasNonce(others[b]) /\ others[b].Nonce = accs[b].Nonce
    BY <1>1, <1>2, CreditKeepsNonces
  <1>4. Counted(others, log)
    BY <1>3, BalancesAside
  <1>. QED  BY <1>2, <1>4

LEMMA StartCounted ==
  ASSUME NonceInv, Start
  PROVE  NonceInv'
  <1>1. PICK read \in Reads, saving \in Saves : StateStart(read, saving)
    BY DEF Start
  <1>2. saving \in Saving
    BY StateKeeperAssumption
  <1>3. PICK new, all, old : /\ old = Loaded(read)
                             /\ all = Opened(old.accounts, new, GenesisAmount)
                             /\ accounts' = all /\ txs' = old.txs
                             /\ \/ stateFile' = stateFile
                                \/ stateFile' = save(saving, all, old.txs)
    BY <1>1 DEF StateStart
  <1>a. Counted(old.accounts, old.txs)
    BY <1>3, WhatIsLoaded, NothingCounted DEF NonceInv
  <1>4. Counted(all, old.txs)
    BY <1>3, <1>a, OpenedCounted
  <1>5. Counted(save(saving, all, old.txs).accounts, save(saving, all, old.txs).txs)
    BY <1>2, <1>4, SavedCounted DEF NonceInv
  <1>6. Counted(stateFile'.accounts, stateFile'.txs)
    BY <1>3, <1>5 DEF NonceInv
  <1>. QED  BY <1>3, <1>4, <1>6 DEF NonceInv

LEMMA SendCounted ==
  ASSUME LogInv, NonceInv, Send
  PROVE  NonceInv'
  <1>1. PICK from \in DOMAIN accounts, to \in Address, amount \in Amounts, fee \in Fees,
             saving \in Saves :
            SignedTransfer(from, to, amount, fee, accounts[from].Nonce + 1, saving)
    BY DEF Send
  <1>2. saving \in Saving
    BY StateKeeperAssumption
  <1>3. PICK paid, log : /\ paid = Paid(from, to, amount, fee)
                         /\ log = Logged(from, to, amount, fee, accounts[from].Nonce + 1)
    OBVIOUS
  <1>4. accounts' = paid /\ txs' = log /\ stateFile' = save(saving, paid, log)
    BY <1>1, <1>3 DEF SignedTransfer
  <1>5. Counted(paid, log)
    BY <1>3, PaidCounted DEF LogInv, NonceInv
  <1>6. Counted(save(saving, paid, log).accounts, save(saving, paid, log).txs)
    BY <1>2, <1>5, SavedCounted DEF NonceInv
  <1>. QED  BY <1>4, <1>5, <1>6 DEF NonceInv

LEMMA DieCounted ==
  ASSUME LogInv, NonceInv, Die
  PROVE  NonceInv'
  <1>1. CASE StateCrash
    BY <1>1, NothingCounted DEF StateCrash, NonceInv
  <1>2. CASE ~StateCrash
    <2>1. PICK from \in DOMAIN accounts, to \in Address, amount \in Amounts, fee \in Fees,
               saving \in CrashSaves :
              CrashInTransfer(from, to, amount, fee, accounts[from].Nonce + 1, saving)
      BY <1>2 DEF Die
    <2>2. saving \in Saving
      BY StateKeeperAssumption
    <2>3. PICK paid, log : /\ paid = Paid(from, to, amount, fee)
                           /\ log = Logged(from, to, amount, fee, accounts[from].Nonce + 1)
      OBVIOUS
    <2>4. accounts' = <<>> /\ txs' = <<>> /\ stateFile' = save(saving, paid, log)
      BY <2>1, <2>3 DEF CrashInTransfer
    <2>5. Counted(paid, log)
      BY <2>3, PaidCounted DEF LogInv, NonceInv
    <2>6. Counted(save(saving, paid, log).accounts, save(saving, paid, log).txs)
      BY <2>2, <2>5, SavedCounted DEF NonceInv
    <2>. QED  BY <2>4, <2>6, NothingCounted DEF NonceInv
  <1>. QED  BY <1>1, <1>2

\* A refund adds to balances.
LEMMA CloseCounted ==
  ASSUME NonceInv, Close
  PROVE  NonceInv'
  <1>1. PICK back : accounts' = [a \in DOMAIN accounts |->
                        [accounts[a] EXCEPT !.Balance = ToInt64(@ + back[a])]]
    <2>. DEFINE refunded(a) == {i \in Due : /\ Outcome(proposals[i]) = "passed"
                                            /\ proposals[i].Proposer = a}
                back == [a \in DOMAIN accounts |->
                           SumFunction([i \in refunded(a) |-> proposals[i].Deposit])]
    <2>1. accounts' = [a \in DOMAIN accounts |-> [accounts[a] EXCEPT !.Balance = ToInt64(@ + back[a])]]
      BY DEF Close, ProcessLoop
    <2>. HIDE DEF back
    <2>. QED  BY <2>1
  <1>2. txs' = txs /\ stateFile' = stateFile
    BY DEF Close, ProcessLoop
  <1>3. PICK others : others = accounts'
    OBVIOUS
  <1>4. DOMAIN others = DOMAIN accounts
    BY <1>1, <1>3
  <1>5. ASSUME NEW a \in DOMAIN accounts
        PROVE  HasNonce(others[a]) /\ others[a].Nonce = accounts[a].Nonce
    <2>1. HasNonce(accounts[a])
      BY DEF NonceInv, Counted
    <2>2. PICK d : d = accounts[a] /\ d = [Balance |-> d.Balance, Nonce |-> d.Nonce] /\ d.Nonce \in Nat
      BY <2>1 DEF HasNonce
    <2>3. others[a] = [accounts[a] EXCEPT !.Balance = ToInt64(@ + back[a])]
      BY <1>1, <1>3
    <2>4. others[a] = [Balance |-> ToInt64(d.Balance + back[a]), Nonce |-> d.Nonce]
      BY <2>2, <2>3
    <2>. QED  BY <2>2, <2>4 DEF HasNonce
  <1>6. Counted(others, txs)
    BY <1>4, <1>5, BalancesAside DEF NonceInv
  <1>. QED  BY <1>2, <1>3, <1>6 DEF NonceInv

\* What staking and governance take from accounts or add to them is balance.
LEMMA OthersCounted ==
  ASSUME NonceInv, StakingStep \/ CreateBegin \/ CreateEnd \/ Cast \/ Wait \/ UNCHANGED ledgerVars
  PROVE  NonceInv'
  <1>1. /\ \/ accounts' = accounts
           \/ \E a, x : accounts' = Credit(accounts, a, x)
        /\ txs' = txs /\ stateFile' = stateFile
    <2>1. CASE StakingStep
      BY <2>1 DEF StakingStep, StakeCheck, StakeDeduct, Unstake, RewardLoop, stateVars
    <2>2. CASE CreateBegin
      BY <2>2 DEF CreateBegin, CreateCheck, stateVars
    <2>3. CASE CreateEnd
      BY <2>3 DEF CreateEnd, CreateDeduct
    <2>4. CASE Cast
      BY <2>4 DEF Cast, Vote, stateVars
    <2>5. CASE Wait
      BY <2>5 DEF Wait, Hour
    <2>6. CASE UNCHANGED ledgerVars
      BY <2>6 DEF ledgerVars, stateVars
    <2>. QED  BY <2>1, <2>2, <2>3, <2>4, <2>5, <2>6
  <1>2. Counted(accounts', txs)
    <2>1. CASE accounts' = accounts
      BY <2>1 DEF NonceInv
    <2>2. CASE \E a, x : accounts' = Credit(accounts, a, x)
      <3>1. PICK a, x : accounts' = Credit(accounts, a, x)
        BY <2>2
      <3>2. Counted(Credit(accounts, a, x), txs)
        BY CreditCounted DEF NonceInv
      <3>. QED  BY <3>1, <3>2
    <2>. QED  BY <1>1, <2>1, <2>2
  <1>. QED  BY <1>1, <1>2 DEF NonceInv

(***************************************************************************)
(* The nonce of an account counts the transfers in the log that it sent,   *)
(* and each of them carries its own, whatever the accounts, amounts and    *)
(* fees are and however often the process dies and starts again: no signed *)
(* request takes effect twice.                                             *)
(***************************************************************************)
THEOREM NoncesCountTransfersCorrect == LedgerSpec => []NoncesCountTransfers
  <1>1. LedgerInit => NonceInv
    BY NothingCounted DEF LedgerInit, StateInit, NonceInv, Unreadable
  <1>2. LogInv /\ NonceInv /\ [LedgerNext]_ledgerVars => NonceInv'
    BY StartCounted, SendCounted, DieCounted, CloseCounted, OthersCounted DEF LedgerNext
  <1>3. NonceInv => NoncesCountTransfers
    BY DEF NonceInv, Counted, NonceCounts, SentBy, NoncesCountTransfers
  <1>. QED  BY <1>1, <1>2, <1>3, LogInvHolds, PTL DEF LedgerSpec

----------------------------------------------------------------------------
(* Rewards.                                                                *)

(***************************************************************************)
(* At the moment now a position has been credited its rate for the time up *)
(* to LastReward, give or take what float64 is off, short of less than one *)
(* unit per hour: a reward is only credited, and the time only started     *)
(* anew, when it is a unit at least.  Once a sum has wrapped around, only  *)
(* the types and the order of the times are left.                          *)
(***************************************************************************)
Earning(pos, now, exact) ==
    LET rate == pos.Amount * Rate[pos.IsGreen]
        held == pos.LastReward - pos.StartTime
        unit == RateUnit * Fine
    IN  /\ pos \in Position
        /\ pos.StartTime <= pos.LastReward /\ pos.LastReward <= now
        /\ exact => /\ pos.TotalRewards * unit <= (rate * (Fine + 1)) * held
                    /\ (rate * (Fine - 1)) * held <= (pos.TotalRewards + held) * unit

RewardsInv ==
    /\ clock \in Nat /\ wrapped \in BOOLEAN
    /\ staking # NoCall => staking \in StakeCall
    /\ positions \in Seq(Position)
    /\ \A i \in 1 .. Len(positions) : Earning(positions[i], clock, ~wrapped)

LEMMA Division ==
  ASSUME NEW x \in Nat, NEW u \in Nat \ {0}
  PROVE  /\ x \div u \in Nat
         /\ (x \div u) * u <= x /\ x < (x \div u) * u + u
  OBVIOUS

\* A quotient that is rounded down from something between x and y.
LEMMA RoundedDown ==
  ASSUME NEW x \in Nat, NEW y \in Nat, NEW u \in Nat \ {0}, NEW r \in x \div u .. y \div u
  PROVE  r \in Nat /\ r * u <= y /\ x < r * u + u
  <1>1. PICK p \in Nat : p = x \div u /\ p * u <= x /\ x < p * u + u
    BY Division
  <1>2. PICK q \in Nat : q = y \div u /\ q * u <= y
    BY Division
  <1>3. r \in Nat /\ p <= r /\ r <= q
    BY <1>1, <1>2
  <1>4. p * u <= r * u /\ r * u <= q * u
    BY <1>3
  <1>. QED  BY <1>1, <1>2, <1>3, <1>4

\* Two stretches of time between the same two rates, each rewarded short of one
\* unit per hour.
LEMMA TwoStretches ==
  ASSUME NEW k \in Nat, NEW l \in Nat, NEW u \in Nat \ {0}, NEW h \in Nat, NEW t \in Nat,
         NEW g \in Nat, NEW r \in Nat,
         t * u <= k * h, l * h <= (t + h) * u,
         r * u <= k * g, l * g < r * u + u
  PROVE  /\ (t + r) * u <= k * (h + g)
         /\ l * (h + g) < (t + r + h + g + 1) * u
         /\ r > 0 => l * (h + g) <= (t + r + h + g) * u
  <1>1. /\ k * (h + g) = k * h + k * g /\ l * (h + g) = l * h + l * g
        /\ (t + r) * u = t * u + r * u
        /\ (t + h) * u = t * u + h * u
        /\ (t + r + h + g) * u = t * u + r * u + h * u + g * u
        /\ (t + r + h + g + 1) * u = t * u + r * u + h * u + g * u + u
    OBVIOUS
  <1>2. PICK kh, kg, lh, lg, tu, ru, hu, gu \in Nat :
            /\ kh = k * h /\ kg = k * g /\ lh = l * h /\ lg = l * g
            /\ tu = t * u /\ ru = r * u /\ hu = h * u /\ gu = g * u
    OBVIOUS
  <1>3. tu + ru <= kh + kg /\ lh + lg < tu + ru + hu + gu + u
    BY <1>1, <1>2
  <1>4. ASSUME r > 0 PROVE lh + lg <= tu + ru + hu + gu
    <2>1. ru > 0
      BY <1>2, <1>4
    <2>2. g # 0
      BY <1>2, <2>1
    <2>3. gu >= u
      BY <1>2, <2>2
    <2>. QED  BY <1>1, <1>2, <2>3
  <1>. QED  BY <1>1, <1>2, <1>3, <1>4

\* What may be computed for the time since the last reward is a number.
LEMMA RewardIsNat ==
  ASSUME clock \in Nat, NEW pos \in Position, pos.LastReward <= clock, NEW r \in rewards(pos)
  PROVE  r \in Nat
  <1>1. /\ pos.Amount \in Nat /\ Rate[pos.IsGreen] \in Nat /\ clock - pos.LastReward \in Nat
        /\ RateUnit * Fine \in Nat \ {0} /\ Fine - 1 \in Nat /\ Fine + 1 \in Nat
    BY StakingAssumption DEF Position
  <1>2. PICK e \in Nat : e = pos.Amount * Rate[pos.IsGreen] * (clock - pos.LastReward)
    BY <1>1
  <1>3. PICK u \in Nat \ {0}, f \in Nat, g \in Nat : u = RateUnit * Fine /\ f = Fine - 1 /\ g = Fine + 1
    BY <1>1
  <1>4. PICK x \in Nat, y \in Nat : x = e * f /\ y = e * g
    OBVIOUS
  <1>5. r \in x \div u .. y \div u
    BY <1>2, <1>3, <1>4 DEF rewards
  <1>. QED  BY <1>5, RoundedDown

\* What a position has been credited, with what is pending, is its rate for the
\* time up to now, short of less than one unit per hour and one more.
LEMMA RewardsSoFar ==
  ASSUME clock \in Nat, NEW pos, NEW exact, Earning(pos, clock, exact), exact, NEW r \in rewards(pos)
  PROVE  LET rate == pos.Amount * Rate[pos.IsGreen]
             held == clock - pos.StartTime
             all  == pos.TotalRewards + r
             unit == RateUnit * Fine
         IN  /\ all * unit <= (rate * (Fine + 1)) * held
             /\ (rate * (Fine - 1)) * held < (all + held + 1) * unit
             /\ r > 0 => (rate * (Fine - 1)) * held <= (all + held) * unit
  <1>1. /\ pos.Amount \in Nat /\ Rate[pos.IsGreen] \in Nat
        /\ RateUnit * Fine \in Nat \ {0} /\ Fine - 1 \in Nat /\ Fine + 1 \in Nat
        /\ pos.StartTime \in Nat /\ pos.LastReward \in Nat /\ pos.TotalRewards \in Nat
        /\ pos.StartTime <= pos.LastReward /\ pos.LastReward <= clock
    BY StakingAssumption DEF Earning, Position
  <1>2. PICK rate \in Nat : rate = pos.Amount * Rate[pos.IsGreen]
    BY <1>1
  <1>3. PICK h \in Nat, g \in Nat : h = pos.LastReward - pos.StartTime /\ g = clock - pos.LastReward
    BY <1>1
  <1>4. PICK f1 \in Nat, f2 \in Nat, u \in Nat \ {0} : f1 = Fine - 1 /\ f2 = Fine + 1 /\ u = RateUnit * Fine
    BY <1>1
  <1>5. PICK k \in Nat, l \in Nat : k = rate * f2 /\ l = rate * f1
    BY <1>4
  <1>6. PICK t \in Nat : t = pos.TotalRewards
    BY <1>1
  <1>7. t * u <= k * h /\ l * h <= (t + h) * u
    BY <1>2, <1>3, <1>4, <1>5, <1>6 DEF Earning
  <1>8. r \in Nat /\ r * u <= k * g /\ l * g < r * u + u
    <2>1. PICK x \in Nat, y \in Nat : x = (rate * g) * f1 /\ y = (rate * g) * f2
      OBVIOUS
    <2>2. r \in x \div u .. y \div u
      BY <1>2, <1>3, <1>4, <2>1 DEF rewards
    <2>3. x = l * g /\ y = k * g
      BY <1>5, <2>1
    <2>4. r \in Nat /\ r * u <= y /\ x < r * u + u
      BY <2>2, RoundedDown
    <2>. QED  BY <2>3, <2>4
  <1>9. clock - pos.StartTime = h + g
    BY <1>1, <1>3
  <1>10. /\ (t + r) * u <= k * (h + g)
         /\ l * (h + g) < (t + r + h + g + 1) * u
         /\ r > 0 => l * (h + g) <= (t + r + h + g) * u
    BY <1>7, <1>8, TwoStretches
  <1>11. /\ t + r + (h + g) = t + r + h + g
         /\ t + r + (h + g) + 1 = t + r + h + g + 1
    BY <1>8
  <1>. QED  BY <1>2, <1>4, <1>5, <1>6, <1>8, <1>9, <1>10, <1>11

\* Crediting what is pending; after tells whether the sum is still exact.
LEMMA StillEarning ==
  ASSUME clock \in Nat, NEW pos, NEW exact \in BOOLEAN, NEW after \in BOOLEAN,
         Earning(pos, clock, exact), NEW r \in rewards(pos),
         after => exact /\ RewardFits(pos, r)
  PROVE  Earning(calculateRewards(pos, r), clock, after)
  <1>1. CASE r > 0
    <2>1. PICK next : next = [pos EXCEPT !.TotalRewards = ToUint64(@ + r), !.LastReward = clock]
      OBVIOUS
    <2>2. PICK p : p = pos
      OBVIOUS
    <2>3. p \in Position /\ p.TotalRewards \in Nat /\ r \in Nat /\ p.LastReward <= clock
          /\ p.LastReward \in Nat /\ p.StartTime \in Nat /\ p.StartTime <= p.LastReward
      BY <2>2, RewardIsNat DEF Earning, Position
    <2>4. PICK t \in Nat : t = ToUint64(p.TotalRewards + r)
      BY <2>3, AsUint64
    <2>5. /\ next \in Position
          /\ next.Amount = p.Amount /\ next.IsGreen = p.IsGreen /\ next.StartTime = p.StartTime
          /\ next.LastReward = clock /\ next.TotalRewards = t
      <3>1. next = [Owner |-> p.Owner, Amount |-> p.Amount, StartTime |-> p.StartTime,
                    LastReward |-> clock, TotalRewards |-> t, IsGreen |-> p.IsGreen,
                    IsActive |-> p.IsActive]
        BY <2>1, <2>2, <2>3, <2>4 DEF Position
      <3>2. next \in Position
        BY <2>3, <2>4, <3>1 DEF Position
      <3>. QED  BY <2>4, <3>1, <3>2
    <2>6. ASSUME after
          PROVE  LET rate == p.Amount * Rate[p.IsGreen]
                     held == clock - p.StartTime
                     unit == RateUnit * Fine
                 IN  /\ t * unit <= (rate * (Fine + 1)) * held
                     /\ (rate * (Fine - 1)) * held <= (t + held) * unit
      <3>1. t = p.TotalRewards + r
        BY <2>2, <2>3, <2>4, <2>6, AsUint64 DEF RewardFits
      <3>. QED  BY <1>1, <2>2, <2>6, <3>1, RewardsSoFar
    <2>7. p.StartTime <= clock
      BY <2>3
    <2>8. Earning(next, clock, after)
      BY <2>5, <2>6, <2>7 DEF Earning
    <2>9. calculateRewards(pos, r) = next
      BY <1>1, <2>1 DEF calculateRewards
    <2>. QED  BY <2>8, <2>9
  <1>2. CASE ~(r > 0)
    <2>1. calculateRewards(pos, r) = pos
      BY <1>2 DEF calculateRewards
    <2>. QED  BY <2>1 DEF Earning
  <1>. QED  BY <1>1, <1>2

LEMMA EarningLater ==
  ASSUME NEW pos, NEW exact, NEW now \in Nat, NEW later \in Nat, Earning(pos, now, exact),
         now <= later
  PROVE  Earning(pos, later, exact)
  <1>1. pos.LastReward \in Nat
    BY DEF Earning, Position
  <1>2. pos.LastReward <= later
    BY <1>1 DEF Earning
  <1>. QED  BY <1>2 DEF Earning

\* A new position has earned nothing in no time.
LEMMA StakeEarns ==
  ASSUME RewardsInv, StakeDeduct
  PROVE  RewardsInv'
  <1>1. clock' = clock /\ staking' = NoCall /\ staking \in StakeCall
    BY DEF StakeDeduct, RewardsInv
  <1>a. wrapped' \in BOOLEAN /\ (~wrapped' => ~wrapped)
    BY DEF StakeDeduct, RewardsInv
  <1>b. \A i \in 1 .. Len(positions) : Earning(positions[i], clock, ~wrapped')
    BY <1>a DEF RewardsInv, Earning
  <1>2. CASE staking.owner \in Short
    <2>1. positions' = positions
      BY <1>2 DEF StakeDeduct
    <2>. QED  BY <1>1, <1>a, <1>b, <2>1 DEF RewardsInv
  <1>3. CASE staking.owner \notin Short
    <2>1. PICK pos : pos = [Owner |-> staking.owner, Amount |-> staking.amount,
                            StartTime |-> clock, LastReward |-> clock, TotalRewards |-> 0,
                            IsGreen |-> staking.green, IsActive |-> TRUE]
      OBVIOUS
    <2>2. positions' = Append(positions, pos)
      BY <1>3, <2>1 DEF StakeDeduct
    <2>3. pos \in Position
      BY <1>1, <2>1 DEF StakeCall, Position, RewardsInv
    <2>4. /\ pos.StartTime = clock /\ pos.LastReward = clock /\ pos.TotalRewards = 0
          /\ pos.Amount \in Nat /\ Rate[pos.IsGreen] \in Nat
      BY <2>1, <2>3, StakingAssumption DEF Position
    <2>5. Earning(pos, clock, ~wrapped')
      <3>1. PICK k \in Nat : k = pos.Amount * Rate[pos.IsGreen]
        BY <2>4
      <3>2. PICK u \in Nat, f1 \in Nat, f2 \in Nat : u = RateUnit * Fine /\ f1 = Fine - 1 /\ f2 = Fine + 1
        BY StakingAssumption
      <3>3. clock - clock = 0 /\ clock <= clock /\ (k * f2) * 0 = 0 /\ (k * f1) * 0 = 0
        BY <3>1, <3>2 DEF RewardsInv
      <3>4. 0 * u <= 0 /\ 0 <= (0 + 0) * u
        BY <3>2
      <3>. QED  BY <2>3, <2>4, <3>1, <3>2, <3>3, <3>4 DEF Earning
    <2>6. /\ positions' \in Seq(Position)
          /\ \A i \in 1 .. Len(positions') :
                \/ positions'[i] = pos
                \/ i \in 1 .. Len(positions) /\ positions'[i] = positions[i]
      BY <2>2, <2>3 DEF RewardsInv
    <2>. QED  BY <1>1, <1>a, <1>b, <2>5, <2>6 DEF RewardsInv
  <1>. QED  BY <1>2, <1>3

\* Giving a position up or going through all of them credits what is pending.
LEMMA RoundEarns ==
  ASSUME RewardsInv, clock' = clock, staking' = staking, positions' \in Seq(Position),
         Len(positions') = Len(positions), wrapped' \in BOOLEAN,
         \A i \in 1 .. Len(positions) : Earning(positions'[i], clock, ~wrapped')
  PROVE  RewardsInv'
  BY DEF RewardsInv

LEMMA UnstakeEarns ==
  ASSUME RewardsInv, NEW owner, NEW id, Unstake(owner, id)
  PROVE  RewardsInv'
  <1>1. id \in 1 .. Len(positions) /\ clock' = clock /\ staking' = staking
    BY DEF Unstake
  <1>2. PICK r, pos, x :
            /\ r \in rewards(positions[id])
            /\ pos = calculateRewards(positions[id], r)
            /\ positions' = [positions EXCEPT ![id] = [pos EXCEPT !.IsActive = FALSE]]
            /\ wrapped' = (wrapped \/ ~RewardFits(positions[id], r) \/ ~Fits(owner, x))
    BY DEF Unstake
  <1>a. wrapped' \in BOOLEAN /\ (~wrapped' => ~wrapped /\ RewardFits(positions[id], r))
    BY <1>2 DEF RewardsInv
  <1>3. Earning(pos, clock, ~wrapped')
    <2>1. Earning(positions[id], clock, ~wrapped)
      BY <1>1 DEF RewardsInv
    <2>2. PICK before \in BOOLEAN, after \in BOOLEAN : before = ~wrapped /\ after = ~wrapped'
      OBVIOUS
    <2>3. Earning(positions[id], clock, before) /\ (after => before /\ RewardFits(positions[id], r))
      BY <1>a, <2>1, <2>2
    <2>4. Earning(pos, clock, after)
      BY <1>2, <2>3, StillEarning DEF RewardsInv
    <2>. QED  BY <2>2, <2>4
  <1>4. PICK closed : closed = [pos EXCEPT !.IsActive = FALSE]
    OBVIOUS
  <1>5. positions' = [positions EXCEPT ![id] = closed]
    BY <1>2, <1>4
  <1>6. Earning(closed, clock, ~wrapped')
    <2>1. pos \in Position
      BY <1>3 DEF Earning
    <2>2. closed = [Owner |-> pos.Owner, Amount |-> pos.Amount, StartTime |-> pos.StartTime,
                    LastReward |-> pos.LastReward, TotalRewards |-> pos.TotalRewards,
                    IsGreen |-> pos.IsGreen, IsActive |-> FALSE]
      BY <1>4, <2>1 DEF Position
    <2>3. /\ closed \in Position
          /\ closed.Amount = pos.Amount /\ closed.IsGreen = pos.IsGreen
          /\ closed.StartTime = pos.StartTime /\ closed.LastReward = pos.LastReward
          /\ closed.TotalRewards = pos.TotalRewards
      BY <2>1, <2>2 DEF Position
    <2>. QED  BY <1>3, <2>3 DEF Earning
  <1>7. closed \in Position
    BY <1>6 DEF Earning
  <1>8. /\ positions' \in Seq(Position) /\ Len(positions') = Len(positions)
        /\ \A i \in 1 .. Len(positions) :
              positions'[i] = (IF i = id THEN closed ELSE positions[i])
    BY <1>1, <1>5, <1>7 DEF RewardsInv
  <1>9. \A i \in 1 .. Len(positions) : Earning(positions[i], clock, ~wrapped')
    BY <1>a DEF RewardsInv, Earning
  <1>10. \A i \in 1 .. Len(positions) : Earning(positions'[i], clock, ~wrapped')
    BY <1>6, <1>8, <1>9
  <1>. QED  BY <1>1, <1>a, <1>8, <1>10, RoundEarns

LEMMA LoopEarns ==
  ASSUME RewardsInv, RewardLoop
  PROVE  RewardsInv'
  <1>1. clock' = clock /\ staking' = staking
    BY DEF RewardLoop, stateVars
  <1>2. PICK reward :
            /\ \A i \in 1 .. Len(positions) : reward[i] \in rewards(positions[i])
            /\ positions' = [i \in 1 .. Len(positions) |->
                                IF positions[i].IsActive
                                THEN calculateRewards(positions[i], reward[i]) ELSE positions[i]]
            /\ wrapped' = (wrapped \/ \E i \in 1 .. Len(positions) :
                               positions[i].IsActive /\ ~RewardFits(positions[i], reward[i]))
    BY DEF RewardLoop
  <1>a. wrapped' \in BOOLEAN /\ (~wrapped' => ~wrapped)
    BY <1>2 DEF RewardsInv
  <1>3. ASSUME NEW i \in 1 .. Len(positions) PROVE Earning(positions'[i], clock, ~wrapped')
    <2>1. Earning(positions[i], clock, ~wrapped)
      BY DEF RewardsInv
    <2>2. PICK before \in BOOLEAN, after \in BOOLEAN : before = ~wrapped /\ after = ~wrapped'
      OBVIOUS
    <2>3. CASE positions[i].IsActive
      <3>1. PICK r \in rewards(positions[i]) : r = reward[i]
        BY <1>2
      <3>2. Earning(positions[i], clock, before) /\ (after => before /\ RewardFits(positions[i], r))
        BY <1>2, <1>a, <2>1, <2>2, <2>3, <3>1
      <3>3. Earning(calculateRewards(positions[i], r), clock, after)
        BY <3>2, StillEarning DEF RewardsInv
      <3>. QED  BY <1>2, <2>2, <2>3, <3>1, <3>3
    <2>4. CASE ~positions[i].IsActive
      <3>1. positions'[i] = positions[i]
        BY <1>2, <2>4
      <3>. QED  BY <1>a, <2>1, <3>1 DEF Earning
    <2>. QED  BY <2>3, <2>4
  <1>4. \A i \in 1 .. Len(positions) : positions'[i] \in Position
    BY <1>3 DEF Earning
  <1>5. positions' \in Seq(Position) /\ Len(positions') = Len(positions)
    <2>1. PICK n \in Nat : n = Len(positions)
      BY DEF RewardsInv
    <2>2. positions' = [i \in 1 .. n |-> positions'[i]]
      BY <1>2, <2>1
    <2>. QED  BY <1>4, <2>1, <2>2
  <1>. QED  BY <1>1, <1>a, <1>3, <1>5, RoundEarns

LEMMA RewardsInvHolds == LedgerSpec => []RewardsInv
  <1>1. LedgerInit => RewardsInv
    <2>. SUFFICES ASSUME LedgerInit PROVE RewardsInv
      OBVIOUS
    <2>1. clock = 0 /\ wrapped = FALSE /\ positions = <<>> /\ staking = NoCall
      BY DEF LedgerInit, StateInit, StakingInit
    <2>2. wrapped \in BOOLEAN
      BY <2>1
    <2>3. \A i \in 1 .. Len(positions) : FALSE
      BY <2>1
    <2>4. clock \in Nat /\ positions \in Seq(Position)
      BY <2>1
    <2>. QED  BY <2>1, <2>2, <2>3, <2>4 DEF RewardsInv
  <1>2. RewardsInv /\ [LedgerNext]_ledgerVars => RewardsInv'
    <2>. SUFFICES ASSUME RewardsInv, [LedgerNext]_ledgerVars PROVE RewardsInv'
      OBVIOUS
    <2>1. CASE StakingStep
      <3>1. CASE \E owner \in Address, amount \in Stakes, green \in BOOLEAN :
                    StakeCheck(owner, amount, green)
        <4>1. staking' \in StakeCall
          BY <3>1, LedgerAssumption DEF StakeCheck, StakeCall, Uint64
        <4>2. clock' = clock /\ wrapped' = wrapped /\ positions' = positions
          BY <3>1 DEF StakeCheck, stateVars
        <4>. QED  BY <4>1, <4>2 DEF RewardsInv
      <3>. QED  BY <2>1, <3>1, StakeEarns, UnstakeEarns, LoopEarns DEF StakingStep
    <2>2. CASE Wait
      <3>1. /\ clock' = clock + 1 /\ clock' \in Nat /\ wrapped' = wrapped
            /\ positions' = positions /\ staking' = staking
        BY <2>2 DEF Wait, Hour, stakingVars, RewardsInv
      <3>2. PICK later : later = clock + 1
        OBVIOUS
      <3>3. \A i \in 1 .. Len(positions) : Earning(positions[i], later, ~wrapped)
        BY <3>1, <3>2, EarningLater DEF RewardsInv
      <3>. QED  BY <3>1, <3>2, <3>3 DEF RewardsInv
    <2>3. CASE Die
      <3>1. clock' = clock /\ positions' = <<>> /\ staking' = NoCall /\ wrapped' \in BOOLEAN
        BY <2>3 DEF Die, StateCrash, CrashInTransfer, StakingCrash, RewardsInv
      <3>. QED  BY <3>1 DEF RewardsInv
    <2>4. CASE Start \/ Send \/ CreateBegin \/ CreateEnd \/ Cast \/ Close \/ UNCHANGED ledgerVars
      <3>1. clock' = clock /\ UNCHANGED stakingVars
        BY <2>4 DEF Start, StateStart, Send, SignedTransfer, CreateBegin, CreateCheck, CreateEnd,
                    CreateDeduct, Cast, Vote, Close, ProcessLoop, ledgerVars, stateVars
      <3>2. wrapped' \in BOOLEAN /\ (~wrapped' => ~wrapped)
        BY <2>4 DEF Start, StateStart, Send, SignedTransfer, CreateBegin, CreateCheck, CreateEnd,
                    CreateDeduct, Cast, Vote, Close, ProcessLoop, ledgerVars, stateVars, RewardsInv
      <3>3. \A i \in 1 .. Len(positions) : Earning(positions[i], clock, ~wrapped')
        BY <3>2 DEF RewardsInv, Earning
      <3>. QED  BY <3>1, <3>2, <3>3 DEF stakingVars, RewardsInv
    <2>. QED  BY <2>1, <2>2, <2>3, <2>4 DEF LedgerNext
  <1>. QED  BY <1>1, <1>2, PTL DEF LedgerSpec

(***************************************************************************)
(* Until a sum of rewards or of coins wraps around, no position has earned *)
(* more than its rate for the time it was held, but for what float64 is    *)
(* off, and none is short of it by more than one unit per hour and one,    *)
(* for any rates and stakes, and whenever rewards are computed: interest   *)
(* is simple, it never bears interest.                                     *)
(***************************************************************************)
THEOREM RewardsAreLinearCorrect == LedgerSpec => []RewardsAreLinear
  <1>1. RewardsInv => RewardsAreLinear
    <2>. SUFFICES ASSUME RewardsInv, NEW i \in 1 .. Len(positions), ~wrapped,
                         NEW pending \in PendingRewards(i)
                  PROVE  LET pos    == positions[i]
                             hours  == (IF pos.IsActive THEN clock ELSE pos.LastReward) - pos.StartTime
                             earned == pos.Amount * Rate[pos.IsGreen] * hours
                             given  == pos.TotalRewards + pending
                         IN  /\ given * RateUnit * Fine <= earned * (Fine + 1)
                             /\ earned * (Fine - 1) < (given + hours + 1) * RateUnit * Fine
      BY DEF RewardsAreLinear
    <2>1. PICK pos : pos = positions[i]
      OBVIOUS
    <2>2. clock \in Nat /\ Earning(pos, clock, TRUE)
      BY <2>1 DEF RewardsInv, Earning
    <2>a. /\ pos \in Position /\ pos.TotalRewards \in Nat /\ pos.StartTime \in Nat /\ pos.LastReward \in Nat
          /\ pos.StartTime <= pos.LastReward /\ pos.LastReward <= clock
          /\ pos.Amount \in Nat /\ Rate[pos.IsGreen] \in Nat /\ RateUnit \in Nat \ {0}
          /\ Fine \in Nat \ {0}
      BY <2>2, StakingAssumption DEF Earning, Position
    <2>b. pending \in Nat
      <3>1. CASE pos.IsActive
        <4>1. pending \in rewards(pos)
          BY <2>1, <3>1 DEF PendingRewards
        <4>. QED  BY <2>2, <2>a, <4>1, RewardIsNat
      <3>2. CASE ~pos.IsActive
        BY <2>1, <3>2 DEF PendingRewards
      <3>. QED  BY <3>1, <3>2
    <2>c. PICK hours \in Nat, rate \in Nat, given \in Nat :
              /\ hours = (IF pos.IsActive THEN clock ELSE pos.LastReward) - pos.StartTime
              /\ rate = pos.Amount * Rate[pos.IsGreen]
              /\ given = pos.TotalRewards + pending
      <3>1. (IF pos.IsActive THEN clock ELSE pos.LastReward) - pos.StartTime \in Nat
        BY <2>2, <2>a
      <3>2. pos.Amount * Rate[pos.IsGreen] \in Nat /\ pos.TotalRewards + pending \in Nat
        BY <2>a, <2>b
      <3>. QED  BY <3>1, <3>2
    <2>d. PICK u \in Nat, f \in Nat, f1 \in Nat, f2 \in Nat :
              u = RateUnit /\ f = Fine /\ f1 = Fine - 1 /\ f2 = Fine + 1 /\ u > 0 /\ f > 0
      BY <2>a
    <2>e. /\ given * (u * f) <= (rate * f2) * hours
          /\ (rate * f1) * hours < (given + hours + 1) * (u * f)
      <3>1. CASE pos.IsActive
        <4>1. pending \in rewards(pos)
          BY <2>1, <3>1 DEF PendingRewards
        <4>2. LET rt   == pos.Amount * Rate[pos.IsGreen]
                  held == clock - pos.StartTime
                  all  == pos.TotalRewards + pending
                  unit == RateUnit * Fine
              IN  /\ all * unit <= (rt * (Fine + 1)) * held
                  /\ (rt * (Fine - 1)) * held < (all + held + 1) * unit
          BY <2>2, <4>1, RewardsSoFar
        <4>. QED  BY <2>c, <2>d, <3>1, <4>2
      <3>2. CASE ~pos.IsActive
        <4>1. pending = 0
          BY <2>1, <3>2 DEF PendingRewards
        <4>2. given = pos.TotalRewards /\ hours = pos.LastReward - pos.StartTime
          BY <2>a, <2>c, <3>2, <4>1
        <4>3. given * (u * f) <= (rate * f2) * hours /\ (rate * f1) * hours <= (given + hours) * (u * f)
          BY <2>2, <2>c, <2>d, <4>2 DEF Earning
        <4>4. PICK w \in Nat : w = u * f /\ w > 0
          BY <2>d
        <4>5. (given + hours + 1) * w = (given + hours) * w + w /\ (given + hours) * w \in Nat
          BY <4>4
        <4>6. (rate * f1) * hours \in Nat
          OBVIOUS
        <4>. QED  BY <4>3, <4>4, <4>5, <4>6
      <3>. QED  BY <3>1, <3>2
    <2>f. /\ given * u * f <= (rate * hours) * f2
          /\ (rate * hours) * f1 < (given + hours + 1) * u * f
      <3>1. /\ given * u * f = given * (u * f) /\ (rate * hours) * f2 = (rate * f2) * hours
            /\ (rate * hours) * f1 = (rate * f1) * hours
            /\ (given + hours + 1) * u * f = (given + hours + 1) * (u * f)
        OBVIOUS
      <3>. QED  BY <2>e, <3>1
    <2>. QED  BY <2>1, <2>c, <2>d, <2>f
  <1>. QED  BY <1>1, RewardsInvHolds, PTL

----------------------------------------------------------------------------
(* Proposals.                                                              *)

HasStatus(p) == "Status" \in DOMAIN p

\* Counting a vote, in or out, does not touch the status.
LEMMA TallyKeepsStatus ==
  ASSUME NEW p, NEW option, NEW power, HasStatus(p)
  PROVE  HasStatus(Tally(p, option, power)) /\ Tally(p, option, power).Status = p.Status
  BY DEF Tally, HasStatus

LEMMA VoteKeepsStatus ==
  ASSUME NEW p, NEW voter, NEW option, NEW power, HasStatus(p)
  PROVE  LET q == WithVote(WithoutVote(p, voter), voter, option, power)
         IN  HasStatus(q) /\ q.Status = p.Status
  <1>1. PICK r : r = WithoutVote(p, voter)
    OBVIOUS
  <1>2. HasStatus(r) /\ r.Status = p.Status
    <2>1. CASE r = p
      BY <2>1
    <2>2. CASE r # p
      <3>1. PICK o, w, votes : r = [Tally(p, o, w) EXCEPT !.Votes = votes]
        BY <1>1, <2>2 DEF WithoutVote
      <3>2. PICK t : t = Tally(p, o, w)
        OBVIOUS
      <3>3. HasStatus(t) /\ t.Status = p.Status
        BY <3>2, TallyKeepsStatus
      <3>4. r = [t EXCEPT !.Votes = votes]
        BY <3>1, <3>2
      <3>. QED  BY <3>3, <3>4 DEF HasStatus
    <2>. QED  BY <2>1, <2>2
  <1>3. PICK t : t = Tally(r, option, power)
    OBVIOUS
  <1>4. HasStatus(t) /\ t.Status = r.Status
    BY <1>2, <1>3, TallyKeepsStatus
  <1>5. PICK q : q = WithVote(r, voter, option, power)
    OBVIOUS
  <1>6. PICK votes : q = [t EXCEPT !.Votes = votes]
    BY <1>3, <1>5 DEF WithVote
  <1>7. HasStatus(q) /\ q.Status = t.Status
    BY <1>4, <1>6 DEF HasStatus
  <1>. QED  BY <1>1, <1>2, <1>4, <1>5, <1>7

ProposalInv ==
    /\ Sequential(proposals)
    /\ \A id \in 1 .. Len(proposals) : HasStatus(proposals[id])

\* A step may close a proposal whose period is over, and leaves closed ones alone.
Closing(p, q) ==
    /\ p.Status # q.Status => p.Status = "voting" /\ clock > p.EndTime
    /\ p.Status # "voting" => q = p

ClosingAll == \A id \in 1 .. Len(proposals) : Closing(proposals[id], proposals'[id])

LEMMA CreateCloses ==
  ASSUME ProposalInv, CreateEnd
  PROVE  ProposalInv' /\ ClosingAll
  <1>1. PICK p : /\ p.Status = "voting" /\ HasStatus(p)
                 /\ proposals' = Append(proposals, p)
    BY DEF CreateEnd, CreateDeduct, HasStatus
  <1>2. Sequential(proposals')
    BY <1>1, OneMore DEF ProposalInv
  <1>3. /\ Len(proposals) \in Nat /\ Len(proposals') = Len(proposals) + 1
        /\ proposals'[Len(proposals) + 1] = p
        /\ \A i \in 1 .. Len(proposals) : proposals'[i] = proposals[i]
    BY <1>1, OneMoreAt DEF ProposalInv
  <1>4. \A i \in 1 .. Len(proposals') : i \in 1 .. Len(proposals) \/ i = Len(proposals) + 1
    BY <1>3
  <1>5. \A i \in 1 .. Len(proposals') : HasStatus(proposals'[i])
    BY <1>1, <1>3, <1>4 DEF ProposalInv
  <1>. QED  BY <1>2, <1>3, <1>5 DEF ProposalInv, Sequential, ClosingAll, Closing

\* The same proposals, each with what a step made of it.
LEMMA SameProposals ==
  ASSUME NEW s, NEW t, Sequential(s), DOMAIN t = 1 .. Len(s), t = [i \in DOMAIN t |-> t[i]]
  PROVE  Sequential(t) /\ Len(t) = Len(s)
  <1>1. PICK n \in Nat : n = Len(s)
    BY DEF Sequential
  <1>2. PICK T : T = {t[i] : i \in 1 .. n}
    OBVIOUS
  <1>3. t \in Seq(T) /\ Len(t) = n
    BY <1>1, <1>2
  <1>. QED  BY <1>1, <1>3 DEF Sequential

LEMMA CastCloses ==
  ASSUME ProposalInv, Cast
  PROVE  ProposalInv' /\ ClosingAll
  <1>1. PICK id \in 1 .. Len(proposals), voter \in Address, option \in VoteOption :
            Vote(id, voter, option)
    BY DEF Cast
  <1>2. PICK q : q = WithVote(WithoutVote(proposals[id], voter), voter, option,
                              ToUint64(GetBalance(voter)))
    OBVIOUS
  <1>3. proposals' = [proposals EXCEPT ![id] = q] /\ proposals[id].Status = "voting"
    BY <1>1, <1>2 DEF Vote
  <1>4. HasStatus(q) /\ q.Status = proposals[id].Status
    BY <1>2, VoteKeepsStatus DEF ProposalInv
  <1>5. DOMAIN proposals = 1 .. Len(proposals)
    BY DEF ProposalInv, Sequential
  <1>6. /\ DOMAIN proposals' = 1 .. Len(proposals)
        /\ proposals' = [i \in DOMAIN proposals' |-> proposals'[i]]
        /\ proposals'[id] = q
        /\ \A i \in 1 .. Len(proposals) : i # id => proposals'[i] = proposals[i]
    BY <1>3, <1>5
  <1>7. Sequential(proposals') /\ Len(proposals') = Len(proposals)
    BY <1>6, SameProposals DEF ProposalInv
  <1>8. \A i \in 1 .. Len(proposals') : HasStatus(proposals'[i])
    BY <1>4, <1>6, <1>7 DEF ProposalInv
  <1>9. ClosingAll
    BY <1>3, <1>4, <1>6 DEF ClosingAll, Closing
  <1>. QED  BY <1>7, <1>8, <1>9 DEF ProposalInv, Sequential

LEMMA CloseCloses ==
  ASSUME ProposalInv, Close
  PROVE  ProposalInv' /\ ClosingAll
  <1>1. proposals' = [i \in 1 .. Len(proposals) |->
                        IF i \in Due THEN [proposals[i] EXCEPT !.Status = Outcome(proposals[i])]
                        ELSE proposals[i]]
    BY DEF Close, ProcessLoop
  <1>2. /\ DOMAIN proposals' = 1 .. Len(proposals)
        /\ proposals' = [i \in DOMAIN proposals' |-> proposals'[i]]
    BY <1>1
  <1>3. Sequential(proposals') /\ Len(proposals') = Len(proposals)
    BY <1>2, SameProposals DEF ProposalInv
  <1>4. ASSUME NEW i \in 1 .. Len(proposals)
        PROVE  HasStatus(proposals'[i]) /\ Closing(proposals[i], proposals'[i])
    <2>1. CASE i \in Due
      <3>1. PICK s : proposals'[i] = [proposals[i] EXCEPT !.Status = s]
        BY <1>1, <2>1
      <3>2. HasStatus(proposals'[i])
        BY <3>1 DEF ProposalInv, HasStatus
      <3>. QED  BY <2>1, <3>2 DEF Due, Closing
    <2>2. CASE i \notin Due
      BY <1>1, <2>2 DEF ProposalInv, Closing
    <2>. QED  BY <2>1, <2>2
  <1>5. \A i \in 1 .. Len(proposals') : HasStatus(proposals'[i])
    BY <1>3, <1>4
  <1>. QED  BY <1>3, <1>4, <1>5 DEF ProposalInv, Sequential, ClosingAll

LEMMA OthersClose ==
  ASSUME ProposalInv,
         Start \/ Send \/ StakingStep \/ CreateBegin \/ Wait \/ UNCHANGED ledgerVars
  PROVE  ProposalInv' /\ ClosingAll
  <1>1. proposals' = proposals
    BY DEF Start, Send, StakingStep, CreateBegin, CreateCheck, Wait, ledgerVars, governanceVars
  <1>. QED  BY <1>1 DEF ProposalInv, Sequential, ClosingAll, Closing

(***************************************************************************)
(* A proposal is open for its whole voting period and closed for good      *)
(* after it, whatever is voted, staked and transferred in between and      *)
(* whenever the loop comes by, while the process lives.                    *)
(***************************************************************************)
THEOREM ClosedForGoodCorrect == LedgerSpec => ClosedForGood
  <1>1. LedgerInit => ProposalInv
    BY EmptyLog DEF LedgerInit, GovernanceInit, ProposalInv
  <1>2. ProposalInv /\ [LedgerNext]_ledgerVars => ProposalInv' /\ (running' => ClosingAll)
    <2>1. ProposalInv /\ Die => ProposalInv' /\ ~running'
      BY EmptyLog DEF Die, GovernanceCrash, ProposalInv, Sequential
    <2>. QED  BY <2>1, CreateCloses, CastCloses, CloseCloses, OthersClose DEF LedgerNext
  <1>3. (running' => ClosingAll) =>
          [running' => \A id \in 1 .. Len(proposals) :
             LET p == proposals[id]
                 q == proposals'[id]
             IN  /\ p.Status # q.Status => p.Status = "voting" /\ clock > p.EndTime
                 /\ p.Status # "voting" => q = p]_ledgerVars
    BY DEF ClosingAll, Closing
  <1>. QED  BY <1>1, <1>2, <1>3, PTL DEF LedgerSpec, ClosedForGood

----------------------------------------------------------------------------
(* Votes and their weights.                                                *)

\* What each vote counts for the options of a set.
Weights(votes, options) ==
    [i \in 1 .. Len(votes) |-> IF votes[i].Option \in options THEN votes[i].Power ELSE 0]

PowerIn(votes, options) == SumFunctionOnSet(Weights(votes, options), 1 .. Len(votes))

Weight(vote, options) == IF vote.Option \in options THEN vote.Power ELSE 0

LEMMA PowerOfIs ==
  ASSUME NEW p, NEW options
  PROVE  PowerOf(p, options) = PowerIn(p.Votes, options)
  BY DEF PowerOf, PowerIn, Weights, SumFunction

LEMMA WeightsAreTerms ==
  ASSUME NEW votes \in Seq(VoteRecord), NEW options
  PROVE  /\ Terms(Weights(votes, options), 1 .. Len(votes))
         /\ \A i \in 1 .. Len(votes) : /\ Weights(votes, options)[i] >= 0
                                       /\ Weights(votes, options)[i] = Weight(votes[i], options)
  <1>1. IsFiniteSet(1 .. Len(votes))
    BY FS_Interval
  <1>2. \A i \in 1 .. Len(votes) : votes[i].Power \in Nat
    <2>. SUFFICES ASSUME NEW i \in 1 .. Len(votes) PROVE votes[i].Power \in Nat
      OBVIOUS
    <2>1. votes[i] \in VoteRecord
      OBVIOUS
    <2>. QED  BY <2>1 DEF VoteRecord
  <1>. QED  BY <1>1, <1>2 DEF Terms, Weights, Weight

LEMMA PowerInNat ==
  ASSUME NEW votes \in Seq(VoteRecord), NEW options
  PROVE  PowerIn(votes, options) \in Nat
  <1>1. PICK w : w = Weights(votes, options)
    OBVIOUS
  <1>2. Terms(w, 1 .. Len(votes)) /\ \A i \in 1 .. Len(votes) : w[i] >= 0
    BY <1>1, WeightsAreTerms
  <1>3. SumFunctionOnSet(w, 1 .. Len(votes)) \in Nat
    BY <1>2, SumNat
  <1>. QED  BY <1>1, <1>3 DEF PowerIn

\* More options, more power.
LEMMA PowerMonotone ==
  ASSUME NEW votes \in Seq(VoteRecord), NEW few, NEW many, few \subseteq many
  PROVE  PowerIn(votes, few) <= PowerIn(votes, many)
  <1>1. PICK f, g, S : f = Weights(votes, few) /\ g = Weights(votes, many) /\ S = 1 .. Len(votes)
    OBVIOUS
  <1>2. /\ Terms(f, S) /\ Terms(g, S)
        /\ \A i \in S : /\ f[i] >= 0 /\ g[i] >= 0
                        /\ f[i] = Weight(votes[i], few) /\ g[i] = Weight(votes[i], many)
    BY <1>1, WeightsAreTerms
  <1>3. \A i \in S : f[i] <= g[i]
    BY <1>2 DEF Weight, Terms
  <1>4. SumFunctionOnSet(f, S) <= SumFunctionOnSet(g, S)
    BY <1>2, <1>3, SumMonotone DEF NoMoreThan
  <1>. QED  BY <1>1, <1>4 DEF PowerIn

\* The sum over a sequence that is one longer.
LEMMA PowerAppend ==
  ASSUME NEW votes \in Seq(VoteRecord), NEW v \in VoteRecord, NEW options
  PROVE  PowerIn(Append(votes, v), options) = PowerIn(votes, options) + Weight(v, options)
  <1>1. PICK more : more = Append(votes, v)
    OBVIOUS
  <1>2. PICK n \in Nat : n = Len(votes)
    OBVIOUS
  <1>3. /\ more \in Seq(VoteRecord) /\ Len(more) = n + 1 /\ more[n + 1] = v
        /\ \A i \in 1 .. n : more[i] = votes[i]
    BY <1>1, <1>2
  <1>4. PICK w, x : w = Weights(votes, options) /\ x = Weights(more, options)
    OBVIOUS
  <1>5. /\ Terms(w, 1 .. n) /\ Terms(x, 1 .. n + 1) /\ x[n + 1] = Weight(v, options)
        /\ \A i \in 1 .. n : w[i] = x[i]
    BY <1>2, <1>3, <1>4, WeightsAreTerms
  <1>6. 1 .. n + 1 = (1 .. n) \cup {n + 1} /\ n + 1 \notin 1 .. n
    BY <1>2
  <1>7. SumFunctionOnSet(x, (1 .. n) \cup {n + 1}) = x[n + 1] + SumFunctionOnSet(x, 1 .. n)
    BY <1>5, <1>6, SumAdd
  <1>8. SumFunctionOnSet(x, 1 .. n) = SumFunctionOnSet(w, 1 .. n)
    BY <1>5, SumSame DEF Terms
  <1>9. SumFunctionOnSet(w, 1 .. n) = PowerIn(votes, options) /\ PowerIn(votes, options) \in Nat
    BY <1>2, <1>4, PowerInNat DEF PowerIn
  <1>10. PowerIn(more, options) = SumFunctionOnSet(x, 1 .. n + 1)
    BY <1>3, <1>4 DEF PowerIn
  <1>11. Weight(v, options) \in Nat
    BY DEF Weight, VoteRecord
  <1>12. PICK a \in Nat, b \in Nat : a = PowerIn(votes, options) /\ b = Weight(v, options)
    BY <1>9, <1>11
  <1>13. PowerIn(more, options) = b + a
    BY <1>5, <1>6, <1>7, <1>8, <1>9, <1>10, <1>12
  <1>. QED  BY <1>1, <1>12, <1>13

LEMMA Removed ==
  ASSUME NEW S, NEW s \in Seq(S), NEW k \in 1 .. Len(s)
  PROVE  /\ RemoveAt(s, k) \in Seq(S) /\ Len(RemoveAt(s, k)) = Len(s) - 1
         /\ \A i \in 1 .. Len(s) - 1 : RemoveAt(s, k)[i] = s[IF i < k THEN i ELSE i + 1]
  <1>1. PICK a, b : a = SubSeq(s, 1, k - 1) /\ b = SubSeq(s, k + 1, Len(s))
    OBVIOUS
  <1>2. /\ a \in Seq(S) /\ Len(a) = k - 1
        /\ \A i \in 1 .. k - 1 : a[i] = s[i]
    BY <1>1
  <1>3. /\ b \in Seq(S) /\ Len(b) = Len(s) - k
        /\ \A i \in 1 .. Len(s) - k : b[i] = s[k + i]
    BY <1>1
  <1>4. RemoveAt(s, k) = a \o b
    BY <1>1 DEF RemoveAt
  <1>5. a \o b \in Seq(S) /\ Len(a \o b) = Len(s) - 1
    <2>1. a \in Seq(S) /\ b \in Seq(S)
      BY <1>2, <1>3
    <2>2. a \o b \in Seq(S) /\ Len(a \o b) = Len(a) + Len(b)
      BY <2>1
    <2>3. Len(s) \in Nat
      OBVIOUS
    <2>. QED  BY <1>2, <1>3, <2>2, <2>3
  <1>6. ASSUME NEW i \in 1 .. Len(s) - 1 PROVE (a \o b)[i] = s[IF i < k THEN i ELSE i + 1]
    <2>1. CASE i < k
      BY <1>2, <1>3, <2>1
    <2>2. CASE ~(i < k)
      <3>1. (a \o b)[i] = b[i - Len(a)]
        BY <1>2, <1>3, <2>2
      <3>2. i - Len(a) \in 1 .. Len(s) - k /\ k + (i - Len(a)) = i + 1
        BY <1>2, <2>2
      <3>. QED  BY <1>3, <2>2, <3>1, <3>2
    <2>. QED  BY <2>1, <2>2
  <1>. QED  BY <1>4, <1>5, <1>6

\* The sum over a sequence without one of its places.
LEMMA PowerRemove ==
  ASSUME NEW votes \in Seq(VoteRecord), NEW k \in 1 .. Len(votes), NEW options
  PROVE  PowerIn(RemoveAt(votes, k), options) + Weight(votes[k], options) = PowerIn(votes, options)
  <1>1. PICK n \in Nat : n = Len(votes)
    OBVIOUS
  <1>2. PICK less : less = RemoveAt(votes, k)
    OBVIOUS
  <1>3. PICK h : h = [i \in 1 .. n - 1 |-> IF i < k THEN i ELSE i + 1]
    OBVIOUS
  <1>4. /\ less \in Seq(VoteRecord) /\ Len(less) = n - 1
        /\ \A i \in 1 .. n - 1 : less[i] = votes[h[i]]
    BY <1>1, <1>2, <1>3, Removed
  <1>5. PICK w, x : w = Weights(votes, options) /\ x = Weights(less, options)
    OBVIOUS
  <1>6. /\ Terms(w, 1 .. n) /\ Terms(x, 1 .. n - 1)
        /\ w[k] = Weight(votes[k], options)
        /\ \A i \in 1 .. n : w[i] = Weight(votes[i], options)
        /\ \A i \in 1 .. n - 1 : x[i] = Weight(less[i], options)
    BY <1>1, <1>4, <1>5, WeightsAreTerms
  <1>7. \A i \in 1 .. n - 1 : h[i] \in 1 .. n
    BY <1>1, <1>3
  <1>8. Renames(w, x, h, 1 .. n - 1)
    <2>1. \A i, j \in 1 .. n - 1 : h[i] = h[j] => i = j
      BY <1>1, <1>3
    <2>. QED  BY <1>4, <1>6, <1>7, <2>1 DEF Renames
  <1>9. Named(h, 1 .. n - 1) = (1 .. n) \ {k}
    <2>1. ASSUME NEW j \in (1 .. n) \ {k} PROVE \E i \in 1 .. n - 1 : j = h[i]
      <3>1. CASE j < k
        <4>1. j \in 1 .. n - 1 /\ h[j] = j
          BY <1>1, <1>3, <2>1, <3>1
        <4>. QED  BY <4>1
      <3>2. CASE j > k
        <4>1. j - 1 \in 1 .. n - 1 /\ h[j - 1] = j
          BY <1>1, <1>3, <2>1, <3>2
        <4>. QED  BY <4>1
      <3>. QED  BY <1>1, <2>1, <3>1, <3>2
    <2>2. \A i \in 1 .. n - 1 : h[i] \in (1 .. n) \ {k}
      BY <1>1, <1>3
    <2>. QED  BY <2>1, <2>2 DEF Named
  <1>10. SumFunctionOnSet(x, 1 .. n - 1) = SumFunctionOnSet(w, (1 .. n) \ {k})
    <2>1. SumFunctionOnSet(x, 1 .. n - 1) = SumFunctionOnSet(w, Named(h, 1 .. n - 1))
      BY <1>6, <1>8, SumRenamed
    <2>. QED  BY <1>9, <2>1
  <1>11. SumFunctionOnSet(w, 1 .. n) = w[k] + SumFunctionOnSet(w, (1 .. n) \ {k})
    <2>1. PICK all, y : all = 1 .. n /\ y = k
      OBVIOUS
    <2>2. y \in all /\ Terms(w, all)
      BY <1>1, <1>6, <2>1
    <2>3. SumFunctionOnSet(w, all) = w[y] + SumFunctionOnSet(w, Without(all, y))
      BY <2>2, SumWithout
    <2>. QED  BY <2>1, <2>3 DEF Without
  <1>12. PowerIn(votes, options) = SumFunctionOnSet(w, 1 .. n)
         /\ PowerIn(less, options) = SumFunctionOnSet(x, 1 .. n - 1)
    BY <1>1, <1>4, <1>5 DEF PowerIn
  <1>13. PICK a \in Nat, b \in Nat : a = PowerIn(less, options) /\ b = w[k]
    <2>1. PowerIn(less, options) \in Nat
      BY <1>4, PowerInNat
    <2>2. w[k] \in Int /\ w[k] >= 0
      BY <1>1, <1>5, WeightsAreTerms DEF Terms
    <2>. QED  BY <2>1, <2>2
  <1>14. PowerIn(votes, options) = b + a
    BY <1>10, <1>11, <1>12, <1>13
  <1>15. PowerIn(less, options) + Weight(votes[k], options) = a + b
    BY <1>6, <1>13
  <1>. QED  BY <1>2, <1>13, <1>14, <1>15

OneEach(votes) ==
    \A i, j \in 1 .. Len(votes) : votes[i].Voter = votes[j].Voter => i = j

\* The tallies are the sums, as uint64, of the votes on record.
Tallied(p) ==
    /\ p \in Proposal
    /\ \A o \in VoteOption \ {"other"} : p.Power[o] = ToUint64(PowerIn(p.Votes, {o}))
    /\ p.TotalPower = ToUint64(PowerIn(p.Votes, VoteOption))
    /\ OneEach(p.Votes)

\* A closed proposal has the outcome of its tallies.
Settled(p) == p.Status # "voting" => p.Status = Outcome(p)

\* q is p with these votes, and x more power for one option.
Recounted(p, q, votes, option, x) ==
    /\ q = [Proposer |-> p.Proposer, Deposit |-> p.Deposit, Status |-> p.Status,
            EndTime |-> p.EndTime, Votes |-> votes, Power |-> q.Power,
            TotalPower |-> ToUint64(p.TotalPower + x)]
    /\ q.Power = [o \in VoteOption |->
                    IF o = option /\ o # "other" THEN ToUint64(p.Power[o] + x) ELSE p.Power[o]]

\* What no vote changes.
SameTerms(p, q) ==
    /\ q.Status = p.Status /\ q.EndTime = p.EndTime
    /\ q.Proposer = p.Proposer /\ q.Deposit = p.Deposit

LEMMA TallyCounts ==
  ASSUME NEW p \in Proposal, NEW option \in VoteOption, NEW x \in Int, NEW votes,
         NEW q, q = [Tally(p, option, x) EXCEPT !.Votes = votes]
  PROVE  Recounted(p, q, votes, option, x)
  <1>1. PICK power : power = [p.Power EXCEPT ![option] =
                                IF option = "other" THEN @ ELSE ToUint64(@ + x)]
    OBVIOUS
  <1>2. PICK total : total = ToUint64(p.TotalPower + x)
    OBVIOUS
  <1>3. PICK t : t = Tally(p, option, x)
    OBVIOUS
  <1>4. t = [Proposer |-> p.Proposer, Deposit |-> p.Deposit, Status |-> p.Status,
             EndTime |-> p.EndTime, Votes |-> p.Votes, Power |-> power, TotalPower |-> total]
    BY <1>1, <1>2, <1>3 DEF Tally, Proposal
  <1>5. q = [t EXCEPT !.Votes = votes]
    BY <1>3
  <1>6. q = [Proposer |-> p.Proposer, Deposit |-> p.Deposit, Status |-> p.Status,
             EndTime |-> p.EndTime, Votes |-> votes, Power |-> power, TotalPower |-> total]
    BY <1>4, <1>5
  <1>7. p.Power \in [VoteOption -> Nat]
    BY DEF Proposal
  <1>8. power = [o \in VoteOption |->
                   IF o = option /\ o # "other" THEN ToUint64(p.Power[o] + x) ELSE p.Power[o]]
    BY <1>1, <1>7
  <1>9. q.Power = power
    BY <1>6
  <1>. QED  BY <1>2, <1>6, <1>8, <1>9 DEF Recounted

\* Tallies stay the sums of the votes when both change by the weight of one vote.
LEMMA CountedTallies ==
  ASSUME NEW p, Tallied(p), NEW option \in VoteOption, NEW x \in Int,
         NEW votes \in Seq(VoteRecord), OneEach(votes),
         \A options : PowerIn(votes, options)
                        = PowerIn(p.Votes, options) + (IF option \in options THEN x ELSE 0),
         NEW q, Recounted(p, q, votes, option, x)
  PROVE  Tallied(q) /\ q.Votes = votes /\ SameTerms(p, q)
  <1>1. /\ p \in Proposal /\ p.Power \in [VoteOption -> Nat] /\ p.TotalPower \in Nat
        /\ p.Votes \in Seq(VoteRecord)
    BY DEF Tallied, Proposal
  <1>2. /\ q.Votes = votes /\ SameTerms(p, q)
        /\ q.TotalPower = ToUint64(p.TotalPower + x)
        /\ q.Power = [o \in VoteOption |->
                        IF o = option /\ o # "other" THEN ToUint64(p.Power[o] + x) ELSE p.Power[o]]
    <2>1. PICK power : power = q.Power
      OBVIOUS
    <2>2. q = [Proposer |-> p.Proposer, Deposit |-> p.Deposit, Status |-> p.Status,
               EndTime |-> p.EndTime, Votes |-> votes, Power |-> power,
               TotalPower |-> ToUint64(p.TotalPower + x)]
      BY <2>1 DEF Recounted
    <2>. QED  BY <2>2 DEF Recounted, SameTerms
  <1>3. q.TotalPower = ToUint64(PowerIn(votes, VoteOption))
    <2>1. PICK a \in Int : a = PowerIn(p.Votes, VoteOption)
      BY <1>1, PowerInNat
    <2>2. PowerIn(votes, VoteOption) = a + x
      BY <2>1
    <2>3. p.TotalPower = ToUint64(a)
      BY <2>1 DEF Tallied
    <2>4. ToUint64(ToUint64(a) + x) = ToUint64(a + x)
      BY SumAsUint64
    <2>. QED  BY <1>2, <2>2, <2>3, <2>4
  <1>4. \A o \in VoteOption : q.Power[o] =
            IF o = option /\ o # "other" THEN ToUint64(p.Power[o] + x) ELSE p.Power[o]
    BY <1>2
  <1>5. ASSUME NEW o \in VoteOption \ {"other"} PROVE q.Power[o] = ToUint64(PowerIn(votes, {o}))
    <2>1. PICK a \in Int : a = PowerIn(p.Votes, {o})
      BY <1>1, PowerInNat
    <2>2. PowerIn(votes, {o}) = a + (IF option \in {o} THEN x ELSE 0)
      BY <2>1
    <2>3. p.Power[o] = ToUint64(a)
      BY <2>1 DEF Tallied
    <2>4. CASE o = option
      <3>1. ToUint64(ToUint64(a) + x) = ToUint64(a + x)
        BY SumAsUint64
      <3>2. PowerIn(votes, {o}) = a + x
        BY <2>2, <2>4
      <3>. QED  BY <1>4, <2>3, <2>4, <3>1, <3>2
    <2>5. CASE o # option
      BY <1>4, <2>2, <2>3, <2>5
    <2>. QED  BY <2>4, <2>5
  <1>6. q.TotalPower \in Nat /\ \A o \in VoteOption : q.Power[o] \in Nat
    <2>1. ToUint64(p.TotalPower + x) \in Nat
      BY <1>1, AsUint64
    <2>2. ASSUME NEW o \in VoteOption PROVE q.Power[o] \in Nat
      <3>1. ToUint64(p.Power[o] + x) \in Nat
        BY <1>1, AsUint64
      <3>. QED  BY <1>1, <1>4, <3>1
    <2>. QED  BY <1>2, <2>1, <2>2
  <1>7. q \in Proposal
    <2>1. q.Power \in [VoteOption -> Nat]
      BY <1>2, <1>6
    <2>2. PICK power, total : power = q.Power /\ total = ToUint64(p.TotalPower + x) /\ total \in Nat
      BY <1>2, <1>6
    <2>3. q = [Proposer |-> p.Proposer, Deposit |-> p.Deposit, Status |-> p.Status,
               EndTime |-> p.EndTime, Votes |-> votes, Power |-> power, TotalPower |-> total]
      BY <2>2 DEF Recounted
    <2>. QED  BY <1>1, <2>1, <2>2, <2>3 DEF Proposal
  <1>. QED  BY <1>2, <1>3, <1>5, <1>7 DEF Tallied

NoVoteOf(votes, voter) == \A i \in 1 .. Len(votes) : votes[i].Voter # voter

\* Taking out the one vote that a voter may have.
LEMMA WithoutVoteTallied ==
  ASSUME NEW p, Tallied(p), NEW voter
  PROVE  LET q == WithoutVote(p, voter)
         IN  /\ Tallied(q) /\ NoVoteOf(q.Votes, voter)
             /\ SameTerms(p, q)
  <1>1. p \in Proposal /\ p.Votes \in Seq(VoteRecord)
    BY DEF Tallied, Proposal
  <1>2. PICK own : own = {i \in 1 .. Len(p.Votes) : p.Votes[i].Voter = voter}
    OBVIOUS
  <1>3. PICK q : q = WithoutVote(p, voter)
    OBVIOUS
  <1>4. CASE own = {}
    <2>1. q = p
      BY <1>2, <1>3, <1>4 DEF WithoutVote
    <2>2. NoVoteOf(p.Votes, voter)
      BY <1>2, <1>4 DEF NoVoteOf
    <2>. QED  BY <1>3, <2>1, <2>2 DEF SameTerms
  <1>5. CASE own # {}
    <2>1. PICK k \in 1 .. Len(p.Votes) : p.Votes[k].Voter = voter
      BY <1>2, <1>5
    <2>2. own = {k}
      BY <1>2, <2>1 DEF Tallied, OneEach
    <2>3. Min(own) = k
      BY <2>2 DEF Min
    <2>4. PICK v : v = p.Votes[k] /\ v \in VoteRecord
      BY <1>1, <2>1
    <2>5. PICK votes : votes = RemoveAt(p.Votes, k)
      OBVIOUS
    <2>6. PICK n \in Nat : n = Len(p.Votes)
      BY <1>1
    <2>7. /\ votes \in Seq(VoteRecord) /\ Len(votes) = n - 1
          /\ \A i \in 1 .. n - 1 : votes[i] = p.Votes[IF i < k THEN i ELSE i + 1]
      BY <1>1, <2>1, <2>5, <2>6, Removed
    <2>8. \A i \in 1 .. n - 1 : \E m \in 1 .. n :
             /\ m # k /\ votes[i] = p.Votes[m]
             /\ m = IF i < k THEN i ELSE i + 1
      <3>. SUFFICES ASSUME NEW i \in 1 .. n - 1
                    PROVE  \E m \in 1 .. n : /\ m # k /\ votes[i] = p.Votes[m]
                                             /\ m = IF i < k THEN i ELSE i + 1
        OBVIOUS
      <3>1. PICK m : m = IF i < k THEN i ELSE i + 1
        OBVIOUS
      <3>2. m \in 1 .. n /\ m # k
        BY <2>1, <2>6, <3>1
      <3>. QED  BY <2>7, <3>1, <3>2
    <2>9. OneEach(votes)
      <3>. SUFFICES ASSUME NEW i \in 1 .. n - 1, NEW j \in 1 .. n - 1,
                           votes[i].Voter = votes[j].Voter
                    PROVE  i = j
        BY <2>7 DEF OneEach
      <3>1. PICK a \in 1 .. n : votes[i] = p.Votes[a] /\ a = IF i < k THEN i ELSE i + 1
        BY <2>8
      <3>2. PICK b \in 1 .. n : votes[j] = p.Votes[b] /\ b = IF j < k THEN j ELSE j + 1
        BY <2>8
      <3>3. a = b
        BY <2>6, <3>1, <3>2 DEF Tallied, OneEach
      <3>. QED  BY <2>1, <2>6, <3>1, <3>2, <3>3
    <2>10. NoVoteOf(votes, voter)
      <3>. SUFFICES ASSUME NEW i \in 1 .. n - 1 PROVE votes[i].Voter # voter
        BY <2>7 DEF NoVoteOf
      <3>1. PICK m \in 1 .. n : m # k /\ votes[i] = p.Votes[m]
        BY <2>8
      <3>. QED  BY <1>2, <2>2, <2>6, <3>1
    <2>11. v.Option \in VoteOption /\ v.Power \in Nat
      BY <2>4 DEF VoteRecord
    <2>12. ASSUME NEW options
           PROVE  PowerIn(votes, options)
                    = PowerIn(p.Votes, options) + (IF v.Option \in options THEN -v.Power ELSE 0)
      <3>1. PowerIn(votes, options) + Weight(v, options) = PowerIn(p.Votes, options)
        BY <1>1, <2>1, <2>4, <2>5, PowerRemove
      <3>2. PICK a \in Nat, b \in Nat : a = PowerIn(votes, options) /\ b = PowerIn(p.Votes, options)
        BY <1>1, <2>7, PowerInNat
      <3>3. CASE v.Option \in options
        BY <2>11, <3>1, <3>2, <3>3 DEF Weight
      <3>4. CASE v.Option \notin options
        BY <2>11, <3>1, <3>2, <3>4 DEF Weight
      <3>. QED  BY <3>3, <3>4
    <2>13. PICK x \in Int : x = -v.Power
      BY <2>11
    <2>14. q = [Tally(p, v.Option, x) EXCEPT !.Votes = votes]
      <3>1. q = [Tally(p, v.Option, x) EXCEPT !.Votes = RemoveAt(@, k)]
        BY <1>2, <1>3, <1>5, <2>3, <2>4, <2>13 DEF WithoutVote
      <3>2. PICK t : t = Tally(p, v.Option, x)
        OBVIOUS
      <3>3. t.Votes = p.Votes
        BY <1>1, <3>2 DEF Tally, Proposal
      <3>. QED  BY <2>5, <3>1, <3>2, <3>3
    <2>15. Recounted(p, q, votes, v.Option, x)
      BY <1>1, <2>11, <2>14, TallyCounts
    <2>16. \A options : PowerIn(votes, options)
                          = PowerIn(p.Votes, options) + (IF v.Option \in options THEN x ELSE 0)
      BY <2>12, <2>13
    <2>17. Tallied(q) /\ q.Votes = votes /\ SameTerms(p, q)
      BY <2>7, <2>9, <2>11, <2>15, <2>16, CountedTallies
    <2>. QED  BY <1>3, <2>10, <2>17
  <1>. QED  BY <1>4, <1>5

LEMMA WithVoteTallied ==
  ASSUME NEW p, Tallied(p), NEW voter \in Address, NEW option \in VoteOption, NEW power \in Nat,
         NoVoteOf(p.Votes, voter)
  PROVE  LET q == WithVote(p, voter, option, power)
         IN  Tallied(q) /\ SameTerms(p, q)
  <1>1. p \in Proposal /\ p.Votes \in Seq(VoteRecord)
    BY DEF Tallied, Proposal
  <1>2. PICK v : v = [Voter |-> voter, Option |-> option, Power |-> power] /\ v \in VoteRecord
    <2>1. [Voter |-> voter, Option |-> option, Power |-> power] \in VoteRecord
      BY DEF VoteRecord
    <2>. QED  BY <2>1
  <1>3. PICK q : q = WithVote(p, voter, option, power)
    OBVIOUS
  <1>4. PICK votes : votes = Append(p.Votes, v)
    OBVIOUS
  <1>5. PICK n \in Nat : n = Len(p.Votes)
    BY <1>1
  <1>6. /\ votes \in Seq(VoteRecord) /\ Len(votes) = n + 1 /\ votes[n + 1] = v
        /\ \A i \in 1 .. n : votes[i] = p.Votes[i]
    BY <1>1, <1>2, <1>4, <1>5
  <1>7. OneEach(votes)
    <2>. SUFFICES ASSUME NEW i \in 1 .. n + 1, NEW j \in 1 .. n + 1,
                         votes[i].Voter = votes[j].Voter
                  PROVE  i = j
      BY <1>6 DEF OneEach
    <2>1. v.Voter = voter
      BY <1>2
    <2>2. \A m \in 1 .. n : votes[m].Voter # voter
      BY <1>5, <1>6 DEF NoVoteOf
    <2>3. CASE i \in 1 .. n /\ j \in 1 .. n
      BY <1>5, <1>6, <2>3 DEF Tallied, OneEach
    <2>4. CASE i = n + 1 \/ j = n + 1
      BY <1>5, <1>6, <2>1, <2>2, <2>4
    <2>. QED  BY <1>5, <2>3, <2>4
  <1>8. \A options : PowerIn(votes, options)
                       = PowerIn(p.Votes, options) + (IF option \in options THEN power ELSE 0)
    <2>. SUFFICES ASSUME NEW options
                  PROVE  PowerIn(votes, options)
                           = PowerIn(p.Votes, options) + (IF option \in options THEN power ELSE 0)
      OBVIOUS
    <2>1. PowerIn(votes, options) = PowerIn(p.Votes, options) + Weight(v, options)
      BY <1>1, <1>2, <1>4, PowerAppend
    <2>2. Weight(v, options) = IF option \in options THEN power ELSE 0
      BY <1>2 DEF Weight
    <2>. QED  BY <2>1, <2>2
  <1>9. q = [Tally(p, option, power) EXCEPT !.Votes = votes]
    <2>1. q = [Tally(p, option, power) EXCEPT !.Votes = Append(@, v)]
      BY <1>2, <1>3 DEF WithVote
    <2>2. PICK t : t = Tally(p, option, power)
      OBVIOUS
    <2>3. t.Votes = p.Votes
      BY <1>1, <2>2 DEF Tally, Proposal
    <2>. QED  BY <1>4, <2>1, <2>2, <2>3
  <1>10. Recounted(p, q, votes, option, power)
    BY <1>1, <1>9, TallyCounts
  <1>11. Tallied(q) /\ SameTerms(p, q)
    BY <1>6, <1>7, <1>8, <1>10, CountedTallies
  <1>. QED  BY <1>3, <1>11


----------------------------------------------------------------------------
(* Types.                                                                  *)

(***************************************************************************)
(* Every proposal has the tallies of its votes, and once closed the        *)
(* outcome of its tallies.                                                 *)
(***************************************************************************)
VotesInv ==
    /\ proposals \in Seq(Proposal)
    /\ \A id \in 1 .. Len(proposals) : Tallied(proposals[id]) /\ Settled(proposals[id])

AccountsOK(accs) ==
    /\ DOMAIN accs \subseteq Address /\ IsFiniteSet(DOMAIN accs)
    /\ \A a \in DOMAIN accs : accs[a] \in Account

FileOK(file) ==
    /\ AccountsOK(file.accounts)
    /\ file.readable \in BOOLEAN /\ file.txs \in Seq(Transaction)

TypesInv ==
    /\ AccountsOK(accounts) /\ txs \in Seq(Transaction) /\ FileOK(stateFile)
    /\ creating \in CreateCall \cup {NoCall}
    /\ running \in BOOLEAN
    /\ confirmed \subseteq Transaction
    /\ casts \in Nat /\ boots \in Nat

LEMMA NoAccountsOK == AccountsOK(<<>>)
  BY FS_EmptySet DEF AccountsOK

LEMMA CreditTypes ==
  ASSUME NEW accs, AccountsOK(accs), NEW a, NEW x \in Int
  PROVE  /\ AccountsOK(Credit(accs, a, x)) /\ DOMAIN Credit(accs, a, x) = DOMAIN accs
         /\ \A b \in DOMAIN accs : /\ Credit(accs, a, x)[b].Nonce = accs[b].Nonce
                                   /\ Credit(accs, a, x)[b].Balance
                                        = IF b = a THEN ToInt64(accs[b].Balance + x)
                                          ELSE accs[b].Balance
  <1>1. PICK next : next = Credit(accs, a, x)
    OBVIOUS
  <1>2. /\ DOMAIN next = DOMAIN accs
        /\ \A b \in DOMAIN accs :
              next[b] = IF b = a THEN [accs[b] EXCEPT !.Balance = ToInt64(@ + x)] ELSE accs[b]
    BY <1>1 DEF Credit
  <1>3. ASSUME NEW b \in DOMAIN accs
        PROVE  /\ next[b] \in Account /\ next[b].Nonce = accs[b].Nonce
               /\ next[b].Balance = IF b = a THEN ToInt64(accs[b].Balance + x) ELSE accs[b].Balance
    <2>1. PICK d \in Account : d = accs[b]
      BY DEF AccountsOK
    <2>2. /\ d = [Balance |-> d.Balance, Nonce |-> d.Nonce] /\ d.Balance \in Int64
          /\ d.Balance \in Int /\ d.Nonce \in Nat
      BY <2>1, WordTypes DEF Account
    <2>3. CASE b = a
      <3>1. next[b] = [d EXCEPT !.Balance = ToInt64(@ + x)]
        BY <1>2, <2>1, <2>3
      <3>2. PICK y \in Int64 : y = ToInt64(d.Balance + x)
        BY <2>2, AsInt64
      <3>3. next[b] = [Balance |-> y, Nonce |-> d.Nonce]
        BY <2>2, <3>1, <3>2
      <3>4. next[b] \in Account
        BY <2>2, <3>2, <3>3 DEF Account
      <3>. QED  BY <2>1, <2>3, <3>2, <3>3, <3>4
    <2>4. CASE b # a
      BY <1>2, <2>1, <2>2, <2>4
    <2>. QED  BY <2>3, <2>4
  <1>4. AccountsOK(next)
    BY <1>2, <1>3 DEF AccountsOK
  <1>. QED  BY <1>1, <1>2, <1>3, <1>4

LEMMA OpenedTypes ==
  ASSUME NEW accs, AccountsOK(accs), NEW new \in SUBSET Address, IsFiniteSet(new),
         NEW amount, \A a \in new : amount[a] \in Int64
  PROVE  AccountsOK(Opened(accs, new, amount))
  <1>1. PICK all : all = Opened(accs, new, amount)
    OBVIOUS
  <1>2. /\ DOMAIN all = DOMAIN accs \cup new
        /\ \A a \in DOMAIN accs : all[a] = accs[a]
        /\ \A a \in new \ DOMAIN accs : all[a] = [Balance |-> amount[a], Nonce |-> 0]
    BY <1>1 DEF Opened
  <1>3. \A a \in new \ DOMAIN accs : all[a] \in Account
    BY <1>2 DEF Account
  <1>4. IsFiniteSet(DOMAIN all)
    BY <1>2, FS_Union DEF AccountsOK
  <1>5. \A a \in DOMAIN all : all[a] \in Account
    BY <1>2, <1>3 DEF AccountsOK
  <1>6. AccountsOK(all)
    BY <1>2, <1>4, <1>5 DEF AccountsOK
  <1>. QED  BY <1>1, <1>6

LEMMA PaidTypes ==
  ASSUME AccountsOK(accounts), NEW from \in DOMAIN accounts, NEW to \in Address,
         NEW amount \in Int64, NEW fee \in Int64
  PROVE  AccountsOK(Paid(from, to, amount, fee))
  <1>1. PICK with : with = WithAccount(accounts, to)
    OBVIOUS
  <1>2. AccountsOK(with)
    <2>1. PICK zero : zero = [x \in {to} |-> 0]
      OBVIOUS
    <2>2. {to} \in SUBSET Address /\ IsFiniteSet({to}) /\ \A a \in {to} : zero[a] \in Int64
      <3>1. IsFiniteSet({to})
        BY FS_Singleton
      <3>. QED  BY <2>1, <3>1, WordTypes
    <2>3. AccountsOK(Opened(accounts, {to}, zero))
      BY <2>2, OpenedTypes
    <2>. QED  BY <1>1, <2>1, <2>3 DEF WithAccount
  <1>3. PICK x \in Int : x = -(amount + fee)
    BY WordTypes
  <1>4. PICK less : less = Credit(with, from, x)
    OBVIOUS
  <1>5. AccountsOK(less)
    BY <1>2, <1>4, CreditTypes
  <1>6. PICK moved : moved = Credit(less, to, amount)
    OBVIOUS
  <1>7. AccountsOK(moved)
    BY <1>5, <1>6, CreditTypes, WordTypes
  <1>8. PICK paid : paid = [moved EXCEPT ![from].Nonce = @ + 1]
    OBVIOUS
  <1>9. paid = Paid(from, to, amount, fee)
    BY <1>1, <1>3, <1>4, <1>6, <1>8 DEF Paid
  <1>10. /\ DOMAIN paid = DOMAIN moved
         /\ \A b \in DOMAIN moved :
               paid[b] = IF b = from THEN [moved[b] EXCEPT !.Nonce = @ + 1] ELSE moved[b]
    BY <1>8
  <1>11. ASSUME NEW b \in DOMAIN moved PROVE paid[b] \in Account
    <2>1. PICK d \in Account : d = moved[b]
      BY <1>7 DEF AccountsOK
    <2>2. d = [Balance |-> d.Balance, Nonce |-> d.Nonce] /\ d.Balance \in Int64 /\ d.Nonce \in Nat
      BY <2>1 DEF Account
    <2>3. CASE b = from
      <3>1. paid[b] = [d EXCEPT !.Nonce = @ + 1]
        BY <1>10, <2>1, <2>3
      <3>2. PICK n \in Nat : n = d.Nonce + 1
        BY <2>2
      <3>3. paid[b] = [Balance |-> d.Balance, Nonce |-> n]
        BY <2>2, <3>1, <3>2
      <3>. QED  BY <2>2, <3>2, <3>3 DEF Account
    <2>4. CASE b # from
      BY <1>10, <2>1, <2>4
    <2>. QED  BY <2>3, <2>4
  <1>12. AccountsOK(paid)
    BY <1>7, <1>10, <1>11 DEF AccountsOK
  <1>. QED  BY <1>9, <1>12

LEMMA LoggedTypes ==
  ASSUME AccountsOK(accounts), txs \in Seq(Transaction),
         NEW from \in DOMAIN accounts, NEW to \in Address, NEW amount \in Int64, NEW fee \in Int64
  PROVE  LET log == Logged(from, to, amount, fee, accounts[from].Nonce + 1)
         IN  log \in Seq(Transaction) /\ Len(log) = Len(txs) + 1 /\ log[Len(log)] \in Transaction
  <1>1. PICK n \in Nat : n = accounts[from].Nonce + 1
    <2>1. accounts[from] \in Account
      BY DEF AccountsOK
    <2>2. accounts[from].Nonce \in Nat
      BY <2>1 DEF Account
    <2>. QED  BY <2>2
  <1>2. PICK e : e = [From |-> from, To |-> to, Amount |-> amount, Fee |-> fee, Nonce |-> n]
    OBVIOUS
  <1>3. e \in Transaction
    BY <1>2 DEF Transaction, AccountsOK
  <1>4. PICK log : log = Append(txs, e)
    OBVIOUS
  <1>5. log \in Seq(Transaction) /\ Len(log) = Len(txs) + 1 /\ log[Len(log)] = e
    BY <1>3, <1>4
  <1>6. log = Logged(from, to, amount, fee, accounts[from].Nonce + 1)
    BY <1>1, <1>2, <1>4 DEF Logged
  <1>. QED  BY <1>3, <1>5, <1>6

LEMMA SavedTypes ==
  ASSUME FileOK(stateFile), NEW saving \in Saving, NEW accs, AccountsOK(accs),
         NEW log \in Seq(Transaction)
  PROVE  FileOK(save(saving, accs, log))
  <1>1. PICK file : file = save(saving, accs, log)
    OBVIOUS
  <1>2. CASE saving = "none"
    BY <1>1, <1>2 DEF save
  <1>3. CASE saving = "torn"
    <2>1. file.accounts = <<>> /\ file.txs = <<>> /\ file.readable = FALSE
      BY <1>1, <1>3 DEF save, Unreadable
    <2>2. <<>> \in Seq(Transaction)
      OBVIOUS
    <2>3. FileOK(file)
      BY <2>1, <2>2, NoAccountsOK DEF FileOK
    <2>. QED  BY <1>1, <2>3
  <1>4. CASE saving = "whole"
    <2>1. file.accounts = accs /\ file.txs = log /\ file.readable = TRUE
      BY <1>1, <1>4 DEF save
    <2>2. FileOK(file)
      BY <2>1 DEF FileOK
    <2>. QED  BY <1>1, <2>2
  <1>. QED  BY <1>2, <1>3, <1>4 DEF Saving

LEMMA LoadedTypes ==
  ASSUME FileOK(stateFile), NEW read \in Reads
  PROVE  AccountsOK(Loaded(read).accounts) /\ Loaded(read).txs \in Seq(Transaction)
  <1>1. PICK old : old = Loaded(read)
    OBVIOUS
  <1>2. <<>> \in Seq(Transaction)
    OBVIOUS
  <1>3. old = stateFile \/ (old.accounts = <<>> /\ old.txs = <<>>)
    BY <1>1, WhatIsLoaded
  <1>4. AccountsOK(old.accounts) /\ old.txs \in Seq(Transaction)
    BY <1>2, <1>3, NoAccountsOK DEF FileOK
  <1>. QED  BY <1>1, <1>4

LEMMA StartTypes ==
  ASSUME TypesInv, Start
  PROVE  TypesInv'
  <1>1. PICK read \in Reads, saving \in Saves : StateStart(read, saving)
    BY DEF Start
  <1>2. saving \in Saving
    BY StateKeeperAssumption
  <1>3. PICK new, all, old : /\ old = Loaded(read)
                             /\ new \in {DOMAIN GenesisAmount, {}}
                             /\ all = Opened(old.accounts, new, GenesisAmount)
                             /\ accounts' = all /\ txs' = old.txs
                             /\ \/ stateFile' = stateFile
                                \/ stateFile' = save(saving, all, old.txs)
    BY <1>1 DEF StateStart
  <1>4. new \in SUBSET Address /\ IsFiniteSet(new) /\ \A a \in new : GenesisAmount[a] \in Int64
    BY <1>3, StateKeeperAssumption, FS_EmptySet
  <1>a. AccountsOK(old.accounts) /\ old.txs \in Seq(Transaction)
    BY <1>3, LoadedTypes DEF TypesInv
  <1>5. AccountsOK(all)
    BY <1>3, <1>4, <1>a, OpenedTypes
  <1>6. PICK file : file = stateFile'
    OBVIOUS
  <1>7. FileOK(save(saving, all, old.txs))
    BY <1>2, <1>5, <1>a, SavedTypes DEF TypesInv
  <1>8. FileOK(file)
    BY <1>3, <1>6, <1>7 DEF TypesInv
  <1>9. /\ running' = TRUE /\ boots' = boots + 1
        /\ confirmed' = confirmed /\ casts' = casts /\ creating' = creating
    BY DEF Start, governanceVars
  <1>10. AccountsOK(accounts') /\ FileOK(stateFile') /\ txs' \in Seq(Transaction)
    BY <1>3, <1>5, <1>6, <1>8, <1>a
  <1>. QED  BY <1>9, <1>10 DEF TypesInv, AccountsOK, FileOK

\* What a transfer makes of accounts, log and file.
Transferred(from, to, amount, fee, saving, accs, log, file) ==
    /\ accs = Paid(from, to, amount, fee)
    /\ log = Logged(from, to, amount, fee, accounts[from].Nonce + 1)
    /\ file = save(saving, accs, log)

LEMMA TransferredTypes ==
  ASSUME TypesInv, NEW from \in DOMAIN accounts, NEW to \in Address, NEW amount \in Amounts,
         NEW fee \in Fees, NEW saving \in Saving, NEW accs, NEW log, NEW file,
         Transferred(from, to, amount, fee, saving, accs, log, file)
  PROVE  /\ AccountsOK(accs) /\ log \in Seq(Transaction) /\ FileOK(file)
         /\ log[Len(log)] \in Transaction
  <1>1. amount \in Int64 /\ fee \in Int64
    BY LedgerAssumption
  <1>2. AccountsOK(Paid(from, to, amount, fee))
    BY <1>1, PaidTypes DEF TypesInv
  <1>3. AccountsOK(accs)
    BY <1>2 DEF Transferred
  <1>4. log \in Seq(Transaction) /\ log[Len(log)] \in Transaction
    BY <1>1, LoggedTypes DEF TypesInv, Transferred
  <1>5. FileOK(save(saving, accs, log))
    BY <1>3, <1>4, SavedTypes DEF TypesInv
  <1>. QED  BY <1>3, <1>4, <1>5 DEF Transferred

LEMMA SendTypes ==
  ASSUME TypesInv, Send
  PROVE  TypesInv'
  <1>1. PICK from \in DOMAIN accounts, to \in Address, amount \in Amounts, fee \in Fees,
             saving \in Saves :
            /\ SignedTransfer(from, to, amount, fee, accounts[from].Nonce + 1, saving)
            /\ confirmed' \in {confirmed, confirmed \cup {txs'[Len(txs')]}}
    BY DEF Send
  <1>2. saving \in Saving
    BY StateKeeperAssumption
  <1>3. PICK accs, log, file : accs = accounts' /\ log = txs' /\ file = stateFile'
    OBVIOUS
  <1>4. Transferred(from, to, amount, fee, saving, accs, log, file)
    BY <1>1, <1>3 DEF SignedTransfer, Transferred
  <1>5. /\ AccountsOK(accs) /\ log \in Seq(Transaction) /\ FileOK(file)
        /\ log[Len(log)] \in Transaction
    BY <1>2, <1>4, TransferredTypes
  <1>6. /\ running' = running /\ boots' = boots /\ casts' = casts /\ creating' = creating
        /\ confirmed' \subseteq Transaction
    BY <1>1, <1>3, <1>5 DEF Send, governanceVars, TypesInv
  <1>. QED  BY <1>3, <1>5, <1>6 DEF TypesInv, AccountsOK, FileOK

LEMMA DieTypes ==
  ASSUME TypesInv, Die
  PROVE  TypesInv'
  <1>1. /\ accounts' = <<>> /\ txs' = <<>> /\ creating' = NoCall
        /\ running' = FALSE /\ casts' = 0 /\ confirmed' = confirmed /\ boots' = boots
    BY DEF Die, StateCrash, CrashInTransfer, GovernanceCrash
  <1>2. FileOK(stateFile')
    <2>1. CASE StateCrash
      BY <2>1 DEF StateCrash, TypesInv
    <2>2. CASE ~StateCrash
      <3>1. PICK from \in DOMAIN accounts, to \in Address, amount \in Amounts, fee \in Fees,
                 saving \in CrashSaves :
                CrashInTransfer(from, to, amount, fee, accounts[from].Nonce + 1, saving)
        BY <2>2 DEF Die
      <3>2. saving \in Saving
        BY StateKeeperAssumption
      <3>3. PICK accs, log, file :
                /\ Transferred(from, to, amount, fee, saving, accs, log, file)
                /\ stateFile' = file
        BY <3>1 DEF CrashInTransfer, Transferred
      <3>4. FileOK(file)
        BY <3>2, <3>3, TransferredTypes
      <3>. QED  BY <3>3, <3>4
    <2>. QED  BY <2>1, <2>2
  <1>3. AccountsOK(accounts')
    BY <1>1, NoAccountsOK
  <1>4. <<>> \in Seq(Transaction)
    OBVIOUS
  <1>. QED  BY <1>1, <1>2, <1>3, <1>4 DEF TypesInv, AccountsOK, FileOK

\* Where the keepers beside the accounts leave everything else alone.
LEMMA AccountsAlone ==
  ASSUME TypesInv, AccountsOK(accounts'), creating' \in CreateCall \cup {NoCall},
         UNCHANGED <<txs, stateFile, running, confirmed, boots>>, casts' \in Nat
  PROVE  TypesInv'
  BY DEF TypesInv, AccountsOK, FileOK

LEMMA StakingTypes ==
  ASSUME TypesInv, RewardsInv, StakingStep
  PROVE  TypesInv'
  <1>1. UNCHANGED <<txs, stateFile, running, confirmed, boots, casts, creating>>
    BY DEF StakingStep, StakeCheck, StakeDeduct, Unstake, RewardLoop, stateVars, governanceVars
  <1>2. \/ accounts' = accounts
        \/ \E a, x : x \in Int /\ accounts' = Credit(accounts, a, x)
    <2>1. CASE StakeDeduct
      <3>1. -staking.amount \in Int
        BY <2>1 DEF StakeDeduct, RewardsInv, StakeCall
      <3>. QED  BY <2>1, <3>1 DEF StakeDeduct
    <2>2. ASSUME NEW owner \in Address, NEW id \in 1 .. Len(positions), Unstake(owner, id)
          PROVE  \E a, x : x \in Int /\ accounts' = Credit(accounts, a, x)
      <3>1. PICK r, pos : /\ r \in rewards(positions[id])
                          /\ pos = calculateRewards(positions[id], r)
                          /\ accounts' = Credit(accounts, owner, pos.Amount + pos.TotalRewards)
        BY <2>2 DEF Unstake
      <3>2. Earning(positions[id], clock, FALSE)
        BY DEF RewardsInv, Earning
      <3>3. PICK no \in BOOLEAN : no = FALSE
        OBVIOUS
      <3>4. Earning(positions[id], clock, no) /\ (no => RewardFits(positions[id], r))
        BY <3>2, <3>3
      <3>5. Earning(pos, clock, no)
        BY <3>1, <3>3, <3>4, StillEarning DEF RewardsInv
      <3>6. pos.Amount + pos.TotalRewards \in Int
        BY <3>5 DEF Earning, Position
      <3>. QED  BY <3>1, <3>6
    <2>. QED  BY <2>1, <2>2 DEF StakingStep, StakeCheck, RewardLoop, stateVars
  <1>3. AccountsOK(accounts')
    <2>1. CASE accounts' = accounts
      BY <2>1 DEF TypesInv
    <2>2. CASE \E a, x : x \in Int /\ accounts' = Credit(accounts, a, x)
      <3>1. PICK a, x : x \in Int /\ accounts' = Credit(accounts, a, x)
        BY <2>2
      <3>2. AccountsOK(Credit(accounts, a, x))
        BY <3>1, CreditTypes DEF TypesInv
      <3>. QED  BY <3>1, <3>2
    <2>. QED  BY <1>2, <2>1, <2>2
  <1>. QED  BY <1>1, <1>3, AccountsAlone DEF TypesInv

LEMMA CreateTypes ==
  ASSUME TypesInv, CreateBegin \/ CreateEnd
  PROVE  TypesInv'
  <1>1. CASE CreateBegin
    <2>1. creating' \in CreateCall
      BY <1>1, LedgerAssumption, WordTypes DEF CreateBegin, CreateCheck, CreateCall
    <2>2. UNCHANGED <<accounts, txs, stateFile, running, confirmed, boots, casts>>
      BY <1>1 DEF CreateBegin, CreateCheck, stateVars, history
    <2>3. AccountsOK(accounts')
      BY <2>2 DEF TypesInv
    <2>. QED  BY <2>1, <2>2, <2>3, AccountsAlone DEF TypesInv
  <1>2. CASE CreateEnd
    <2>1. PICK x : x = -creating.deposit
      OBVIOUS
    <2>2. creating \in CreateCall
      BY <1>2 DEF CreateEnd, CreateDeduct, TypesInv
    <2>3. x \in Int
      BY <2>1, <2>2 DEF CreateCall
    <2>4. /\ accounts' = Credit(accounts, creating.proposer, x) /\ creating' = NoCall
          /\ UNCHANGED <<txs, stateFile, running, confirmed, boots, casts>>
      BY <1>2, <2>1 DEF CreateEnd, CreateDeduct
    <2>5. PICK who : who = creating.proposer
      OBVIOUS
    <2>6. AccountsOK(Credit(accounts, who, x))
      BY <2>3, CreditTypes DEF TypesInv
    <2>7. AccountsOK(accounts')
      BY <2>4, <2>5, <2>6
    <2>. QED  BY <2>4, <2>7, AccountsAlone DEF TypesInv
  <1>. QED  BY <1>1, <1>2

LEMMA CastTypes ==
  ASSUME TypesInv, Cast
  PROVE  TypesInv'
  <1>1. UNCHANGED <<accounts, txs, stateFile, running, confirmed, boots, creating>>
        /\ casts' = casts + 1
    BY DEF Cast, Vote, stateVars
  <1>2. AccountsOK(accounts') /\ casts' \in Nat
    BY <1>1 DEF TypesInv
  <1>. QED  BY <1>1, <1>2, AccountsAlone DEF TypesInv

Refunded(a) == {i \in Due : Outcome(proposals[i]) = "passed" /\ proposals[i].Proposer = a}

Refund(a) == SumFunction([i \in Refunded(a) |-> proposals[i].Deposit])

DepositAt == [i \in 1 .. Len(proposals) |-> proposals[i].Deposit]

LEMMA DepositsAreTerms ==
  ASSUME proposals \in Seq(Proposal), NEW S \in SUBSET (1 .. Len(proposals))
  PROVE  /\ Terms(DepositAt, S) /\ \A i \in S : DepositAt[i] >= 0
         /\ \A i \in S : DepositAt[i] = proposals[i].Deposit
  <1>1. ASSUME NEW i \in 1 .. Len(proposals) PROVE proposals[i].Deposit \in Nat
    <2>1. proposals[i] \in Proposal
      OBVIOUS
    <2>. QED  BY <2>1 DEF Proposal
  <1>2. IsFiniteSet(S)
    <2>1. PICK n \in Nat : n = Len(proposals)
      OBVIOUS
    <2>2. IsFiniteSet(1 .. n)
      BY FS_Interval
    <2>. QED  BY <2>1, <2>2, FS_Subset
  <1>3. \A i \in S : DepositAt[i] = proposals[i].Deposit
    BY DEF DepositAt
  <1>4. \A i \in S : DepositAt[i] \in Nat
    BY <1>1, <1>3
  <1>5. PICK f : f = DepositAt
    OBVIOUS
  <1>6. Terms(f, S)
    BY <1>2, <1>4, <1>5 DEF Terms
  <1>7. \A i \in S : f[i] >= 0
    BY <1>4, <1>5
  <1>. QED  BY <1>3, <1>5, <1>6, <1>7

LEMMA RefundIs ==
  ASSUME proposals \in Seq(Proposal), NEW a
  PROVE  Refund(a) = SumFunctionOnSet(DepositAt, Refunded(a)) /\ Refund(a) \in Nat
  <1>1. PICK S : S = Refunded(a)
    OBVIOUS
  <1>2. S \in SUBSET (1 .. Len(proposals))
    BY <1>1 DEF Refunded, Due
  <1>3. PICK f : f = [i \in S |-> proposals[i].Deposit]
    OBVIOUS
  <1>4. Terms(DepositAt, S) /\ \A i \in S : DepositAt[i] >= 0 /\ DepositAt[i] = f[i]
    BY <1>2, <1>3, DepositsAreTerms
  <1>5. SumFunctionOnSet(f, S) = SumFunctionOnSet(DepositAt, S)
    BY <1>4, SumSame DEF Terms
  <1>6. SumFunctionOnSet(DepositAt, S) \in Nat
    BY <1>4, SumNat
  <1>7. Refund(a) = SumFunctionOnSet(f, DOMAIN f) /\ DOMAIN f = S
    BY <1>1, <1>3 DEF Refund, SumFunction
  <1>. QED  BY <1>1, <1>5, <1>6, <1>7

\* A round of processLoop adds to every balance what comes back.
LEMMA CloseAccounts ==
  ASSUME TypesInv, VotesInv, Close
  PROVE  /\ AccountsOK(accounts') /\ DOMAIN accounts' = DOMAIN accounts
         /\ \A a \in DOMAIN accounts :
               accounts'[a].Balance = ToInt64(accounts[a].Balance + Refund(a))
  <1>1. accounts' = [a \in DOMAIN accounts |->
                       [accounts[a] EXCEPT !.Balance = ToInt64(@ + Refund(a))]]
    BY DEF Close, ProcessLoop, Refund, Refunded
  <1>2. PICK next : next = accounts'
    OBVIOUS
  <1>3. DOMAIN next = DOMAIN accounts
    BY <1>1, <1>2
  <1>4. ASSUME NEW a \in DOMAIN accounts
        PROVE  next[a] \in Account /\ next[a].Balance = ToInt64(accounts[a].Balance + Refund(a))
    <2>1. PICK d \in Account : d = accounts[a]
      BY DEF TypesInv, AccountsOK
    <2>2. /\ d = [Balance |-> d.Balance, Nonce |-> d.Nonce]
          /\ d.Balance \in Int /\ d.Nonce \in Nat
      BY <2>1, WordTypes DEF Account
    <2>3. PICK x \in Nat : x = Refund(a)
      BY RefundIs DEF VotesInv
    <2>4. next[a] = [d EXCEPT !.Balance = ToInt64(@ + x)]
      BY <1>1, <1>2, <2>1, <2>3
    <2>5. PICK y \in Int64 : y = ToInt64(d.Balance + x)
      BY <2>2, AsInt64
    <2>6. next[a] = [Balance |-> y, Nonce |-> d.Nonce]
      BY <2>2, <2>4, <2>5
    <2>7. next[a] \in Account
      BY <2>2, <2>5, <2>6 DEF Account
    <2>. QED  BY <2>1, <2>3, <2>5, <2>6, <2>7
  <1>5. AccountsOK(next)
    BY <1>3, <1>4 DEF AccountsOK, TypesInv
  <1>. QED  BY <1>2, <1>3, <1>4, <1>5

LEMMA CloseTypes ==
  ASSUME TypesInv, VotesInv, Close
  PROVE  TypesInv'
  <1>1. UNCHANGED <<txs, stateFile, running, confirmed, boots, casts, creating>>
    BY DEF Close, ProcessLoop
  <1>. QED  BY <1>1, CloseAccounts, AccountsAlone DEF TypesInv

\* The same number of proposals, each as the invariant has it.
LEMMA VotesInvAgain ==
  ASSUME VotesInv, DOMAIN proposals' = 1 .. Len(proposals),
         proposals' = [i \in DOMAIN proposals' |-> proposals'[i]],
         \A i \in 1 .. Len(proposals) : Tallied(proposals'[i]) /\ Settled(proposals'[i])
  PROVE  VotesInv'
  <1>1. PICK n \in Nat : n = Len(proposals)
    BY DEF VotesInv
  <1>2. PICK next : next = proposals'
    OBVIOUS
  <1>3. next = [i \in 1 .. n |-> next[i]]
    BY <1>1, <1>2
  <1>4. \A i \in 1 .. n : next[i] \in Proposal
    BY <1>1, <1>2 DEF Tallied
  <1>5. next \in Seq(Proposal) /\ Len(next) = n
    BY <1>3, <1>4
  <1>. QED  BY <1>1, <1>2, <1>5 DEF VotesInv

LEMMA PowerOfNone ==
  ASSUME NEW options
  PROVE  PowerIn(<<>>, options) = 0
  <1>1. 1 .. Len(<<>>) = {}
    OBVIOUS
  <1>. QED  BY <1>1, SumEmpty DEF PowerIn

LEMMA CreateVotes ==
  ASSUME TypesInv, RewardsInv, VotesInv, CreateEnd
  PROVE  VotesInv'
  <1>1. PICK p : /\ p = [Proposer |-> creating.proposer, Deposit |-> creating.deposit,
                         Status |-> "voting", EndTime |-> clock + VotingPeriod, Votes |-> <<>>,
                         Power |-> [o \in VoteOption |-> 0], TotalPower |-> 0]
                 /\ proposals' = Append(proposals, p)
    BY DEF CreateEnd, CreateDeduct
  <1>2. creating \in CreateCall
    BY DEF CreateEnd, CreateDeduct, TypesInv
  <1>3. PICK end \in Nat, none \in Seq(VoteRecord), zero \in [VoteOption -> Nat] :
            end = clock + VotingPeriod /\ none = <<>> /\ zero = [o \in VoteOption |-> 0]
    <2>1. clock + VotingPeriod \in Nat
      BY GovernanceAssumption DEF RewardsInv
    <2>2. <<>> \in Seq(VoteRecord)
      OBVIOUS
    <2>3. [o \in VoteOption |-> 0] \in [VoteOption -> Nat]
      OBVIOUS
    <2>. QED  BY <2>1, <2>2, <2>3
  <1>4. p = [Proposer |-> creating.proposer, Deposit |-> creating.deposit,
             Status |-> "voting", EndTime |-> end, Votes |-> none,
             Power |-> zero, TotalPower |-> 0]
    BY <1>1, <1>3
  <1>5. p \in Proposal
    <2>1. "voting" \in Status /\ creating.proposer \in Address /\ creating.deposit \in Nat
      BY <1>2 DEF Status, CreateCall
    <2>. QED  BY <1>3, <1>4, <2>1 DEF Proposal
  <1>6. Tallied(p) /\ Settled(p)
    <2>1. \A options : PowerIn(none, options) = 0
      BY <1>3, PowerOfNone
    <2>2. \A o \in VoteOption : p.Power[o] = 0
      BY <1>3, <1>4
    <2>3. ToUint64(0) = 0
      BY AsUint64, WordIs DEF Uint64
    <2>4. OneEach(none)
      BY <1>3 DEF OneEach
    <2>5. p.Votes = none /\ p.TotalPower = 0 /\ p.Status = "voting"
      BY <1>4
    <2>. QED  BY <1>5, <2>1, <2>2, <2>3, <2>4, <2>5 DEF Tallied, Settled
  <1>7. p \in Proposal
    BY <1>6 DEF Tallied
  <1>8. PICK n, next : n = Len(proposals) /\ next = proposals'
    OBVIOUS
  <1>9. /\ next \in Seq(Proposal) /\ Len(next) = n + 1 /\ next[n + 1] = p
        /\ \A i \in 1 .. n : next[i] = proposals[i]
    BY <1>1, <1>7, <1>8 DEF VotesInv
  <1>10. \A i \in 1 .. n + 1 : Tallied(next[i]) /\ Settled(next[i])
    <2>1. \A i \in 1 .. n + 1 : i \in 1 .. n \/ i = n + 1
      BY <1>8
    <2>. QED  BY <1>6, <1>8, <1>9, <2>1 DEF VotesInv
  <1>. QED  BY <1>8, <1>9, <1>10 DEF VotesInv

LEMMA PowerOfVoter ==
  ASSUME TypesInv, NEW a
  PROVE  ToUint64(GetBalance(a)) \in Nat
  <1>1. PICK x : x = GetBalance(a)
    OBVIOUS
  <1>2. x \in Int
    <2>1. CASE a \in DOMAIN accounts
      <3>1. accounts[a] \in Account
        BY <2>1 DEF TypesInv, AccountsOK
      <3>2. accounts[a].Balance \in Int
        BY <3>1, WordTypes DEF Account
      <3>. QED  BY <1>1, <2>1, <3>2 DEF GetBalance, BalanceIn
    <2>2. CASE a \notin DOMAIN accounts
      BY <1>1, <2>2 DEF GetBalance, BalanceIn
    <2>. QED  BY <2>1, <2>2
  <1>. QED  BY <1>1, <1>2, AsUint64

LEMMA CastVotes ==
  ASSUME TypesInv, VotesInv, Cast
  PROVE  VotesInv'
  <1>1. PICK id \in 1 .. Len(proposals), voter \in Address, option \in VoteOption :
            Vote(id, voter, option)
    BY DEF Cast
  <1>2. PICK power \in Nat : power = ToUint64(GetBalance(voter))
    BY PowerOfVoter
  <1>3. PICK p, r, q : /\ p = proposals[id] /\ r = WithoutVote(p, voter)
                       /\ q = WithVote(r, voter, option, power)
    OBVIOUS
  <1>4. proposals' = [proposals EXCEPT ![id] = q] /\ p.Status = "voting"
    BY <1>1, <1>2, <1>3 DEF Vote
  <1>5. Tallied(p)
    BY <1>3 DEF VotesInv
  <1>6. Tallied(r) /\ NoVoteOf(r.Votes, voter) /\ r.Status = p.Status
    BY <1>3, <1>5, WithoutVoteTallied DEF SameTerms
  <1>7. Tallied(q) /\ q.Status = r.Status
    BY <1>3, <1>6, WithVoteTallied DEF SameTerms
  <1>8. Settled(q)
    BY <1>4, <1>6, <1>7 DEF Settled
  <1>9. DOMAIN proposals = 1 .. Len(proposals)
    BY DEF VotesInv
  <1>10. /\ DOMAIN proposals' = 1 .. Len(proposals)
         /\ proposals' = [i \in DOMAIN proposals' |-> proposals'[i]]
         /\ \A i \in 1 .. Len(proposals) : proposals'[i] = IF i = id THEN q ELSE proposals[i]
    BY <1>4, <1>9
  <1>11. \A i \in 1 .. Len(proposals) : Tallied(proposals'[i]) /\ Settled(proposals'[i])
    BY <1>7, <1>8, <1>10 DEF VotesInv
  <1>. QED  BY <1>10, <1>11, VotesInvAgain

\* Closing a proposal gives it the outcome that it has.
LEMMA OutcomeSettles ==
  ASSUME NEW p, Tallied(p), NEW q, q = [p EXCEPT !.Status = Outcome(p)]
  PROVE  Tallied(q) /\ Settled(q)
  <1>1. PICK s : s = Outcome(p)
    OBVIOUS
  <1>2. s \in Status
    BY <1>1 DEF Outcome, Status
  <1>3. p \in Proposal
    BY DEF Tallied
  <1>4. q = [Proposer |-> p.Proposer, Deposit |-> p.Deposit, Status |-> s,
             EndTime |-> p.EndTime, Votes |-> p.Votes, Power |-> p.Power,
             TotalPower |-> p.TotalPower]
    BY <1>1, <1>3 DEF Proposal
  <1>5. q.Votes = p.Votes /\ q.Power = p.Power /\ q.TotalPower = p.TotalPower /\ q.Status = s
    BY <1>4
  <1>6. q \in Proposal
    BY <1>2, <1>3, <1>4 DEF Proposal
  <1>7. Tallied(q)
    BY <1>5, <1>6 DEF Tallied
  <1>8. Outcome(q) = s
    BY <1>1, <1>5 DEF Outcome
  <1>. QED  BY <1>5, <1>7, <1>8 DEF Settled

LEMMA CloseVotes ==
  ASSUME VotesInv, Close
  PROVE  VotesInv'
  <1>1. proposals' = [i \in 1 .. Len(proposals) |->
                        IF i \in Due THEN [proposals[i] EXCEPT !.Status = Outcome(proposals[i])]
                        ELSE proposals[i]]
    BY DEF Close, ProcessLoop
  <1>2. /\ DOMAIN proposals' = 1 .. Len(proposals)
        /\ proposals' = [i \in DOMAIN proposals' |-> proposals'[i]]
    BY <1>1
  <1>3. ASSUME NEW i \in 1 .. Len(proposals)
        PROVE  Tallied(proposals'[i]) /\ Settled(proposals'[i])
    <2>1. CASE i \in Due
      <3>1. PICK p, q : p = proposals[i] /\ q = proposals'[i]
        OBVIOUS
      <3>2. q = [p EXCEPT !.Status = Outcome(p)]
        BY <1>1, <2>1, <3>1
      <3>3. Tallied(p)
        BY <3>1 DEF VotesInv
      <3>. QED  BY <3>1, <3>2, <3>3, OutcomeSettles
    <2>2. CASE i \notin Due
      BY <1>1, <2>2 DEF VotesInv
    <2>. QED  BY <2>1, <2>2
  <1>. QED  BY <1>2, <1>3, VotesInvAgain

LEMMA OthersVotes ==
  ASSUME VotesInv,
         Start \/ Send \/ StakingStep \/ CreateBegin \/ Wait \/ Die \/ UNCHANGED ledgerVars
  PROVE  VotesInv'
  <1>1. CASE Die
    <2>1. proposals' = <<>>
      BY <1>1 DEF Die, GovernanceCrash
    <2>. QED  BY <2>1 DEF VotesInv
  <1>2. CASE Start \/ Send \/ StakingStep \/ CreateBegin \/ Wait \/ UNCHANGED ledgerVars
    <2>1. proposals' = proposals
      BY <1>2 DEF Start, Send, StakingStep, CreateBegin, CreateCheck, Wait, ledgerVars, governanceVars
    <2>. QED  BY <2>1 DEF VotesInv
  <1>. QED  BY <1>1, <1>2

LEMMA WaitTypes ==
  ASSUME TypesInv, Wait \/ UNCHANGED ledgerVars
  PROVE  TypesInv'
  <1>1. UNCHANGED <<accounts, txs, stateFile, running, confirmed, boots, casts, creating>>
    BY DEF Wait, Hour, ledgerVars, stateVars, governanceVars
  <1>. QED  BY <1>1 DEF TypesInv, AccountsOK, FileOK

LedgerInv == TypesInv /\ VotesInv

LEMMA LedgerInvHolds == LedgerSpec => []LedgerInv
  <1>1. LedgerInit => LedgerInv
    <2>. SUFFICES ASSUME LedgerInit PROVE LedgerInv
      OBVIOUS
    <2>1. /\ accounts = <<>> /\ txs = <<>> /\ stateFile = Unreadable /\ proposals = <<>>
          /\ creating = NoCall /\ running = FALSE /\ confirmed = {} /\ casts = 0 /\ boots = 0
      BY DEF LedgerInit, StateInit, GovernanceInit
    <2>2. <<>> \in Seq(Transaction) /\ <<>> \in Seq(Proposal) /\ Len(<<>>) = 0
      OBVIOUS
    <2>3. FileOK(Unreadable)
      BY <2>2, NoAccountsOK DEF FileOK, Unreadable
    <2>4. TypesInv
      BY <2>1, <2>2, <2>3, NoAccountsOK DEF TypesInv
    <2>5. VotesInv
      BY <2>1, <2>2 DEF VotesInv
    <2>. QED  BY <2>4, <2>5 DEF LedgerInv
  <1>2. LedgerInv /\ RewardsInv /\ [LedgerNext]_ledgerVars => LedgerInv'
    <2>1. LedgerInv /\ RewardsInv /\ [LedgerNext]_ledgerVars => TypesInv'
      BY StartTypes, SendTypes, StakingTypes, CreateTypes, CastTypes, CloseTypes, WaitTypes,
         DieTypes DEF LedgerInv, LedgerNext
    <2>2. LedgerInv /\ RewardsInv /\ [LedgerNext]_ledgerVars => VotesInv'
      BY CreateVotes, CastVotes, CloseVotes, OthersVotes DEF LedgerInv, LedgerNext
    <2>. QED  BY <2>1, <2>2 DEF LedgerInv
  <1>. QED  BY <1>1, <1>2, RewardsInvHolds, PTL DEF LedgerSpec

(***************************************************************************)
(* The variables of the ledger keep their types for any accounts, amounts, *)
(* stakes and proposals: sums that wrap around stay in their types.        *)
(***************************************************************************)
THEOREM LedgerTypeCorrect == LedgerSpec => []LedgerTypeOK
  <1>1. LedgerInv /\ RewardsInv => LedgerTypeOK
    BY DEF LedgerInv, TypesInv, VotesInv, RewardsInv, AccountsOK, FileOK, LedgerTypeOK
  <1>. QED  BY <1>1, LedgerInvHolds, RewardsInvHolds, PTL

(***************************************************************************)
(* The tallies of a proposal are the sums, as uint64, of its votes, of     *)
(* which each voter has at most one, and a closed proposal has the outcome *)
(* that its votes on record give it, for any number of proposals, voters   *)
(* and votes that weigh no more than float64 can tell apart.               *)
(***************************************************************************)
THEOREM OutcomeFollowsFromVotesCorrect == LedgerSpec => []OutcomeFollowsFromVotes
  <1>1. LedgerInv => OutcomeFollowsFromVotes
    <2>. SUFFICES ASSUME LedgerInv, NEW id \in 1 .. Len(proposals)
                  PROVE  LET p     == proposals[id]
                             voted == PowerOf(p, VoteOption)
                             yes   == PowerOf(p, {"yes"})
                         IN  /\ \A o \in VoteOption \ {"other"} :
                                   p.Power[o] = ToUint64(PowerOf(p, {o}))
                             /\ p.TotalPower = ToUint64(voted)
                             /\ \A i, j \in 1 .. Len(p.Votes) :
                                   p.Votes[i].Voter = p.Votes[j].Voter => i = j
                             /\ voted <= Exact =>
                                  /\ p.Status = "passed" => voted * 100 >= 33 * QuorumSupply /\ 2 * yes > voted
                                  /\ p.Status = "rejected" => voted * 100 >= 33 * QuorumSupply /\ 2 * yes <= voted
                                  /\ p.Status = "expired" => voted * 100 < 33 * QuorumSupply
      BY DEF OutcomeFollowsFromVotes
    <2>1. PICK p : p = proposals[id]
      OBVIOUS
    <2>2. Tallied(p) /\ Settled(p)
      BY <2>1 DEF LedgerInv, VotesInv
    <2>3. p.Votes \in Seq(VoteRecord)
      BY <2>2 DEF Tallied, Proposal
    <2>4. \A options : PowerOf(p, options) = PowerIn(p.Votes, options)
      BY PowerOfIs
    <2>5. /\ \A o \in VoteOption \ {"other"} : p.Power[o] = ToUint64(PowerOf(p, {o}))
          /\ p.TotalPower = ToUint64(PowerOf(p, VoteOption))
          /\ \A i, j \in 1 .. Len(p.Votes) : p.Votes[i].Voter = p.Votes[j].Voter => i = j
      BY <2>2, <2>4 DEF Tallied, OneEach
    <2>6. PICK voted \in Nat, yes \in Nat : /\ voted = PowerOf(p, VoteOption)
                                            /\ yes = PowerOf(p, {"yes"}) /\ yes <= voted
      <3>1. PowerIn(p.Votes, {"yes"}) <= PowerIn(p.Votes, VoteOption)
        BY <2>3, PowerMonotone DEF VoteOption
      <3>. QED  BY <2>3, <2>4, <3>1, PowerInNat
    <2>7. ASSUME voted <= Exact
          PROVE  /\ p.TotalPower = voted /\ p.Power["yes"] = yes
                 /\ MoreThanHalf(p.Power["yes"], p.TotalPower) <=> 2 * yes > voted
      <3>1. Exact \in Nat /\ Exact < Word
        BY GovernanceAssumption, WordIs DEF Uint64
      <3>2. voted \in Uint64 /\ yes \in Uint64 /\ voted \in 0 .. Exact
        BY <2>6, <2>7, <3>1, WordIs DEF Uint64
      <3>3. ToUint64(voted) = voted /\ ToUint64(yes) = yes
        BY <3>2, AsUint64
      <3>4. MoreThanHalf(yes, voted) <=> 2 * yes > voted
        BY <3>2, GovernanceAssumption
      <3>5. p.TotalPower = voted /\ p.Power["yes"] = yes
        BY <2>5, <2>6, <3>3 DEF VoteOption
      <3>. QED  BY <3>4, <3>5
    <2>8. QuorumSupply \in Nat
      BY GovernanceAssumption
    <2>9. voted <= Exact =>
            /\ p.Status = "passed" => voted * 100 >= 33 * QuorumSupply /\ 2 * yes > voted
            /\ p.Status = "rejected" => voted * 100 >= 33 * QuorumSupply /\ 2 * yes <= voted
            /\ p.Status = "expired" => voted * 100 < 33 * QuorumSupply
      BY <2>2, <2>7, <2>8 DEF Settled, Outcome
    <2>. QED  BY <2>1, <2>5, <2>6, <2>9
  <1>. QED  BY <1>1, LedgerInvHolds, PTL

----------------------------------------------------------------------------
(***************************************************************************)
(* Coins.  What an active position and an open or failed proposal hold is  *)
(* a sum over the positions and the proposals, what the accounts hold and  *)
(* what the fees took are sums too; Surplus is what all of them hold beyond*)
(* the genesis amounts and the rewards.  Every step but a start, a death   *)
(* and a panic leaves it as it is.                                         *)
(***************************************************************************)
BalanceOf(accs) == [a \in DOMAIN accs |-> accs[a].Balance]

Balances(accs) == SumFunctionOnSet(BalanceOf(accs), DOMAIN accs)

LEMMA BalanceTerms ==
  ASSUME NEW accs, AccountsOK(accs)
  PROVE  /\ Terms(BalanceOf(accs), DOMAIN accs)
         /\ \A a \in DOMAIN accs : BalanceOf(accs)[a] = accs[a].Balance
         /\ Balances(accs) \in Int
  <1>1. PICK f : f = BalanceOf(accs)
    OBVIOUS
  <1>2. \A a \in DOMAIN accs : f[a] = accs[a].Balance
    BY <1>1 DEF BalanceOf
  <1>3. \A a \in DOMAIN accs : accs[a].Balance \in Int
    BY WordTypes DEF AccountsOK, Account
  <1>4. Terms(f, DOMAIN accs)
    BY <1>2, <1>3 DEF Terms, AccountsOK
  <1>5. SumFunctionOnSet(f, DOMAIN accs) \in Int
    BY <1>4, SumType
  <1>. QED  BY <1>1, <1>2, <1>4, <1>5 DEF Balances

\* What is credited to one account that has room for it is added to the sum.
LEMMA CreditBalances ==
  ASSUME NEW accs, AccountsOK(accs), NEW a \in DOMAIN accs, NEW x \in Int,
         accs[a].Balance + x \in Int64
  PROVE  /\ Balances(Credit(accs, a, x)) = Balances(accs) + x
         /\ AccountsOK(Credit(accs, a, x)) /\ DOMAIN Credit(accs, a, x) = DOMAIN accs
         /\ \A b \in DOMAIN accs : Credit(accs, a, x)[b].Balance
                                     = accs[b].Balance + (IF b = a THEN x ELSE 0)
  <1>1. PICK next : next = Credit(accs, a, x)
    OBVIOUS
  <1>2. /\ AccountsOK(next) /\ DOMAIN next = DOMAIN accs
        /\ \A b \in DOMAIN accs : next[b].Balance = accs[b].Balance + (IF b = a THEN x ELSE 0)
    <2>1. PICK y \in Int : y = accs[a].Balance + x /\ ToInt64(y) = y
      BY WordTypes, AsInt64
    <2>2. \A b \in DOMAIN accs : accs[b].Balance \in Int
      BY WordTypes DEF AccountsOK, Account
    <2>3. /\ AccountsOK(next) /\ DOMAIN next = DOMAIN accs
          /\ \A b \in DOMAIN accs : next[b].Balance = IF b = a THEN ToInt64(accs[b].Balance + x)
                                                       ELSE accs[b].Balance
      BY <1>1, CreditTypes
    <2>. QED  BY <2>1, <2>2, <2>3
  <1>3. PICK f, g, S : f = BalanceOf(accs) /\ g = BalanceOf(next) /\ S = DOMAIN accs
    OBVIOUS
  <1>4. Terms(f, S) /\ Terms(g, S) /\ Balances(accs) \in Int
    BY <1>2, <1>3, BalanceTerms
  <1>5. \A b \in S : f[b] = accs[b].Balance /\ g[b] = next[b].Balance
    BY <1>2, <1>3, BalanceTerms
  <1>6. SameBut(f, g, S, a)
    <2>. SUFFICES ASSUME NEW b \in S \ {a} PROVE f[b] = g[b]
      BY DEF SameBut
    <2>1. f[b] \in Int
      BY <1>4 DEF Terms
    <2>. QED  BY <1>2, <1>3, <1>5, <2>1
  <1>7. SumFunctionOnSet(g, S) = SumFunctionOnSet(f, S) - f[a] + g[a]
    BY <1>3, <1>4, <1>6, SumChange
  <1>8. PICK old \in Int, sum \in Int : old = f[a] /\ sum = SumFunctionOnSet(f, S)
    BY <1>3, <1>4 DEF Balances, Terms
  <1>9. g[a] = old + x
    BY <1>2, <1>3, <1>5, <1>8
  <1>10. SumFunctionOnSet(g, S) = sum + x
    BY <1>7, <1>8, <1>9
  <1>11. Balances(next) = sum + x /\ Balances(accs) = sum
    BY <1>2, <1>3, <1>8, <1>10 DEF Balances
  <1>. QED  BY <1>1, <1>2, <1>11

\* An account that is opened with nothing adds nothing.
LEMMA OpenedBalances ==
  ASSUME NEW accs, AccountsOK(accs), NEW to \in Address
  PROVE  LET with == WithAccount(accs, to)
         IN  /\ AccountsOK(with) /\ DOMAIN with = DOMAIN accs \cup {to}
             /\ Balances(with) = Balances(accs)
  <1>1. PICK with : with = WithAccount(accs, to)
    OBVIOUS
  <1>2. /\ DOMAIN with = DOMAIN accs \cup {to}
        /\ \A a \in DOMAIN accs : with[a] = accs[a]
        /\ to \notin DOMAIN accs => with[to] = [Balance |-> 0, Nonce |-> 0]
    BY <1>1 DEF WithAccount, Opened
  <1>3. AccountsOK(with)
    <2>1. IsFiniteSet(DOMAIN with)
      BY <1>2, FS_AddElement DEF AccountsOK
    <2>2. \A a \in DOMAIN with : with[a] \in Account
      BY <1>2, WordTypes DEF AccountsOK, Account
    <2>. QED  BY <1>2, <2>1, <2>2 DEF AccountsOK
  <1>4. PICK f, g, S : f = BalanceOf(accs) /\ g = BalanceOf(with) /\ S = DOMAIN accs
    OBVIOUS
  <1>5. Terms(f, S) /\ Terms(g, S \cup {to}) /\ Balances(accs) \in Int
    BY <1>2, <1>3, <1>4, BalanceTerms
  <1>6. \A b \in S : f[b] = g[b]
    BY <1>2, <1>4 DEF BalanceOf
  <1>7. SumFunctionOnSet(g, S) = SumFunctionOnSet(f, S)
    BY <1>5, <1>6, SumSame DEF Terms
  <1>8. CASE to \in S
    <2>1. DOMAIN with = S
      BY <1>2, <1>4, <1>8
    <2>. QED  BY <1>1, <1>2, <1>3, <1>4, <1>7, <2>1 DEF Balances
  <1>9. CASE to \notin S
    <2>1. g[to] = 0
      BY <1>2, <1>4, <1>9 DEF BalanceOf
    <2>2. SumFunctionOnSet(g, S \cup {to}) = g[to] + SumFunctionOnSet(g, S)
      BY <1>5, <1>9, SumAdd
    <2>3. PICK sum \in Int : sum = SumFunctionOnSet(f, S)
      BY <1>4, <1>5 DEF Balances
    <2>4. SumFunctionOnSet(g, S \cup {to}) = sum
      BY <1>7, <2>1, <2>2, <2>3
    <2>5. Balances(with) = sum /\ Balances(accs) = sum
      BY <1>2, <1>4, <2>3, <2>4 DEF Balances
    <2>. QED  BY <1>1, <1>2, <1>3, <2>5
  <1>. QED  BY <1>8, <1>9

\* A transfer that fits takes the fee out of the sum.
LEMMA PaidBalances ==
  ASSUME AccountsOK(accounts), NEW from \in DOMAIN accounts, NEW to \in Address,
         NEW amount \in Int64, NEW fee \in Int64, TransferFits(from, to, amount, fee)
  PROVE  /\ DOMAIN Paid(from, to, amount, fee) = DOMAIN accounts \cup {to}
         /\ Balances(Paid(from, to, amount, fee)) = Balances(accounts) - fee
  <1>1. PICK with : with = WithAccount(accounts, to)
    OBVIOUS
  <1>2. /\ AccountsOK(with) /\ DOMAIN with = DOMAIN accounts \cup {to}
        /\ Balances(with) = Balances(accounts)
    BY <1>1, OpenedBalances
  <1>3. PICK x \in Int : x = -(amount + fee)
    BY WordTypes
  <1>4. PICK less : less = Credit(with, from, x)
    OBVIOUS
  <1>5. from \in DOMAIN with
    BY <1>2
  <1>a. \A b \in DOMAIN with : with[b].Balance = GetBalance(b) /\ with[b].Balance \in Int
    <2>1. \A b \in DOMAIN with : with[b].Balance = GetBalance(b)
      BY <1>1, <1>2 DEF WithAccount, Opened, GetBalance, BalanceIn
    <2>. QED  BY <1>2, <2>1, WordTypes DEF AccountsOK, Account
  <1>b. with[from].Balance + x \in Int64
    BY <1>3, <1>5, <1>a DEF TransferFits, Fits
  <1>6. /\ AccountsOK(less) /\ DOMAIN less = DOMAIN with /\ Balances(less) = Balances(with) + x
        /\ \A b \in DOMAIN with : less[b].Balance = with[b].Balance + (IF b = from THEN x ELSE 0)
    BY <1>2, <1>4, <1>5, <1>b, CreditBalances
  <1>7. PICK moved : moved = Credit(less, to, amount)
    OBVIOUS
  <1>8. to \in DOMAIN less
    BY <1>2, <1>6
  <1>c. less[to].Balance + amount \in Int64
    <2>1. PICK b \in Int, m \in Int, f \in Int : b = with[to].Balance /\ m = amount /\ f = fee
      BY <1>6, <1>8, <1>a, WordTypes
    <2>2. CASE to = from
      <3>1. b + -f \in Int64
        BY <1>6, <1>8, <1>a, <2>1, <2>2 DEF TransferFits, Fits
      <3>2. less[to].Balance + amount = b + -f
        BY <1>3, <1>6, <1>8, <2>1, <2>2
      <3>. QED  BY <3>1, <3>2
    <2>3. CASE to # from
      <3>1. b + m \in Int64
        BY <1>6, <1>8, <1>a, <2>1, <2>3 DEF TransferFits, Fits
      <3>2. less[to].Balance + amount = b + m
        BY <1>6, <1>8, <2>1, <2>3
      <3>. QED  BY <3>1, <3>2
    <2>. QED  BY <2>2, <2>3
  <1>d. amount \in Int /\ fee \in Int
    BY WordTypes
  <1>9. AccountsOK(moved) /\ DOMAIN moved = DOMAIN less /\ Balances(moved) = Balances(less) + amount
    BY <1>6, <1>7, <1>8, <1>c, <1>d, CreditBalances
  <1>10. PICK paid : paid = [moved EXCEPT ![from].Nonce = @ + 1]
    OBVIOUS
  <1>11. paid = Paid(from, to, amount, fee)
    BY <1>1, <1>3, <1>4, <1>7, <1>10 DEF Paid
  <1>12. DOMAIN paid = DOMAIN moved
    BY <1>10
  <1>13. ASSUME NEW b \in DOMAIN moved PROVE paid[b].Balance = moved[b].Balance
    <2>1. PICK d \in Account : d = moved[b]
      BY <1>9 DEF AccountsOK
    <2>2. paid[b] = IF b = from THEN [d EXCEPT !.Nonce = @ + 1] ELSE d
      BY <1>10, <2>1
    <2>3. CASE b = from
      <3>1. paid[b] = [d EXCEPT !.Nonce = @ + 1]
        BY <2>2, <2>3
      <3>. QED  BY <2>1, <3>1 DEF Account
    <2>. QED  BY <2>1, <2>2, <2>3
  <1>14. BalanceOf(paid) = BalanceOf(moved)
    BY <1>12, <1>13 DEF BalanceOf
  <1>15. Balances(paid) = Balances(moved)
    BY <1>12, <1>14 DEF Balances
  <1>16. PICK sum \in Int : sum = Balances(accounts)
    BY BalanceTerms
  <1>17. Balances(less) = sum + x
    BY <1>2, <1>6, <1>16
  <1>18. Balances(paid) = sum - fee
    BY <1>3, <1>9, <1>15, <1>17, <1>d
  <1>. QED  BY <1>2, <1>6, <1>9, <1>11, <1>12, <1>16, <1>18

(***************************************************************************)
(* What a position is worth beyond the rewards that GetStats calls paid,   *)
(* and what is left of a proposal's deposit: coins held, or taken for good.*)
(***************************************************************************)
StakeWorth(pos) == IF pos.IsActive THEN pos.Amount ELSE -pos.TotalRewards

DepositWorth(p) == IF p.Status = "passed" THEN 0 ELSE p.Deposit

StakeWorths(ps) == [i \in 1 .. Len(ps) |-> StakeWorth(ps[i])]

DepositWorths(ps) == [i \in 1 .. Len(ps) |-> DepositWorth(ps[i])]

FeesOf(log) == [i \in 1 .. Len(log) |-> log[i].Fee]

RewardsOf(ps) == [i \in 1 .. Len(ps) |-> ps[i].TotalRewards]

InStakes(ps) == SumFunctionOnSet(StakeWorths(ps), 1 .. Len(ps))

InDeposits(ps) == SumFunctionOnSet(DepositWorths(ps), 1 .. Len(ps))

InFees(log) == SumFunctionOnSet(FeesOf(log), 1 .. Len(log))

Credited(ps) == SumFunctionOnSet(RewardsOf(ps), 1 .. Len(ps))

Genesis == SumFunction(GenesisAmount)

\* What is held beyond what was issued.
Surplus == Balances(accounts) + InStakes(positions) + InDeposits(proposals) + InFees(txs) - Genesis

LEMMA Places ==
  ASSUME NEW S, NEW s \in Seq(S)
  PROVE  IsFiniteSet(1 .. Len(s)) /\ Len(s) \in Nat
  <1>1. PICK n \in Nat : n = Len(s)
    OBVIOUS
  <1>2. IsFiniteSet(1 .. n)
    BY FS_Interval
  <1>. QED  BY <1>1, <1>2

LEMMA PositionTerms ==
  ASSUME NEW ps \in Seq(Position)
  PROVE  /\ Terms(StakeWorths(ps), 1 .. Len(ps)) /\ Terms(RewardsOf(ps), 1 .. Len(ps))
         /\ \A i \in 1 .. Len(ps) : RewardsOf(ps)[i] >= 0
         /\ InStakes(ps) \in Int /\ Credited(ps) \in Nat
  <1>1. PICK f, g, S : f = StakeWorths(ps) /\ g = RewardsOf(ps) /\ S = 1 .. Len(ps)
    OBVIOUS
  <1>2. IsFiniteSet(S)
    BY <1>1, Places
  <1>3. ASSUME NEW i \in S PROVE f[i] \in Int /\ g[i] \in Nat
    <2>1. PICK pos \in Position : pos = ps[i]
      BY <1>1
    <2>2. pos.Amount \in Nat /\ pos.TotalRewards \in Nat
      BY <2>1 DEF Position
    <2>3. f[i] = StakeWorth(pos) /\ g[i] = pos.TotalRewards
      BY <1>1, <2>1 DEF StakeWorths, RewardsOf
    <2>4. StakeWorth(pos) \in Int
      BY <2>2 DEF StakeWorth
    <2>. QED  BY <2>2, <2>3, <2>4
  <1>4. Terms(f, S) /\ Terms(g, S) /\ \A i \in S : g[i] >= 0
    BY <1>2, <1>3 DEF Terms
  <1>5. SumFunctionOnSet(f, S) \in Int /\ SumFunctionOnSet(g, S) \in Nat
    BY <1>4, SumType, SumNat
  <1>. QED  BY <1>1, <1>4, <1>5 DEF InStakes, Credited

LEMMA DepositTerms ==
  ASSUME NEW ps \in Seq(Proposal)
  PROVE  Terms(DepositWorths(ps), 1 .. Len(ps)) /\ InDeposits(ps) \in Nat
  <1>1. PICK f, S : f = DepositWorths(ps) /\ S = 1 .. Len(ps)
    OBVIOUS
  <1>2. IsFiniteSet(S)
    BY <1>1, Places
  <1>3. ASSUME NEW i \in S PROVE f[i] \in Nat
    <2>1. PICK p \in Proposal : p = ps[i]
      BY <1>1
    <2>2. p.Deposit \in Nat
      BY <2>1 DEF Proposal
    <2>3. f[i] = DepositWorth(p)
      BY <1>1, <2>1 DEF DepositWorths
    <2>. QED  BY <2>2, <2>3 DEF DepositWorth
  <1>4. Terms(f, S) /\ \A i \in S : f[i] >= 0
    BY <1>2, <1>3 DEF Terms
  <1>5. SumFunctionOnSet(f, S) \in Nat
    BY <1>4, SumNat
  <1>. QED  BY <1>1, <1>4, <1>5 DEF InDeposits

LEMMA FeeTerms ==
  ASSUME NEW log \in Seq(Transaction)
  PROVE  Terms(FeesOf(log), 1 .. Len(log)) /\ InFees(log) \in Int
  <1>1. PICK f, S : f = FeesOf(log) /\ S = 1 .. Len(log)
    OBVIOUS
  <1>2. IsFiniteSet(S)
    BY <1>1, Places
  <1>3. ASSUME NEW i \in S PROVE f[i] \in Int
    <2>1. PICK t \in Transaction : t = log[i]
      BY <1>1
    <2>2. f[i] = t.Fee /\ t.Fee \in Int
      BY <1>1, <2>1, WordTypes DEF FeesOf, Transaction
    <2>. QED  BY <2>2
  <1>4. Terms(f, S)
    BY <1>2, <1>3 DEF Terms
  <1>5. SumFunctionOnSet(f, S) \in Int
    BY <1>4, SumType
  <1>. QED  BY <1>1, <1>4, <1>5 DEF InFees

LEMMA GenesisIsNat == Genesis \in Nat
  <1>1. Terms(GenesisAmount, DOMAIN GenesisAmount)
        /\ \A a \in DOMAIN GenesisAmount : GenesisAmount[a] >= 0
    BY StateKeeperAssumption DEF Terms
  <1>2. SumFunctionOnSet(GenesisAmount, DOMAIN GenesisAmount) \in Nat
    BY <1>1, SumNat
  <1>. QED  BY <1>2 DEF Genesis, SumFunction

\* What is active, with its rewards, is what positions are worth and were credited.
LEMMA StakesHeld ==
  ASSUME positions \in Seq(Position)
  PROVE  \E staked, earned \in Nat :
            /\ staked = TotalStaked
            /\ earned = SumFunction([i \in 1 .. Len(positions) |->
                           IF positions[i].IsActive THEN positions[i].TotalRewards ELSE 0])
            /\ TotalRewardsPaid = Credited(positions)
            /\ staked + earned = InStakes(positions) + Credited(positions)
  <1>1. PICK S : S = 1 .. Len(positions)
    OBVIOUS
  <1>2. PICK f, g, x, y, h :
            /\ f = [i \in S |-> IF positions[i].IsActive THEN positions[i].Amount ELSE 0]
            /\ g = [i \in S |-> IF positions[i].IsActive THEN positions[i].TotalRewards ELSE 0]
            /\ x = StakeWorths(positions) /\ y = RewardsOf(positions)
            /\ h = [i \in S |-> f[i] + g[i]]
    OBVIOUS
  <1>3. IsFiniteSet(S)
    BY <1>1, Places
  <1>4. ASSUME NEW i \in S
        PROVE  /\ f[i] \in Nat /\ g[i] \in Nat /\ x[i] \in Int /\ y[i] \in Nat
               /\ h[i] = f[i] + g[i] /\ h[i] = x[i] + y[i]
    <2>1. PICK pos \in Position : pos = positions[i]
      BY <1>1
    <2>2. pos.Amount \in Nat /\ pos.TotalRewards \in Nat
      BY <2>1 DEF Position
    <2>3. x[i] = StakeWorth(pos) /\ y[i] = pos.TotalRewards /\ h[i] = f[i] + g[i]
      BY <1>1, <1>2, <2>1 DEF StakeWorths, RewardsOf
    <2>4. CASE pos.IsActive
      <3>1. f[i] = pos.Amount /\ g[i] = pos.TotalRewards /\ x[i] = pos.Amount
        BY <1>2, <2>1, <2>3, <2>4 DEF StakeWorth
      <3>. QED  BY <2>2, <2>3, <3>1
    <2>5. CASE ~pos.IsActive
      <3>1. f[i] = 0 /\ g[i] = 0 /\ x[i] = -pos.TotalRewards
        BY <1>2, <2>1, <2>3, <2>5 DEF StakeWorth
      <3>. QED  BY <2>2, <2>3, <3>1
    <2>. QED  BY <2>4, <2>5
  <1>5. Terms(f, S) /\ Terms(g, S) /\ Terms(x, S) /\ Terms(y, S)
    BY <1>3, <1>4 DEF Terms
  <1>6. AddsUp(f, g, h, S) /\ AddsUp(x, y, h, S)
    BY <1>4 DEF AddsUp
  <1>7. SumFunctionOnSet(h, S) = SumFunctionOnSet(f, S) + SumFunctionOnSet(g, S)
    BY <1>5, <1>6, SumPlus
  <1>8. SumFunctionOnSet(h, S) = SumFunctionOnSet(x, S) + SumFunctionOnSet(y, S)
    BY <1>5, <1>6, SumPlus
  <1>9. SumFunctionOnSet(f, S) \in Nat /\ SumFunctionOnSet(g, S) \in Nat
    BY <1>4, <1>5, SumNat
  <1>10. TotalStaked = SumFunctionOnSet(f, S) /\ TotalRewardsPaid = SumFunctionOnSet(y, S)
    BY <1>1, <1>2 DEF TotalStaked, TotalRewardsPaid, SumFunction, RewardsOf
  <1>11. InStakes(positions) = SumFunctionOnSet(x, S) /\ Credited(positions) = SumFunctionOnSet(y, S)
    BY <1>1, <1>2 DEF InStakes, Credited
  <1>12. SumFunction([i \in 1 .. Len(positions) |->
             IF positions[i].IsActive THEN positions[i].TotalRewards ELSE 0])
           = SumFunctionOnSet(g, S)
    BY <1>1, <1>2 DEF SumFunction
  <1>. QED  BY <1>7, <1>8, <1>9, <1>10, <1>11, <1>12

\* Deposits are held while the vote is open and gone if it fails.
LEMMA DepositsHeld ==
  ASSUME proposals \in Seq(Proposal)
  PROVE  \E open, lost \in Nat :
            /\ open = SumFunction([i \in 1 .. Len(proposals) |->
                         IF proposals[i].Status = "voting" THEN proposals[i].Deposit ELSE 0])
            /\ lost = SumFunction([i \in 1 .. Len(proposals) |->
                         IF proposals[i].Status \in {"rejected", "expired"}
                         THEN proposals[i].Deposit ELSE 0])
            /\ open + lost = InDeposits(proposals)
  <1>1. PICK S : S = 1 .. Len(proposals)
    OBVIOUS
  <1>2. PICK f, g, h :
            /\ f = [i \in S |-> IF proposals[i].Status = "voting" THEN proposals[i].Deposit ELSE 0]
            /\ g = [i \in S |-> IF proposals[i].Status \in {"rejected", "expired"}
                                THEN proposals[i].Deposit ELSE 0]
            /\ h = DepositWorths(proposals)
    OBVIOUS
  <1>3. IsFiniteSet(S)
    BY <1>1, Places
  <1>4. ASSUME NEW i \in S
        PROVE  f[i] \in Nat /\ g[i] \in Nat /\ h[i] = f[i] + g[i]
    <2>1. PICK p \in Proposal : p = proposals[i]
      BY <1>1
    <2>2. p.Deposit \in Nat /\ p.Status \in Status
      BY <2>1 DEF Proposal
    <2>3. /\ h[i] = DepositWorth(p)
          /\ f[i] = IF p.Status = "voting" THEN p.Deposit ELSE 0
          /\ g[i] = IF p.Status \in {"rejected", "expired"} THEN p.Deposit ELSE 0
      BY <1>1, <1>2, <2>1 DEF DepositWorths
    <2>. QED  BY <2>2, <2>3 DEF DepositWorth, Status
  <1>5. Terms(f, S) /\ Terms(g, S) /\ AddsUp(f, g, h, S)
    BY <1>3, <1>4 DEF Terms, AddsUp
  <1>6. SumFunctionOnSet(h, S) = SumFunctionOnSet(f, S) + SumFunctionOnSet(g, S)
    BY <1>5, SumPlus
  <1>7. SumFunctionOnSet(f, S) \in Nat /\ SumFunctionOnSet(g, S) \in Nat
    BY <1>4, <1>5, SumNat
  <1>8. InDeposits(proposals) = SumFunctionOnSet(h, S)
    BY <1>1, <1>2 DEF InDeposits
  <1>9. SumFunction([i \in 1 .. Len(proposals) |->
            IF proposals[i].Status = "voting" THEN proposals[i].Deposit ELSE 0])
          = SumFunctionOnSet(f, S)
    BY <1>1, <1>2 DEF SumFunction
  <1>10. SumFunction([i \in 1 .. Len(proposals) |->
             IF proposals[i].Status \in {"rejected", "expired"} THEN proposals[i].Deposit ELSE 0])
           = SumFunctionOnSet(g, S)
    BY <1>1, <1>2 DEF SumFunction
  <1>. QED  BY <1>6, <1>7, <1>8, <1>9, <1>10

\* Held, Issued and what is between them.
LEMMA HeldAndIssued ==
  ASSUME LedgerInv, RewardsInv
  PROVE  /\ Held \in Int /\ Issued \in Int /\ Surplus \in Int
         /\ Held = Issued + Surplus
         /\ Balances(accounts) <= Held
         /\ Issued <= Genesis + Credited(positions) - InFees(txs)
  <1>1. /\ AccountsOK(accounts) /\ txs \in Seq(Transaction)
        /\ positions \in Seq(Position) /\ proposals \in Seq(Proposal)
    BY DEF LedgerInv, TypesInv, VotesInv, RewardsInv
  <1>2. PICK staked \in Nat, earned \in Nat :
            /\ staked = TotalStaked
            /\ earned = SumFunction([i \in 1 .. Len(positions) |->
                           IF positions[i].IsActive THEN positions[i].TotalRewards ELSE 0])
            /\ TotalRewardsPaid = Credited(positions)
            /\ staked + earned = InStakes(positions) + Credited(positions)
    BY <1>1, StakesHeld
  <1>3. PICK open \in Nat, lost \in Nat :
            /\ open = SumFunction([i \in 1 .. Len(proposals) |->
                         IF proposals[i].Status = "voting" THEN proposals[i].Deposit ELSE 0])
            /\ lost = SumFunction([i \in 1 .. Len(proposals) |->
                         IF proposals[i].Status \in {"rejected", "expired"}
                         THEN proposals[i].Deposit ELSE 0])
            /\ open + lost = InDeposits(proposals)
    BY <1>1, DepositsHeld
  <1>4. PICK bal \in Int, fees \in Int, g \in Nat, paid \in Nat, w \in Int, d \in Nat :
            /\ bal = Balances(accounts) /\ fees = InFees(txs) /\ g = Genesis
            /\ paid = Credited(positions) /\ w = InStakes(positions) /\ d = InDeposits(proposals)
    BY <1>1, BalanceTerms, FeeTerms, GenesisIsNat, PositionTerms, DepositTerms
  <1>5. Held = bal + staked + earned + open
    <2>1. SumFunction([a \in DOMAIN accounts |-> accounts[a].Balance]) = bal
      BY <1>4 DEF Balances, BalanceOf, SumFunction
    <2>. QED  BY <1>2, <1>3, <2>1 DEF Held
  <1>6. Issued = g + paid - fees - lost
    <2>1. SumFunction([i \in 1 .. Len(txs) |-> txs[i].Fee]) = fees
      BY <1>4 DEF InFees, FeesOf, SumFunction
    <2>. QED  BY <1>2, <1>3, <1>4, <2>1 DEF Issued, Genesis
  <1>7. Surplus = bal + w + d + fees - g
    BY <1>4 DEF Surplus
  <1>8. staked + earned = w + paid /\ open + lost = d
    BY <1>2, <1>3, <1>4
  <1>9. Held = Issued + Surplus
    BY <1>5, <1>6, <1>7, <1>8
  <1>10. bal <= Held /\ Issued <= g + paid - fees
    BY <1>5, <1>6
  <1>. QED  BY <1>4, <1>5, <1>6, <1>7, <1>9, <1>10

\* Nobody who has to be paid back is without an account.
OwnersKnown ==
    /\ staking # NoCall => staking.owner \in DOMAIN accounts
    /\ creating # NoCall => creating.proposer \in DOMAIN accounts
    /\ \A i \in 1 .. Len(positions) : positions[i].Owner \in DOMAIN accounts
    /\ \A i \in 1 .. Len(proposals) : proposals[i].Proposer \in DOMAIN accounts

\* What a dead process leaves in memory.
Idle ==
    /\ accounts = <<>> /\ txs = <<>> /\ positions = <<>> /\ proposals = <<>>
    /\ staking = NoCall /\ creating = NoCall

\* A file with nothing in it, or one that holds no more than the genesis
\* amounts and most.
Covered(accs, log, most) ==
    \/ accs = <<>> /\ log = <<>>
    \/ /\ DOMAIN GenesisAmount \subseteq DOMAIN accs
       /\ Balances(accs) + InFees(log) <= Genesis + most

CoinsInv ==
    /\ OwnersKnown
    /\ rewarded \in Nat
    /\ ~running => Idle
    /\ running => DOMAIN GenesisAmount \subseteq DOMAIN accounts /\ Surplus <= rewarded
    /\ Covered(stateFile.accounts, stateFile.txs, rewarded + Credited(positions))

LEMMA LoggedFees ==
  ASSUME NEW log \in Seq(Transaction), NEW t \in Transaction
  PROVE  InFees(Append(log, t)) = InFees(log) + t.Fee
  <1>1. PICK n, next : n = Len(log) /\ next = Append(log, t)
    OBVIOUS
  <1>2. /\ n \in Nat /\ next \in Seq(Transaction) /\ Len(next) = n + 1 /\ next[n + 1] = t
        /\ \A i \in 1 .. n : next[i] = log[i]
    BY <1>1
  <1>3. PICK f, g : f = FeesOf(log) /\ g = FeesOf(next)
    OBVIOUS
  <1>4. Terms(g, 1 .. n + 1)
    BY <1>2, <1>3, FeeTerms
  <1>5. \A i \in 1 .. n : f[i] = g[i]
    BY <1>1, <1>2, <1>3 DEF FeesOf
  <1>6. /\ SumFunctionOnSet(g, 1 .. n + 1) = SumFunctionOnSet(f, 1 .. n) + g[n + 1]
        /\ SumFunctionOnSet(f, 1 .. n) \in Int /\ g[n + 1] \in Int
    BY <1>2, <1>4, <1>5, SumOneMore
  <1>7. g[n + 1] = t.Fee
    BY <1>2, <1>3 DEF FeesOf
  <1>. QED  BY <1>1, <1>2, <1>3, <1>6, <1>7 DEF InFees

LEMMA MorePositions ==
  ASSUME NEW ps \in Seq(Position), NEW pos \in Position
  PROVE  /\ InStakes(Append(ps, pos)) = InStakes(ps) + StakeWorth(pos)
         /\ Credited(Append(ps, pos)) = Credited(ps) + pos.TotalRewards
  <1>1. PICK n, next : n = Len(ps) /\ next = Append(ps, pos)
    OBVIOUS
  <1>2. /\ n \in Nat /\ next \in Seq(Position) /\ Len(next) = n + 1 /\ next[n + 1] = pos
        /\ \A i \in 1 .. n : next[i] = ps[i]
    BY <1>1
  <1>3. PICK f, g : f = StakeWorths(ps) /\ g = StakeWorths(next)
    OBVIOUS
  <1>4. PICK x, y : x = RewardsOf(ps) /\ y = RewardsOf(next)
    OBVIOUS
  <1>5. Terms(g, 1 .. n + 1) /\ Terms(y, 1 .. n + 1)
    BY <1>2, <1>3, <1>4, PositionTerms
  <1>6. \A i \in 1 .. n : f[i] = g[i] /\ x[i] = y[i]
    BY <1>1, <1>2, <1>3, <1>4 DEF StakeWorths, RewardsOf
  <1>7. /\ SumFunctionOnSet(g, 1 .. n + 1) = SumFunctionOnSet(f, 1 .. n) + g[n + 1]
        /\ SumFunctionOnSet(f, 1 .. n) \in Int /\ g[n + 1] \in Int
    BY <1>2, <1>5, <1>6, SumOneMore
  <1>8. /\ SumFunctionOnSet(y, 1 .. n + 1) = SumFunctionOnSet(x, 1 .. n) + y[n + 1]
        /\ SumFunctionOnSet(x, 1 .. n) \in Int /\ y[n + 1] \in Int
    BY <1>2, <1>5, <1>6, SumOneMore
  <1>9. g[n + 1] = StakeWorth(pos) /\ y[n + 1] = pos.TotalRewards
    BY <1>2, <1>3, <1>4 DEF StakeWorths, RewardsOf
  <1>10. InStakes(next) = InStakes(ps) + StakeWorth(pos)
    BY <1>1, <1>2, <1>3, <1>7, <1>9 DEF InStakes
  <1>11. Credited(next) = Credited(ps) + pos.TotalRewards
    BY <1>1, <1>2, <1>4, <1>8, <1>9 DEF Credited
  <1>. QED  BY <1>1, <1>10, <1>11

LEMMA MoreProposals ==
  ASSUME NEW ps \in Seq(Proposal), NEW p \in Proposal
  PROVE  InDeposits(Append(ps, p)) = InDeposits(ps) + DepositWorth(p)
  <1>1. PICK n, next : n = Len(ps) /\ next = Append(ps, p)
    OBVIOUS
  <1>2. /\ n \in Nat /\ next \in Seq(Proposal) /\ Len(next) = n + 1 /\ next[n + 1] = p
        /\ \A i \in 1 .. n : next[i] = ps[i]
    BY <1>1
  <1>3. PICK f, g : f = DepositWorths(ps) /\ g = DepositWorths(next)
    OBVIOUS
  <1>4. Terms(g, 1 .. n + 1)
    BY <1>2, <1>3, DepositTerms
  <1>5. \A i \in 1 .. n : f[i] = g[i]
    BY <1>1, <1>2, <1>3 DEF DepositWorths
  <1>6. /\ SumFunctionOnSet(g, 1 .. n + 1) = SumFunctionOnSet(f, 1 .. n) + g[n + 1]
        /\ SumFunctionOnSet(f, 1 .. n) \in Int /\ g[n + 1] \in Int
    BY <1>2, <1>4, <1>5, SumOneMore
  <1>7. g[n + 1] = DepositWorth(p)
    BY <1>2, <1>3 DEF DepositWorths
  <1>. QED  BY <1>1, <1>2, <1>3, <1>6, <1>7 DEF InDeposits

\* The sums of an empty log, and of a process without positions.
LEMMA NothingSums == InFees(<<>>) = 0 /\ Credited(<<>>) = 0 /\ InStakes(<<>>) = 0 /\ InDeposits(<<>>) = 0
  <1>1. 1 .. Len(<<>>) = {}
    OBVIOUS
  <1>2. PICK f, g, h, k : f = FeesOf(<<>>) /\ g = RewardsOf(<<>>)
                          /\ h = StakeWorths(<<>>) /\ k = DepositWorths(<<>>)
    OBVIOUS
  <1>3. /\ SumFunctionOnSet(f, {}) = 0 /\ SumFunctionOnSet(g, {}) = 0
        /\ SumFunctionOnSet(h, {}) = 0 /\ SumFunctionOnSet(k, {}) = 0
    BY SumEmpty
  <1>. QED  BY <1>1, <1>2, <1>3 DEF InFees, Credited, InStakes, InDeposits

\* Computing the rewards of a position that has room for them credits them and
\* changes nothing else.
LEMMA RewardedPosition ==
  ASSUME clock \in Nat, NEW pos, NEW exact \in BOOLEAN, Earning(pos, clock, exact),
         NEW reward \in rewards(pos), RewardFits(pos, reward)
  PROVE  LET q == calculateRewards(pos, reward)
         IN  /\ q \in Position
             /\ q.Owner = pos.Owner /\ q.Amount = pos.Amount /\ q.IsActive = pos.IsActive
             /\ q.TotalRewards >= pos.TotalRewards
  <1>1. PICK q : q = calculateRewards(pos, reward)
    OBVIOUS
  <1>2. q \in Position /\ pos \in Position
    <2>1. Earning(calculateRewards(pos, reward), clock, FALSE)
      BY StillEarning
    <2>. QED  BY <1>1, <2>1 DEF Earning
  <1>3. reward \in Nat
    BY RewardIsNat DEF Earning
  <1>4. PICK t \in Nat : t = pos.TotalRewards
    BY <1>2 DEF Position
  <1>5. CASE reward > 0
    <2>1. q = [pos EXCEPT !.TotalRewards = ToUint64(@ + reward), !.LastReward = clock]
      BY <1>1, <1>5 DEF calculateRewards
    <2>2. q.Owner = pos.Owner /\ q.Amount = pos.Amount /\ q.IsActive = pos.IsActive
      BY <1>2, <2>1 DEF Position
    <2>3. q.TotalRewards = ToUint64(t + reward)
      BY <1>2, <1>4, <2>1 DEF Position
    <2>4. ToUint64(t + reward) = t + reward
      BY <1>3, <1>4, AsUint64 DEF RewardFits
    <2>5. q.TotalRewards >= pos.TotalRewards
      BY <1>3, <1>4, <2>3, <2>4
    <2>. QED  BY <1>1, <1>2, <2>2, <2>5
  <1>6. CASE ~(reward > 0)
    <2>1. q = pos
      BY <1>1, <1>6 DEF calculateRewards
    <2>. QED  BY <1>1, <1>2, <1>4, <2>1
  <1>. QED  BY <1>5, <1>6

\* What has wrapped around once counts as wrapped from then on.
LEMMA WrappedForGood ==
  ASSUME RewardsInv, [LedgerNext]_ledgerVars
  PROVE  wrapped' \in BOOLEAN /\ (~wrapped' => ~wrapped)
  <1>1. wrapped \in BOOLEAN
    BY DEF RewardsInv
  <1>2. CASE Start
    BY <1>1, <1>2 DEF Start, StateStart
  <1>3. CASE Send
    BY <1>1, <1>3 DEF Send, SignedTransfer
  <1>4. CASE StakingStep
    <2>1. ASSUME NEW owner, NEW amount, NEW green, StakeCheck(owner, amount, green)
          PROVE  wrapped' = wrapped
      BY <2>1 DEF StakeCheck, stateVars
    <2>2. ASSUME StakeDeduct PROVE \E more \in BOOLEAN : wrapped' = (wrapped \/ more)
      BY <2>2 DEF StakeDeduct
    <2>3. ASSUME NEW owner, NEW id, Unstake(owner, id)
          PROVE  \E more \in BOOLEAN : wrapped' = (wrapped \/ more)
      <3>1. PICK r, x : wrapped' = (wrapped \/ ~RewardFits(positions[id], r) \/ ~Fits(owner, x))
        BY <2>3 DEF Unstake
      <3>. QED  BY <3>1
    <2>4. ASSUME RewardLoop PROVE \E more \in BOOLEAN : wrapped' = (wrapped \/ more)
      BY <2>4 DEF RewardLoop
    <2>. QED  BY <1>1, <1>4, <2>1, <2>2, <2>3, <2>4 DEF StakingStep
  <1>5. CASE CreateBegin \/ CreateEnd \/ Cast \/ Close
    BY <1>1, <1>5 DEF CreateBegin, CreateCheck, CreateEnd, CreateDeduct, Cast, Vote, Close,
                      ProcessLoop, stateVars
  <1>6. CASE Wait
    BY <1>1, <1>6 DEF Wait, Hour
  <1>7. CASE Die
    <2>1. ASSUME StateCrash PROVE wrapped' = wrapped
      BY <2>1 DEF StateCrash
    <2>2. ASSUME NEW from, NEW to, NEW amount, NEW fee, NEW nonce, NEW saving,
                 CrashInTransfer(from, to, amount, fee, nonce, saving)
          PROVE  \E more \in BOOLEAN : wrapped' = (wrapped \/ more)
      BY <2>2 DEF CrashInTransfer
    <2>. QED  BY <1>1, <1>7, <2>1, <2>2 DEF Die
  <1>8. CASE UNCHANGED ledgerVars
    BY <1>1, <1>8 DEF ledgerVars, stateVars
  <1>. QED  BY <1>2, <1>3, <1>4, <1>5, <1>6, <1>7, <1>8 DEF LedgerNext

\* Something is credited only if there is room for it, or counts as wrapped.
LEMMA HasRoom ==
  ASSUME AccountsOK(accounts), NEW a \in DOMAIN accounts, NEW x \in Int, Fits(a, x)
  PROVE  accounts[a].Balance + x \in Int64
  BY DEF Fits, GetBalance, BalanceIn

(***************************************************************************)
(* A step of a running process after which everybody is still known, and   *)
(* that makes no coin; it loses none unless an address is short.           *)
(***************************************************************************)
Conserved ==
    /\ Surplus' \in Int /\ Surplus' <= Surplus
    /\ Short = {} => Surplus' = Surplus

CoinStep ==
    /\ UNCHANGED <<txs, stateFile, running, rewarded>> /\ running
    /\ DOMAIN accounts' = DOMAIN accounts
    /\ OwnersKnown'
    /\ Conserved
    /\ Credited(positions') \in Nat /\ Credited(positions') >= Credited(positions)

LEMMA MoreCovered ==
  ASSUME NEW accs, NEW log, NEW x \in Int, NEW y \in Int, x <= y, Covered(accs, log, x),
         AccountsOK(accs), log \in Seq(Transaction)
  PROVE  Covered(accs, log, y)
  <1>1. CASE accs = <<>> /\ log = <<>>
    BY <1>1 DEF Covered
  <1>2. CASE DOMAIN GenesisAmount \subseteq DOMAIN accs /\ Balances(accs) + InFees(log) <= Genesis + x
    <2>1. PICK b \in Int, f \in Int, g \in Int :
              b = Balances(accs) /\ f = InFees(log) /\ g = Genesis
      BY BalanceTerms, FeeTerms, GenesisIsNat
    <2>2. b + f <= g + y
      BY <1>2, <2>1
    <2>. QED  BY <1>2, <2>1, <2>2 DEF Covered
  <1>. QED  BY <1>1, <1>2 DEF Covered

LEMMA CoinStepKeeps ==
  ASSUME LedgerInv, RewardsInv, CoinsInv, CoinStep
  PROVE  CoinsInv'
  <1>1. PICK x \in Int, y \in Int, r \in Int, old \in Int, next \in Int :
            /\ x = rewarded + Credited(positions) /\ y = rewarded + Credited(positions')
            /\ r = rewarded
            /\ old = Credited(positions) /\ next = Credited(positions')
    <2>1. rewarded \in Nat /\ Credited(positions') \in Nat
      BY DEF CoinsInv, CoinStep
    <2>2. positions \in Seq(Position)
      BY DEF RewardsInv
    <2>3. Credited(positions) \in Nat
      BY <2>2, PositionTerms
    <2>. QED  BY <2>1, <2>3
  <1>2. x <= y
    <2>1. x = r + old /\ y = r + next /\ next >= old
      BY <1>1 DEF CoinStep
    <2>. QED  BY <2>1
  <1>3. Covered(stateFile.accounts, stateFile.txs, y)
    BY <1>1, <1>2, MoreCovered DEF CoinsInv, LedgerInv, TypesInv, FileOK
  <1>4. Surplus' <= rewarded
    <2>1. PICK s : s = Surplus'
      OBVIOUS
    <2>2. PICK t \in Int : t = Surplus
      BY HeldAndIssued
    <2>3. s <= t /\ t <= r
      BY <1>1, <2>1, <2>2 DEF CoinStep, Conserved, CoinsInv
    <2>4. Surplus' \in Int
      BY DEF CoinStep, Conserved
    <2>. QED  BY <1>1, <2>1, <2>2, <2>3, <2>4
  <1>5. rewarded' = rewarded /\ running' = running /\ stateFile' = stateFile /\ running
    BY DEF CoinStep
  <1>6. Covered(stateFile'.accounts, stateFile'.txs, rewarded' + Credited(positions'))
    BY <1>1, <1>3, <1>5
  <1>7. DOMAIN GenesisAmount \subseteq DOMAIN accounts'
    BY DEF CoinsInv, CoinStep
  <1>. QED  BY <1>4, <1>5, <1>6, <1>7 DEF CoinsInv, CoinStep

LEMMA SurplusIs ==
  ASSUME LedgerInv, RewardsInv
  PROVE  \E bal \in Int, w \in Int, d \in Int, f \in Int, g \in Int, c \in Nat :
            /\ bal = Balances(accounts) /\ w = InStakes(positions)
            /\ d = InDeposits(proposals) /\ f = InFees(txs) /\ g = Genesis
            /\ c = Credited(positions)
            /\ Surplus = bal + w + d + f - g
  <1>1. Balances(accounts) \in Int /\ InFees(txs) \in Int
    BY BalanceTerms, FeeTerms DEF LedgerInv, TypesInv
  <1>2. InStakes(positions) \in Int /\ Credited(positions) \in Nat
    BY PositionTerms DEF RewardsInv
  <1>3. InDeposits(proposals) \in Int
    BY DepositTerms DEF LedgerInv, VotesInv
  <1>. QED  BY <1>1, <1>2, <1>3, GenesisIsNat DEF Surplus

LEMMA DeductCoins ==
  ASSUME LedgerInv, RewardsInv, CoinsInv, running, StakeDeduct, ~wrapped',
         UNCHANGED <<governanceVars, running, history>>
  PROVE  CoinStep
  <1>1. /\ staking # NoCall /\ staking' = NoCall
        /\ accounts' = Credit(accounts, staking.owner, -staking.amount)
        /\ UNCHANGED <<txs, stateFile, running, rewarded, proposals, creating>>
    BY DEF StakeDeduct, governanceVars, history
  <1>2. /\ staking.owner \in Address /\ staking.amount \in Nat /\ staking.green \in BOOLEAN
        /\ clock \in Nat /\ positions \in Seq(Position)
    BY <1>1 DEF RewardsInv, StakeCall
  <1>3. staking.owner \in DOMAIN accounts /\ AccountsOK(accounts)
    BY <1>1 DEF CoinsInv, OwnersKnown, LedgerInv, TypesInv
  <1>4. PICK a, x : a = staking.owner /\ x = -staking.amount
    OBVIOUS
  <1>5. PICK next : next = accounts'
    OBVIOUS
  <1>6. Balances(next) = Balances(accounts) + x /\ DOMAIN next = DOMAIN accounts
    <2>1. a \in DOMAIN accounts /\ x \in Int
      BY <1>2, <1>3, <1>4
    <2>2. next = Credit(accounts, a, x)
      BY <1>1, <1>4, <1>5
    <2>3. Fits(a, x)
      BY <1>4 DEF StakeDeduct
    <2>4. accounts[a].Balance + x \in Int64
      BY <1>3, <2>1, <2>3, HasRoom
    <2>. QED  BY <1>3, <2>1, <2>2, <2>4, CreditBalances
  <1>7. PICK bal \in Int, w \in Int, d \in Int, f \in Int, g \in Int, c \in Nat :
            /\ bal = Balances(accounts) /\ w = InStakes(positions)
            /\ d = InDeposits(proposals) /\ f = InFees(txs) /\ g = Genesis
            /\ c = Credited(positions)
            /\ Surplus = bal + w + d + f - g
    BY SurplusIs
  <1>8. Surplus = bal + w + d + f - g
    BY <1>7
  <1>9. PICK ps : ps = positions'
    OBVIOUS
  <1>10. Surplus' = bal + x + InStakes(ps) + d + f - g
    <2>1. /\ InFees(txs') = f /\ InDeposits(proposals') = d /\ Balances(accounts') = bal + x
          /\ InStakes(positions') = InStakes(ps) /\ Genesis' = g
      BY <1>1, <1>5, <1>6, <1>7, <1>9 DEF Genesis
    <2>. QED  BY <2>1 DEF Surplus
  <1>11. \A i \in 1 .. Len(proposals') : proposals'[i].Proposer \in DOMAIN accounts'
    BY <1>1, <1>5, <1>6 DEF CoinsInv, OwnersKnown
  <1>12. creating' # NoCall => creating'.proposer \in DOMAIN accounts'
    BY <1>1, <1>5, <1>6 DEF CoinsInv, OwnersKnown
  <1>13. CASE a \in Short
    <2>1. ps = positions
      BY <1>4, <1>9, <1>13 DEF StakeDeduct
    <2>2. Surplus' = bal + x + w + d + f - g
      BY <1>7, <1>10, <2>1
    <2>3. x \in Int /\ x <= 0
      BY <1>2, <1>4
    <2>4. Conserved
      BY <1>8, <1>13, <2>2, <2>3 DEF Conserved
    <2>5. \A i \in 1 .. Len(positions') : positions'[i].Owner \in DOMAIN accounts'
      BY <1>5, <1>6, <1>9, <2>1 DEF CoinsInv, OwnersKnown
    <2>6. Credited(positions') = c
      BY <1>7, <1>9, <2>1
    <2>7. OwnersKnown'
      BY <1>1, <1>11, <1>12, <2>5 DEF OwnersKnown
    <2>. QED  BY <1>1, <1>5, <1>6, <1>7, <2>4, <2>6, <2>7 DEF CoinStep
  <1>14. CASE a \notin Short
    <2>1. PICK pos : pos = [Owner |-> a, Amount |-> staking.amount,
              StartTime |-> clock, LastReward |-> clock, TotalRewards |-> 0,
              IsGreen |-> staking.green, IsActive |-> TRUE]
      OBVIOUS
    <2>2. ps = Append(positions, pos)
      BY <1>4, <1>9, <1>14, <2>1 DEF StakeDeduct
    <2>3. pos \in Position
      BY <1>2, <1>4, <2>1 DEF Position
    <2>4. InStakes(ps) = w + StakeWorth(pos) /\ Credited(ps) = c + pos.TotalRewards
      BY <1>2, <1>7, <2>2, <2>3, MorePositions
    <2>5. StakeWorth(pos) = staking.amount /\ pos.TotalRewards = 0 /\ pos.Owner = a
      BY <2>1 DEF StakeWorth
    <2>6. Surplus' = Surplus /\ Surplus' \in Int
      <3>1. PICK m \in Nat : m = staking.amount
        BY <1>2
      <3>2. x = -m /\ InStakes(ps) = w + m
        BY <1>4, <2>4, <2>5, <3>1
      <3>3. Surplus' = bal + w + d + f - g
        BY <1>10, <3>2
      <3>. QED  BY <1>8, <3>3
    <2>7. Conserved
      BY <2>6 DEF Conserved
    <2>8. PICK n \in Nat : n = Len(positions)
      BY <1>2
    <2>9. /\ Len(ps) = n + 1 /\ ps[n + 1] = pos
          /\ \A i \in 1 .. n : ps[i] = positions[i]
      BY <1>2, <2>2, <2>3, <2>8
    <2>10. \A i \in 1 .. Len(positions') : positions'[i].Owner \in DOMAIN accounts'
      <3>1. ASSUME NEW i \in 1 .. n + 1 PROVE ps[i].Owner \in DOMAIN accounts
        <4>1. CASE i \in 1 .. n
          BY <2>8, <2>9, <4>1 DEF CoinsInv, OwnersKnown
        <4>2. CASE i = n + 1
          BY <1>3, <1>4, <2>5, <2>9, <4>2
        <4>. QED  BY <2>8, <4>1, <4>2
      <3>. QED  BY <1>5, <1>6, <1>9, <2>9, <3>1
    <2>11. Credited(positions') = c
      BY <1>7, <1>9, <2>4, <2>5
    <2>12. OwnersKnown'
      BY <1>1, <1>11, <1>12, <2>10 DEF OwnersKnown
    <2>. QED  BY <1>1, <1>5, <1>6, <1>7, <2>7, <2>11, <2>12 DEF CoinStep
  <1>. QED  BY <1>13, <1>14

\* One position is replaced.
LEMMA OtherPosition ==
  ASSUME NEW ps \in Seq(Position), NEW qs \in Seq(Position), Len(qs) = Len(ps),
         NEW id \in 1 .. Len(ps), \A i \in 1 .. Len(ps) : i # id => qs[i] = ps[i]
  PROVE  /\ InStakes(qs) = InStakes(ps) - StakeWorth(ps[id]) + StakeWorth(qs[id])
         /\ Credited(qs) = Credited(ps) - ps[id].TotalRewards + qs[id].TotalRewards
  <1>1. PICK S : S = 1 .. Len(ps)
    OBVIOUS
  <1>2. PICK f, g : f = StakeWorths(ps) /\ g = StakeWorths(qs)
    OBVIOUS
  <1>3. PICK x, y : x = RewardsOf(ps) /\ y = RewardsOf(qs)
    OBVIOUS
  <1>4. Terms(f, S) /\ Terms(g, S) /\ Terms(x, S) /\ Terms(y, S)
    BY <1>1, <1>2, <1>3, PositionTerms
  <1>5. ASSUME NEW i \in S
        PROVE  /\ f[i] = StakeWorth(ps[i]) /\ g[i] = StakeWorth(qs[i])
               /\ x[i] = ps[i].TotalRewards /\ y[i] = qs[i].TotalRewards
    BY <1>1, <1>2, <1>3 DEF StakeWorths, RewardsOf
  <1>6. SameBut(f, g, S, id) /\ SameBut(x, y, S, id)
    BY <1>1, <1>5 DEF SameBut
  <1>7. id \in S
    BY <1>1
  <1>8. /\ SumFunctionOnSet(g, S) = SumFunctionOnSet(f, S) - f[id] + g[id]
        /\ SumFunctionOnSet(y, S) = SumFunctionOnSet(x, S) - x[id] + y[id]
    BY <1>4, <1>6, <1>7, SumChange
  <1>. QED  BY <1>1, <1>2, <1>3, <1>5, <1>7, <1>8 DEF InStakes, Credited

LEMMA UnstakeCoins ==
  ASSUME LedgerInv, RewardsInv, CoinsInv, running, NEW owner, NEW id, Unstake(owner, id),
         ~wrapped', UNCHANGED <<governanceVars, running, history>>
  PROVE  CoinStep
  <1>1. PICK old, reward, pos, ps, next :
            /\ old = positions[id] /\ reward \in rewards(old) /\ pos = calculateRewards(old, reward)
            /\ ps = positions' /\ next = accounts'
            /\ next = Credit(accounts, owner, pos.Amount + pos.TotalRewards)
            /\ ps = [positions EXCEPT ![id] = [pos EXCEPT !.IsActive = FALSE]]
            /\ RewardFits(old, reward) /\ Fits(owner, pos.Amount + pos.TotalRewards)
    BY DEF Unstake
  <1>2. /\ id \in 1 .. Len(positions) /\ old.Owner = owner /\ old.IsActive
        /\ next = Credit(accounts, owner, pos.Amount + pos.TotalRewards)
        /\ ps = [positions EXCEPT ![id] = [pos EXCEPT !.IsActive = FALSE]]
        /\ staking = NoCall
        /\ UNCHANGED <<txs, stateFile, running, rewarded, proposals, creating, staking>>
    BY <1>1 DEF Unstake, governanceVars, history
  <1>3. /\ clock \in Nat /\ positions \in Seq(Position) /\ wrapped \in BOOLEAN
        /\ Earning(old, clock, ~wrapped) /\ old \in Position
    BY <1>1, <1>2 DEF RewardsInv, Earning
  <1>4. /\ pos \in Position /\ pos.Owner = owner /\ pos.Amount = old.Amount
        /\ pos.IsActive = old.IsActive /\ pos.TotalRewards >= old.TotalRewards
    BY <1>1, <1>2, <1>3, RewardedPosition
  <1>5. PICK m \in Nat, t \in Nat, u \in Nat :
            m = old.Amount /\ t = old.TotalRewards /\ u = pos.TotalRewards
    BY <1>3, <1>4 DEF Position
  <1>6. PICK done : done = [pos EXCEPT !.IsActive = FALSE]
    OBVIOUS
  <1>7. /\ done \in Position /\ done.Owner = owner /\ done.TotalRewards = u /\ ~done.IsActive
    BY <1>4, <1>5, <1>6 DEF Position
  <1>8. /\ ps \in Seq(Position) /\ Len(ps) = Len(positions) /\ ps[id] = done
        /\ \A i \in 1 .. Len(positions) : i # id => ps[i] = positions[i]
    BY <1>2, <1>3, <1>6, <1>7
  <1>9. PICK x : x = m + u
    OBVIOUS
  <1>10. Balances(next) = Balances(accounts) + x /\ DOMAIN next = DOMAIN accounts
    <2>1. owner \in DOMAIN accounts /\ AccountsOK(accounts)
      BY <1>1, <1>2 DEF CoinsInv, OwnersKnown, LedgerInv, TypesInv
    <2>2. next = Credit(accounts, owner, x) /\ x \in Int /\ Fits(owner, x)
      BY <1>1, <1>4, <1>5, <1>9
    <2>3. accounts[owner].Balance + x \in Int64
      BY <2>1, <2>2, HasRoom
    <2>. QED  BY <2>1, <2>2, <2>3, CreditBalances
  <1>11. PICK bal \in Int, w \in Int, d \in Int, f \in Int, g \in Int, c \in Nat :
            /\ bal = Balances(accounts) /\ w = InStakes(positions)
            /\ d = InDeposits(proposals) /\ f = InFees(txs) /\ g = Genesis
            /\ c = Credited(positions)
            /\ Surplus = bal + w + d + f - g
    BY SurplusIs
  <1>12. /\ InStakes(ps) = InStakes(positions) - StakeWorth(old) + StakeWorth(done)
         /\ Credited(ps) = Credited(positions) - old.TotalRewards + done.TotalRewards
    <2>1. PICK qs, rs : qs = positions /\ rs = ps
      OBVIOUS
    <2>2. /\ qs \in Seq(Position) /\ rs \in Seq(Position) /\ Len(rs) = Len(qs)
          /\ id \in 1 .. Len(qs) /\ \A i \in 1 .. Len(qs) : i # id => rs[i] = qs[i]
      BY <1>2, <1>3, <1>8, <2>1
    <2>3. /\ InStakes(rs) = InStakes(qs) - StakeWorth(qs[id]) + StakeWorth(rs[id])
          /\ Credited(rs) = Credited(qs) - qs[id].TotalRewards + rs[id].TotalRewards
      BY <2>2, OtherPosition
    <2>4. qs[id] = old /\ rs[id] = done
      BY <1>1, <1>8, <2>1
    <2>. QED  BY <2>1, <2>3, <2>4
  <1>13. StakeWorth(old) = m /\ StakeWorth(done) = -u
    BY <1>2, <1>5, <1>7 DEF StakeWorth
  <1>14. InStakes(ps) = w - m - u /\ Credited(ps) = c - t + u
    BY <1>5, <1>7, <1>11, <1>12, <1>13
  <1>15. Surplus = bal + w + d + f - g
    BY <1>11
  <1>16. Surplus' = bal + x + (w - m - u) + d + f - g
    <2>1. /\ InFees(txs') = f /\ InDeposits(proposals') = d /\ Balances(accounts') = bal + x
          /\ InStakes(positions') = w - m - u /\ Genesis' = g
      BY <1>1, <1>2, <1>10, <1>11, <1>14 DEF Genesis
    <2>. QED  BY <2>1 DEF Surplus
  <1>17. Surplus' = Surplus /\ Surplus' \in Int
    BY <1>9, <1>15, <1>16
  <1>18. Conserved
    BY <1>17 DEF Conserved
  <1>19. Credited(ps) \in Nat /\ Credited(ps) >= c
    BY <1>4, <1>5, <1>14
  <1>20. \A i \in 1 .. Len(positions') : positions'[i].Owner \in DOMAIN accounts'
    <2>1. ASSUME NEW i \in 1 .. Len(positions) PROVE ps[i].Owner \in DOMAIN accounts
      <3>1. positions[i].Owner \in DOMAIN accounts
        BY DEF CoinsInv, OwnersKnown
      <3>2. CASE i = id
        BY <1>1, <1>2, <1>7, <1>8, <3>1, <3>2
      <3>. QED  BY <1>8, <3>1, <3>2
    <2>. QED  BY <1>1, <1>8, <1>10, <2>1
  <1>21. OwnersKnown'
    <2>1. \A i \in 1 .. Len(proposals') : proposals'[i].Proposer \in DOMAIN accounts'
      BY <1>1, <1>2, <1>10 DEF CoinsInv, OwnersKnown
    <2>2. creating' # NoCall => creating'.proposer \in DOMAIN accounts'
      BY <1>1, <1>2, <1>10 DEF CoinsInv, OwnersKnown
    <2>. QED  BY <1>2, <1>20, <2>1, <2>2 DEF OwnersKnown
  <1>. QED  BY <1>1, <1>2, <1>10, <1>11, <1>18, <1>19, <1>21 DEF CoinStep

LEMMA LoopCoins ==
  ASSUME LedgerInv, RewardsInv, CoinsInv, running, RewardLoop, ~wrapped',
         UNCHANGED <<governanceVars, running, history>>
  PROVE  CoinStep
  <1>1. PICK ps, reward :
            /\ ps = positions'
            /\ \A i \in 1 .. Len(positions) : reward[i] \in rewards(positions[i])
            /\ ps = [i \in 1 .. Len(positions) |->
                       IF positions[i].IsActive
                       THEN calculateRewards(positions[i], reward[i]) ELSE positions[i]]
            /\ \A i \in 1 .. Len(positions) :
                  positions[i].IsActive => RewardFits(positions[i], reward[i])
    BY DEF RewardLoop
  <1>2. /\ ps = [i \in 1 .. Len(positions) |->
                   IF positions[i].IsActive
                   THEN calculateRewards(positions[i], reward[i]) ELSE positions[i]]
        /\ UNCHANGED <<accounts, txs, stateFile, running, rewarded, proposals, creating, staking>>
    BY <1>1 DEF RewardLoop, governanceVars, history
  <1>3. clock \in Nat /\ positions \in Seq(Position) /\ wrapped \in BOOLEAN
    BY DEF RewardsInv
  <1>4. ASSUME NEW i \in 1 .. Len(positions)
        PROVE  /\ ps[i] \in Position /\ ps[i].Owner = positions[i].Owner
               /\ StakeWorth(ps[i]) = StakeWorth(positions[i])
               /\ ps[i].TotalRewards >= positions[i].TotalRewards
    <2>1. PICK old : old = positions[i]
      OBVIOUS
    <2>2. Earning(old, clock, ~wrapped) /\ old \in Position /\ old.TotalRewards \in Nat
      BY <2>1 DEF RewardsInv, Earning, Position
    <2>3. CASE old.IsActive
      <3>1. PICK pos, r : /\ pos = calculateRewards(old, r) /\ r = reward[i]
                          /\ r \in rewards(old) /\ RewardFits(old, r)
        BY <1>1, <2>1, <2>3
      <3>2. ps[i] = pos
        BY <1>2, <2>1, <2>3, <3>1
      <3>3. /\ pos \in Position /\ pos.Owner = old.Owner /\ pos.Amount = old.Amount
            /\ pos.IsActive = old.IsActive /\ pos.TotalRewards >= old.TotalRewards
        BY <1>3, <2>2, <3>1, RewardedPosition
      <3>4. StakeWorth(pos) = StakeWorth(old)
        BY <2>3, <3>3 DEF StakeWorth
      <3>. QED  BY <2>1, <3>2, <3>3, <3>4
    <2>4. CASE ~old.IsActive
      <3>1. ps[i] = old
        BY <1>2, <2>1, <2>4
      <3>. QED  BY <2>1, <2>2, <3>1
    <2>. QED  BY <2>3, <2>4
  <1>5. PICK n \in Nat : n = Len(positions)
    BY <1>3
  <1>6. ps \in Seq(Position) /\ Len(ps) = n
    BY <1>2, <1>4, <1>5
  <1>7. PICK S : S = 1 .. n
    OBVIOUS
  <1>8. PICK f, g : f = StakeWorths(positions) /\ g = StakeWorths(ps)
    OBVIOUS
  <1>9. PICK x, y : x = RewardsOf(positions) /\ y = RewardsOf(ps)
    OBVIOUS
  <1>10. Terms(f, S) /\ Terms(x, S) /\ Terms(y, S)
    BY <1>3, <1>5, <1>6, <1>7, <1>8, <1>9, PositionTerms
  <1>11. /\ \A i \in S : f[i] = g[i]
         /\ NoMoreThan(x, y, S)
    <2>1. ASSUME NEW i \in S PROVE f[i] = g[i] /\ x[i] <= y[i]
      <3>1. f[i] = StakeWorth(positions[i]) /\ g[i] = StakeWorth(ps[i])
        BY <1>5, <1>6, <1>7, <1>8 DEF StakeWorths
      <3>2. x[i] = positions[i].TotalRewards /\ y[i] = ps[i].TotalRewards
        BY <1>5, <1>6, <1>7, <1>9 DEF RewardsOf
      <3>3. x[i] \in Int /\ y[i] \in Int
        BY <1>10 DEF Terms
      <3>. QED  BY <1>4, <1>5, <1>7, <3>1, <3>2, <3>3
    <2>. QED  BY <2>1 DEF NoMoreThan
  <1>12. InStakes(ps) = InStakes(positions)
    <2>1. SumFunctionOnSet(f, S) = SumFunctionOnSet(g, S)
      BY <1>10, <1>11, SumSame DEF Terms
    <2>. QED  BY <1>5, <1>6, <1>7, <1>8, <2>1 DEF InStakes
  <1>13. Credited(ps) >= Credited(positions) /\ Credited(ps) \in Nat
    <2>1. SumFunctionOnSet(x, S) <= SumFunctionOnSet(y, S)
      BY <1>10, <1>11, SumMonotone
    <2>2. Credited(positions) = SumFunctionOnSet(x, S) /\ Credited(ps) = SumFunctionOnSet(y, S)
      BY <1>5, <1>6, <1>7, <1>9 DEF Credited
    <2>3. Credited(ps) \in Nat /\ Credited(positions) \in Nat
      BY <1>3, <1>6, PositionTerms
    <2>. QED  BY <2>1, <2>2, <2>3
  <1>14. Surplus' = Surplus
    BY <1>1, <1>2, <1>12 DEF Surplus, Genesis
  <1>15. Conserved
    <2>1. PICK s \in Int : s = Surplus
      BY HeldAndIssued
    <2>2. Surplus' = s
      BY <1>14, <2>1
    <2>. QED  BY <2>1, <2>2 DEF Conserved
  <1>16. OwnersKnown'
    BY <1>1, <1>2, <1>4, <1>5, <1>6 DEF CoinsInv, OwnersKnown
  <1>. QED  BY <1>1, <1>2, <1>13, <1>15, <1>16 DEF CoinStep

\* A request that finds its amount on an account finds the account.
LEMMA PayerIsKnown ==
  ASSUME NEW a, NEW m \in Nat \ {0}, ToUint64(GetBalance(a)) >= m
  PROVE  a \in DOMAIN accounts
  <1>. SUFFICES ASSUME a \notin DOMAIN accounts PROVE FALSE
    OBVIOUS
  <1>1. GetBalance(a) = 0
    BY DEF GetBalance, BalanceIn
  <1>2. PICK z \in Int : z = GetBalance(a) /\ z = 0
    BY <1>1
  <1>3. z \in Uint64
    BY <1>2, WordIs DEF Uint64
  <1>4. ToUint64(z) = z
    BY <1>3, AsUint64
  <1>. QED  BY <1>2, <1>4

LEMMA CallCoins ==
  ASSUME LedgerInv, RewardsInv, CoinsInv, running, OwnersKnown',
         UNCHANGED <<accounts, txs, stateFile, positions, proposals, running, rewarded>>
  PROVE  CoinStep
  <1>1. Surplus' = Surplus /\ Surplus \in Int
    BY HeldAndIssued DEF Surplus, Genesis
  <1>2. Conserved
    BY <1>1 DEF Conserved
  <1>3. Credited(positions') \in Nat /\ Credited(positions') = Credited(positions)
    BY PositionTerms DEF RewardsInv
  <1>. QED  BY <1>2, <1>3 DEF CoinStep

LEMMA StakingCoins ==
  ASSUME LedgerInv, RewardsInv, CoinsInv, StakingStep, ~wrapped'
  PROVE  CoinStep
  <1>1. running /\ UNCHANGED <<governanceVars, running, history>>
    BY DEF StakingStep
  <1>2. ASSUME NEW owner \in Address, NEW amount \in Stakes, NEW green \in BOOLEAN,
               StakeCheck(owner, amount, green)
        PROVE  CoinStep
    <2>1. /\ staking' = [owner |-> owner, amount |-> amount, green |-> green]
          /\ ToUint64(GetBalance(owner)) >= amount /\ amount >= MinStake
          /\ UNCHANGED <<accounts, txs, stateFile, positions, proposals, creating, rewarded>>
      BY <1>1, <1>2 DEF StakeCheck, stateVars, governanceVars, history
    <2>2. amount \in Nat \ {0}
      <3>1. amount \in Nat
        BY LedgerAssumption, WordTypes
      <3>2. PICK least \in Nat \ {0} : least = MinStake
        BY StakingAssumption
      <3>. QED  BY <2>1, <3>1, <3>2
    <2>3. owner \in DOMAIN accounts
      BY <2>1, <2>2, PayerIsKnown
    <2>4. staking'.owner = owner
      BY <2>1
    <2>5. OwnersKnown'
      BY <2>1, <2>3, <2>4 DEF CoinsInv, OwnersKnown
    <2>. QED  BY <1>1, <2>1, <2>5, CallCoins
  <1>3. CASE StakeDeduct
    BY <1>1, <1>3, DeductCoins
  <1>4. ASSUME NEW owner \in Address, NEW id \in 1 .. Len(positions), Unstake(owner, id)
        PROVE  CoinStep
    BY <1>1, <1>4, UnstakeCoins
  <1>5. CASE RewardLoop
    BY <1>1, <1>5, LoopCoins
  <1>. QED  BY <1>2, <1>3, <1>4, <1>5 DEF StakingStep

LEMMA BeginCoins ==
  ASSUME LedgerInv, RewardsInv, CoinsInv, CreateBegin
  PROVE  CoinStep
  <1>1. PICK proposer \in Address, deposit \in Deposits : CreateCheck(proposer, deposit)
    BY DEF CreateBegin
  <1>2. /\ creating' = [proposer |-> proposer, deposit |-> deposit]
        /\ ToUint64(GetBalance(proposer)) >= deposit /\ deposit >= MinDeposit
        /\ running
        /\ UNCHANGED <<accounts, txs, stateFile, positions, staking, proposals, running, rewarded>>
    BY <1>1 DEF CreateBegin, CreateCheck, stateVars, stakingVars, history
  <1>3. deposit \in Nat \ {0}
    <2>1. deposit \in Nat
      BY LedgerAssumption, WordTypes
    <2>2. PICK least \in Nat \ {0} : least = MinDeposit
      BY GovernanceAssumption
    <2>. QED  BY <1>2, <2>1, <2>2
  <1>4. proposer \in DOMAIN accounts
    BY <1>2, <1>3, PayerIsKnown
  <1>5. creating'.proposer = proposer
    BY <1>2
  <1>6. OwnersKnown'
    BY <1>2, <1>4, <1>5 DEF CoinsInv, OwnersKnown
  <1>. QED  BY <1>2, <1>6, CallCoins

LEMMA EndCoins ==
  ASSUME LedgerInv, RewardsInv, CoinsInv, CreateEnd, ~wrapped'
  PROVE  CoinStep
  <1>1. /\ creating # NoCall /\ creating' = NoCall /\ running
        /\ accounts' = Credit(accounts, creating.proposer, -creating.deposit)
        /\ UNCHANGED <<txs, stateFile, running, rewarded, positions, staking>>
    BY DEF CreateEnd, CreateDeduct, stakingVars, history
  <1>2. /\ creating.proposer \in Address /\ creating.deposit \in Nat /\ clock \in Nat
        /\ AccountsOK(accounts) /\ creating.proposer \in DOMAIN accounts
        /\ proposals \in Seq(Proposal)
    BY <1>1 DEF RewardsInv, LedgerInv, TypesInv, VotesInv, CoinsInv, OwnersKnown, CreateCall
  <1>3. PICK a, x, p, next, qs :
            /\ a = creating.proposer /\ x = -creating.deposit
            /\ p = [Proposer |-> creating.proposer, Deposit |-> creating.deposit,
                    Status |-> "voting", EndTime |-> clock + VotingPeriod, Votes |-> <<>>,
                    Power |-> [o \in VoteOption |-> 0], TotalPower |-> 0]
            /\ next = accounts' /\ qs = proposals'
    OBVIOUS
  <1>4. qs = Append(proposals, p)
    BY <1>3 DEF CreateEnd, CreateDeduct
  <1>5. p \in Proposal
    <2>1. /\ "voting" \in Status /\ clock + VotingPeriod \in Nat /\ <<>> \in Seq(VoteRecord)
          /\ [o \in VoteOption |-> 0] \in [VoteOption -> Nat]
      BY <1>2, GovernanceAssumption DEF Status
    <2>. QED  BY <1>2, <1>3, <2>1 DEF Proposal
  <1>6. Balances(next) = Balances(accounts) + x /\ DOMAIN next = DOMAIN accounts
    <2>1. a \in DOMAIN accounts /\ x \in Int
      BY <1>2, <1>3
    <2>2. next = Credit(accounts, a, x)
      BY <1>1, <1>3
    <2>3. Fits(a, x)
      BY <1>3 DEF CreateEnd, CreateDeduct
    <2>4. accounts[a].Balance + x \in Int64
      BY <1>2, <2>1, <2>3, HasRoom
    <2>. QED  BY <1>2, <2>1, <2>2, <2>4, CreditBalances
  <1>7. PICK bal \in Int, w \in Int, d \in Int, f \in Int, g \in Int, c \in Nat :
            /\ bal = Balances(accounts) /\ w = InStakes(positions)
            /\ d = InDeposits(proposals) /\ f = InFees(txs) /\ g = Genesis
            /\ c = Credited(positions)
            /\ Surplus = bal + w + d + f - g
    BY SurplusIs
  <1>8. InDeposits(qs) = d + DepositWorth(p)
    BY <1>2, <1>4, <1>5, <1>7, MoreProposals
  <1>9. PICK m \in Nat : m = creating.deposit
    BY <1>2
  <1>10. InDeposits(qs) = d + m /\ x = -m /\ p.Proposer = a
    BY <1>3, <1>8, <1>9 DEF DepositWorth
  <1>11. Surplus = bal + w + d + f - g
    BY <1>7
  <1>12. Surplus' = bal + x + w + (d + m) + f - g
    <2>1. /\ InFees(txs') = f /\ InDeposits(proposals') = d + m /\ Balances(accounts') = bal + x
          /\ InStakes(positions') = w /\ Genesis' = g
      BY <1>1, <1>3, <1>6, <1>7, <1>10 DEF Genesis
    <2>. QED  BY <2>1 DEF Surplus
  <1>13. Surplus' = Surplus /\ Surplus' \in Int
    BY <1>10, <1>11, <1>12
  <1>14. Conserved
    BY <1>13 DEF Conserved
  <1>15. PICK n \in Nat : n = Len(proposals)
    BY <1>2
  <1>16. Len(qs) = n + 1 /\ qs[n + 1] = p /\ \A i \in 1 .. n : qs[i] = proposals[i]
    BY <1>2, <1>4, <1>5, <1>15
  <1>17. \A i \in 1 .. Len(proposals') : proposals'[i].Proposer \in DOMAIN accounts'
    <2>1. ASSUME NEW i \in 1 .. n + 1 PROVE qs[i].Proposer \in DOMAIN accounts
      <3>1. CASE i \in 1 .. n
        BY <1>15, <1>16, <3>1 DEF CoinsInv, OwnersKnown
      <3>2. CASE i = n + 1
        BY <1>2, <1>3, <1>10, <1>16, <3>2
      <3>. QED  BY <1>15, <3>1, <3>2
    <2>. QED  BY <1>3, <1>6, <1>16, <2>1
  <1>18. OwnersKnown'
    BY <1>1, <1>3, <1>6, <1>17 DEF CoinsInv, OwnersKnown
  <1>19. Credited(positions') = c
    BY <1>1, <1>7
  <1>. QED  BY <1>1, <1>3, <1>6, <1>7, <1>14, <1>18, <1>19 DEF CoinStep

LEMMA CastCoins ==
  ASSUME LedgerInv, RewardsInv, CoinsInv, Cast
  PROVE  CoinStep
  <1>1. PICK id \in 1 .. Len(proposals), voter \in Address, option \in VoteOption :
            Vote(id, voter, option)
    BY DEF Cast
  <1>2. PICK power \in Nat : power = ToUint64(GetBalance(voter))
    BY PowerOfVoter DEF LedgerInv
  <1>3. PICK p, r, q, qs : /\ p = proposals[id] /\ r = WithoutVote(p, voter)
                           /\ q = WithVote(r, voter, option, power) /\ qs = proposals'
    OBVIOUS
  <1>4. /\ qs = [proposals EXCEPT ![id] = q] /\ running
        /\ UNCHANGED <<accounts, txs, stateFile, positions, staking, creating, running, rewarded>>
    BY <1>1, <1>2, <1>3 DEF Cast, Vote, stateVars, stakingVars, history
  <1>5. Tallied(p) /\ proposals \in Seq(Proposal)
    BY <1>3 DEF LedgerInv, VotesInv
  <1>6. Tallied(r) /\ NoVoteOf(r.Votes, voter) /\ SameTerms(p, r)
    BY <1>3, <1>5, WithoutVoteTallied
  <1>7. Tallied(q) /\ SameTerms(r, q)
    BY <1>3, <1>6, WithVoteTallied
  <1>8. q \in Proposal /\ DepositWorth(q) = DepositWorth(p) /\ q.Proposer = p.Proposer
    BY <1>6, <1>7 DEF SameTerms, DepositWorth, Tallied
  <1>9. PICK n \in Nat : n = Len(proposals)
    BY <1>5
  <1>10. /\ qs \in Seq(Proposal) /\ Len(qs) = n
         /\ \A i \in 1 .. n : qs[i] = IF i = id THEN q ELSE proposals[i]
    BY <1>4, <1>5, <1>8, <1>9
  <1>11. \A i \in 1 .. n : /\ DepositWorth(qs[i]) = DepositWorth(proposals[i])
                           /\ qs[i].Proposer = proposals[i].Proposer
    BY <1>3, <1>8, <1>10
  <1>12. InDeposits(qs) = InDeposits(proposals)
    <2>1. PICK f, g : f = DepositWorths(proposals) /\ g = DepositWorths(qs)
      OBVIOUS
    <2>2. \A i \in 1 .. n : f[i] = g[i]
      BY <1>9, <1>10, <1>11, <2>1 DEF DepositWorths
    <2>3. IsFiniteSet(1 .. n)
      BY <1>5, <1>9, Places
    <2>4. SumFunctionOnSet(f, 1 .. n) = SumFunctionOnSet(g, 1 .. n)
      BY <2>2, <2>3, SumSame
    <2>. QED  BY <1>9, <1>10, <2>1, <2>4 DEF InDeposits
  <1>13. Surplus' = Surplus /\ Surplus \in Int
    BY <1>3, <1>4, <1>12, HeldAndIssued DEF Surplus, Genesis
  <1>14. Conserved
    BY <1>13 DEF Conserved
  <1>15. OwnersKnown'
    BY <1>3, <1>4, <1>9, <1>10, <1>11 DEF CoinsInv, OwnersKnown
  <1>16. Credited(positions') \in Nat /\ Credited(positions') = Credited(positions)
    BY <1>4, PositionTerms DEF RewardsInv
  <1>. QED  BY <1>4, <1>14, <1>15, <1>16 DEF CoinStep

\* The proposals that this round of processLoop closes as passed.
Passing == {i \in Due : Outcome(proposals[i]) = "passed"}

LEMMA CloseDeposits ==
  ASSUME LedgerInv, Close
  PROVE  /\ InDeposits(proposals') = InDeposits(proposals) - SumFunctionOnSet(DepositAt, Passing)
         /\ Len(proposals') = Len(proposals)
         /\ \A i \in 1 .. Len(proposals) : proposals'[i].Proposer = proposals[i].Proposer
  <1>1. PICK qs : qs = proposals'
    OBVIOUS
  <1>2. qs = [i \in 1 .. Len(proposals) |->
                IF i \in Due THEN [proposals[i] EXCEPT !.Status = Outcome(proposals[i])]
                ELSE proposals[i]]
    BY <1>1 DEF Close, ProcessLoop
  <1>3. proposals \in Seq(Proposal) /\ Passing \subseteq Due /\ Due \subseteq 1 .. Len(proposals)
    BY DEF LedgerInv, VotesInv, Passing, Due
  <1>4. PICK n \in Nat : n = Len(proposals)
    BY <1>3
  <1>5. PICK S, R, h, f : /\ S = 1 .. n /\ R = Passing
                          /\ h = DepositWorths(proposals) /\ f = DepositAt
    OBVIOUS
  <1>6. ASSUME NEW i \in S
        PROVE  /\ qs[i] \in Proposal /\ qs[i].Proposer = proposals[i].Proposer
               /\ h[i] = DepositWorth(qs[i]) + (IF i \in R THEN f[i] ELSE 0)
               /\ DepositWorth(qs[i]) \in Int /\ f[i] \in Nat
    <2>1. PICK p : p = proposals[i]
      OBVIOUS
    <2>2. /\ p \in Proposal /\ Tallied(p) /\ h[i] = DepositWorth(p) /\ f[i] = p.Deposit
          /\ p.Deposit \in Nat
      <3>1. i \in 1 .. Len(proposals)
        BY <1>4, <1>5
      <3>2. p \in Proposal /\ Tallied(p)
        BY <1>3, <2>1, <3>1 DEF LedgerInv, VotesInv
      <3>3. p.Deposit \in Nat
        BY <3>2 DEF Proposal
      <3>4. h[i] = DepositWorth(p) /\ f[i] = p.Deposit
        BY <1>5, <2>1, <3>1 DEF DepositWorths, DepositAt
      <3>. QED  BY <3>2, <3>3, <3>4
    <2>3. CASE i \in Due
      <3>1. PICK q : q = qs[i]
        OBVIOUS
      <3>2. q = [p EXCEPT !.Status = Outcome(p)]
        BY <1>2, <1>4, <1>5, <2>1, <2>3, <3>1
      <3>3. q \in Proposal
        <4>1. Tallied(q)
          BY <2>2, <3>2, OutcomeSettles
        <4>. QED  BY <4>1 DEF Tallied
      <3>4. q.Proposer = p.Proposer /\ q.Deposit = p.Deposit /\ q.Status = Outcome(p)
        BY <2>2, <3>2 DEF Proposal
      <3>5. p.Status = "voting"
        BY <2>1, <2>3 DEF Due
      <3>6. i \in R <=> Outcome(p) = "passed"
        BY <1>5, <2>1, <2>3 DEF Passing
      <3>7. DepositWorth(p) = p.Deposit
        BY <3>5 DEF DepositWorth
      <3>8. DepositWorth(q) = IF i \in R THEN 0 ELSE p.Deposit
        BY <3>4, <3>6 DEF DepositWorth
      <3>9. PICK m \in Nat : m = p.Deposit
        BY <2>2
      <3>10. CASE i \in R
        BY <2>1, <2>2, <3>1, <3>3, <3>4, <3>7, <3>8, <3>9, <3>10
      <3>11. CASE i \notin R
        BY <2>1, <2>2, <3>1, <3>3, <3>4, <3>7, <3>8, <3>9, <3>11
      <3>. QED  BY <3>10, <3>11
    <2>4. CASE i \notin Due
      <3>1. qs[i] = p /\ i \notin R
        BY <1>2, <1>3, <1>4, <1>5, <2>1, <2>4
      <3>2. DepositWorth(p) \in Int
        BY <2>2 DEF DepositWorth
      <3>. QED  BY <2>1, <2>2, <3>1, <3>2
    <2>. QED  BY <2>3, <2>4
  <1>7. Len(qs) = n
    BY <1>2, <1>4
  <1>8. PICK x, y : x = DepositWorths(qs) /\ y = [i \in S |-> IF i \in R THEN f[i] ELSE 0]
    OBVIOUS
  <1>9. ASSUME NEW i \in S
        PROVE  /\ x[i] = DepositWorth(qs[i]) /\ y[i] = IF i \in R THEN f[i] ELSE 0
               /\ x[i] \in Int /\ y[i] \in Int /\ f[i] \in Int /\ h[i] = x[i] + y[i]
    <2>1. x[i] = DepositWorth(qs[i]) /\ y[i] = IF i \in R THEN f[i] ELSE 0
      BY <1>5, <1>7, <1>8 DEF DepositWorths
    <2>. QED  BY <1>6, <2>1
  <1>10. IsFiniteSet(S) /\ R \in SUBSET S
    BY <1>3, <1>4, <1>5, FS_Interval
  <1>11. /\ Terms(x, S) /\ Terms(y, S) /\ AddsUp(x, y, h, S) /\ Picks(f, y, R, S)
    BY <1>9, <1>10 DEF Terms, AddsUp, Picks
  <1>12. Terms(f, R)
    BY <1>9, <1>10, FS_Subset DEF Terms
  <1>13. SumFunctionOnSet(h, S) = SumFunctionOnSet(x, S) + SumFunctionOnSet(y, S)
    BY <1>11, SumPlus
  <1>14. SumFunctionOnSet(y, S) = SumFunctionOnSet(f, R)
    BY <1>10, <1>11, <1>12, SumPicks
  <1>15. SumFunctionOnSet(x, S) \in Int /\ SumFunctionOnSet(f, R) \in Int
    BY <1>11, <1>12, SumType
  <1>16. InDeposits(proposals) = SumFunctionOnSet(h, S) /\ InDeposits(qs) = SumFunctionOnSet(x, S)
    BY <1>4, <1>5, <1>7, <1>8 DEF InDeposits
  <1>17. InDeposits(qs) = InDeposits(proposals) - SumFunctionOnSet(f, R)
    BY <1>13, <1>14, <1>15, <1>16
  <1>. QED  BY <1>1, <1>4, <1>5, <1>6, <1>7, <1>17

\* What goes back to the proposers is what the passed proposals deposited.
LEMMA CloseBalances ==
  ASSUME LedgerInv, CoinsInv, Close, ~wrapped'
  PROVE  /\ Balances(accounts') = Balances(accounts) + SumFunctionOnSet(DepositAt, Passing)
         /\ SumFunctionOnSet(DepositAt, Passing) \in Int
  <1>1. PICK next : next = accounts'
    OBVIOUS
  <1>2. /\ AccountsOK(next) /\ DOMAIN next = DOMAIN accounts
        /\ \A a \in DOMAIN accounts : next[a].Balance = accounts[a].Balance + Refund(a)
    <2>1. /\ AccountsOK(next) /\ DOMAIN next = DOMAIN accounts
          /\ \A a \in DOMAIN accounts : next[a].Balance = ToInt64(accounts[a].Balance + Refund(a))
      BY <1>1, CloseAccounts DEF LedgerInv
    <2>2. ASSUME NEW a \in DOMAIN accounts
          PROVE  next[a].Balance = accounts[a].Balance + Refund(a)
      <3>1. Fits(a, Refund(a))
        BY DEF Close, ProcessLoop, Refund, Refunded
      <3>2. Refund(a) \in Nat
        BY RefundIs DEF LedgerInv, VotesInv
      <3>3. AccountsOK(accounts)
        BY DEF LedgerInv, TypesInv
      <3>4. PICK y \in Int64 : y = accounts[a].Balance + Refund(a)
        BY <3>1, <3>2, <3>3, HasRoom
      <3>5. ToInt64(y) = y
        BY AsInt64, WordTypes
      <3>. QED  BY <2>1, <3>4, <3>5
    <2>. QED  BY <2>1, <2>2
  <1>3. PICK A, R, f, g : /\ A = DOMAIN accounts /\ R = Passing /\ f = DepositAt
                          /\ g = [a \in A |-> Refund(a)]
    OBVIOUS
  <1>4. PICK x, z, p : /\ x = BalanceOf(accounts) /\ z = BalanceOf(next)
                       /\ p = [i \in 1 .. Len(proposals) |-> proposals[i].Proposer]
    OBVIOUS
  <1>5. /\ Terms(x, A) /\ Terms(z, A) /\ Balances(accounts) \in Int
        /\ \A a \in A : x[a] = accounts[a].Balance /\ z[a] = next[a].Balance
    BY <1>2, <1>3, <1>4, BalanceTerms DEF LedgerInv, TypesInv
  <1>6. R \subseteq 1 .. Len(proposals) /\ proposals \in Seq(Proposal)
    BY <1>3 DEF Passing, Due, LedgerInv, VotesInv
  <1>7. Terms(f, R)
    BY <1>3, <1>6, DepositsAreTerms
  <1>8. \A i \in R : p[i] \in A
    BY <1>3, <1>4, <1>6 DEF CoinsInv, OwnersKnown
  <1>9. ASSUME NEW a \in A
        PROVE  g[a] = SumFunctionOnSet(f, Part(p, R, a)) /\ g[a] \in Nat
    <2>1. Part(p, R, a) = Refunded(a)
      BY <1>3, <1>4, <1>6 DEF Part, Refunded, Passing
    <2>2. Refund(a) = SumFunctionOnSet(f, Refunded(a)) /\ Refund(a) \in Nat
      BY <1>3, <1>6, RefundIs
    <2>. QED  BY <1>3, <2>1, <2>2
  <1>10. IsFiniteSet(A)
    BY <1>3 DEF LedgerInv, TypesInv, AccountsOK
  <1>11. SumFunctionOnSet(g, A) = SumFunctionOnSet(f, R)
    BY <1>7, <1>8, <1>9, <1>10, SumByParts
  <1>12. Terms(g, A) /\ AddsUp(x, g, z, A)
    BY <1>2, <1>3, <1>5, <1>9, <1>10 DEF Terms, AddsUp
  <1>13. SumFunctionOnSet(z, A) = SumFunctionOnSet(x, A) + SumFunctionOnSet(g, A)
    BY <1>5, <1>12, SumPlus
  <1>14. Balances(next) = SumFunctionOnSet(z, A) /\ Balances(accounts) = SumFunctionOnSet(x, A)
    BY <1>2, <1>3, <1>4 DEF Balances
  <1>15. SumFunctionOnSet(f, R) \in Int
    BY <1>7, SumType
  <1>. QED  BY <1>1, <1>3, <1>11, <1>13, <1>14, <1>15

LEMMA CloseCoins ==
  ASSUME LedgerInv, RewardsInv, CoinsInv, Close, ~wrapped'
  PROVE  CoinStep
  <1>1. /\ running
        /\ UNCHANGED <<txs, stateFile, positions, staking, creating, running, rewarded>>
    BY DEF Close, ProcessLoop, stakingVars, history
  <1>2. DOMAIN accounts' = DOMAIN accounts
    BY CloseAccounts DEF LedgerInv
  <1>3. PICK back \in Int : back = SumFunctionOnSet(DepositAt, Passing)
    BY CloseBalances
  <1>4. PICK bal \in Int, w \in Int, d \in Int, f \in Int, g \in Int, c \in Nat :
            /\ bal = Balances(accounts) /\ w = InStakes(positions)
            /\ d = InDeposits(proposals) /\ f = InFees(txs) /\ g = Genesis
            /\ c = Credited(positions)
            /\ Surplus = bal + w + d + f - g
    BY SurplusIs
  <1>5. Balances(accounts') = bal + back
    BY <1>3, <1>4, CloseBalances
  <1>6. InDeposits(proposals') = d - back
    BY <1>3, <1>4, CloseDeposits
  <1>7. Surplus' = (bal + back) + w + (d - back) + f - g
    <2>1. InFees(txs') = f /\ InStakes(positions') = w /\ Genesis' = g
      BY <1>1, <1>4 DEF Genesis
    <2>. QED  BY <1>5, <1>6, <2>1 DEF Surplus
  <1>8. Surplus' = Surplus /\ Surplus' \in Int
    BY <1>4, <1>7
  <1>9. Conserved
    BY <1>8 DEF Conserved
  <1>10. OwnersKnown'
    BY <1>1, <1>2, CloseDeposits DEF CoinsInv, OwnersKnown
  <1>11. Credited(positions') = c
    BY <1>1, <1>4
  <1>. QED  BY <1>1, <1>2, <1>4, <1>9, <1>10, <1>11 DEF CoinStep

\* Stakes and deposits only hide coins from the accounts and the log.
LEMMA OnAccounts ==
  ASSUME LedgerInv, RewardsInv, CoinsInv, running
  PROVE  Balances(accounts) + InFees(txs) <= Genesis + (rewarded + Credited(positions))
  <1>1. PICK bal \in Int, w \in Int, d \in Int, f \in Int, g \in Int, c \in Nat :
            /\ bal = Balances(accounts) /\ w = InStakes(positions)
            /\ d = InDeposits(proposals) /\ f = InFees(txs) /\ g = Genesis
            /\ c = Credited(positions)
            /\ Surplus = bal + w + d + f - g
    BY SurplusIs
  <1>2. PICK r \in Nat : r = rewarded
    BY DEF CoinsInv
  <1>3. w + c \in Nat
    <2>1. positions \in Seq(Position)
      BY DEF RewardsInv
    <2>2. PICK staked \in Nat, earned \in Nat :
              staked + earned = InStakes(positions) + Credited(positions)
      BY <2>1, StakesHeld
    <2>3. w + c = staked + earned
      BY <1>1, <2>2
    <2>. QED  BY <2>3
  <1>4. d \in Nat
    BY <1>1, DepositTerms DEF LedgerInv, VotesInv
  <1>5. bal + w + d + f - g <= r
    BY <1>1, <1>2 DEF CoinsInv
  <1>6. bal + f <= g + (r + c)
    BY <1>3, <1>4, <1>5
  <1>. QED  BY <1>1, <1>2, <1>6

LEMMA TransferCoins ==
  ASSUME LedgerInv, RewardsInv, CoinsInv, running,
         NEW from \in DOMAIN accounts, NEW to \in Address, NEW amount \in Int64,
         NEW fee \in Int64, TransferFits(from, to, amount, fee), NEW accs, NEW log,
         accs = Paid(from, to, amount, fee),
         log = Logged(from, to, amount, fee, accounts[from].Nonce + 1)
  PROVE  /\ DOMAIN accounts \subseteq DOMAIN accs
         /\ Balances(accs) + InFees(log) = Balances(accounts) + InFees(txs)
         /\ Balances(accs) \in Int /\ InFees(log) \in Int
         /\ Covered(accs, log, rewarded + Credited(positions))
  <1>1. AccountsOK(accounts) /\ txs \in Seq(Transaction)
    BY DEF LedgerInv, TypesInv
  <1>2. PICK n \in Nat : n = accounts[from].Nonce + 1
    <2>1. accounts[from] \in Account
      BY <1>1 DEF AccountsOK
    <2>2. accounts[from].Nonce \in Nat
      BY <2>1 DEF Account
    <2>. QED  BY <2>2
  <1>3. PICK t : t = [From |-> from, To |-> to, Amount |-> amount, Fee |-> fee, Nonce |-> n]
    OBVIOUS
  <1>4. t \in Transaction /\ t.Fee = fee
    BY <1>1, <1>3 DEF Transaction, AccountsOK
  <1>5. log = Append(txs, t)
    BY <1>2, <1>3 DEF Logged
  <1>6. PICK bal \in Int, f \in Int : bal = Balances(accounts) /\ f = InFees(txs)
    BY <1>1, BalanceTerms, FeeTerms
  <1>a. fee \in Int
    BY WordTypes
  <1>7. InFees(log) = f + fee
    BY <1>1, <1>4, <1>5, <1>6, LoggedFees
  <1>8. DOMAIN accs = DOMAIN accounts \cup {to} /\ Balances(accs) = bal - fee
    BY <1>1, <1>6, PaidBalances
  <1>9. Balances(accs) + InFees(log) = Balances(accounts) + InFees(txs)
    BY <1>6, <1>7, <1>8, <1>a
  <1>10. Covered(accs, log, rewarded + Credited(positions))
    BY <1>8, <1>9, OnAccounts DEF Covered, CoinsInv
  <1>. QED  BY <1>6, <1>7, <1>8, <1>9, <1>10, <1>a

LEMMA SavedCovered ==
  ASSUME NEW saving \in Saving, NEW accs, NEW log, NEW most, NEW file,
         file = save(saving, accs, log),
         Covered(stateFile.accounts, stateFile.txs, most), Covered(accs, log, most)
  PROVE  Covered(file.accounts, file.txs, most)
  <1>1. CASE saving = "none"
    BY <1>1 DEF save
  <1>2. CASE saving = "torn"
    BY <1>2 DEF save, Unreadable, Covered
  <1>3. CASE saving = "whole"
    BY <1>3 DEF save
  <1>. QED  BY <1>1, <1>2, <1>3 DEF Saving

LEMMA SendCoins ==
  ASSUME LedgerInv, RewardsInv, CoinsInv, Send, ~wrapped'
  PROVE  CoinsInv' /\ Surplus' = Surplus
  <1>1. PICK from \in DOMAIN accounts, to \in Address, amount \in Amounts, fee \in Fees,
             saving \in Saves :
            SignedTransfer(from, to, amount, fee, accounts[from].Nonce + 1, saving)
    BY DEF Send
  <1>2. /\ saving \in Saving /\ amount \in Int64 /\ fee \in Int64
        /\ TransferFits(from, to, amount, fee)
    BY <1>1, StateKeeperAssumption, LedgerAssumption DEF SignedTransfer
  <1>3. PICK accs, log, file, most : /\ accs = accounts' /\ log = txs' /\ file = stateFile'
                                     /\ most = rewarded + Credited(positions)
    OBVIOUS
  <1>4. /\ accs = Paid(from, to, amount, fee)
        /\ log = Logged(from, to, amount, fee, accounts[from].Nonce + 1)
        /\ file = save(saving, accs, log)
    BY <1>1, <1>3 DEF SignedTransfer
  <1>5. /\ running /\ UNCHANGED <<positions, staking, proposals, creating, running, rewarded>>
    BY DEF Send, stakingVars, governanceVars
  <1>6. /\ DOMAIN accounts \subseteq DOMAIN accs
        /\ Balances(accs) + InFees(log) = Balances(accounts) + InFees(txs)
        /\ Balances(accs) \in Int /\ InFees(log) \in Int
        /\ Covered(accs, log, most)
    <2>1. running
      BY <1>5
    <2>2. /\ DOMAIN accounts \subseteq DOMAIN accs
          /\ Balances(accs) + InFees(log) = Balances(accounts) + InFees(txs)
          /\ Balances(accs) \in Int /\ InFees(log) \in Int
          /\ Covered(accs, log, rewarded + Credited(positions))
      BY <1>2, <1>4, <2>1, TransferCoins
    <2>. QED  BY <1>3, <2>2
  <1>7. Covered(file.accounts, file.txs, most)
    BY <1>2, <1>3, <1>4, <1>6, SavedCovered DEF CoinsInv
  <1>8. PICK bal \in Int, w \in Int, d \in Int, f \in Int, g \in Int, c \in Nat :
            /\ bal = Balances(accounts) /\ w = InStakes(positions)
            /\ d = InDeposits(proposals) /\ f = InFees(txs) /\ g = Genesis
            /\ c = Credited(positions)
            /\ Surplus = bal + w + d + f - g
    BY SurplusIs
  <1>9. PICK b \in Int, h \in Int : b = Balances(accs) /\ h = InFees(log)
    BY <1>6
  <1>10. Surplus' = b + w + d + h - g
    BY <1>3, <1>5, <1>8, <1>9 DEF Surplus, Genesis
  <1>11. b + h = bal + f
    BY <1>6, <1>8, <1>9
  <1>12. Surplus' = Surplus
    BY <1>8, <1>10, <1>11
  <1>13. OwnersKnown'
    BY <1>3, <1>5, <1>6 DEF CoinsInv, OwnersKnown
  <1>14. Covered(stateFile'.accounts, stateFile'.txs, rewarded' + Credited(positions'))
    BY <1>3, <1>5, <1>7
  <1>15. DOMAIN GenesisAmount \subseteq DOMAIN accounts'
    BY <1>3, <1>5, <1>6 DEF CoinsInv
  <1>. QED  BY <1>5, <1>12, <1>13, <1>14, <1>15 DEF CoinsInv

LEMMA DieCoins ==
  ASSUME LedgerInv, RewardsInv, CoinsInv, Die, ~wrapped'
  PROVE  CoinsInv'
  <1>1. /\ running /\ running' = FALSE /\ rewarded' = rewarded + TotalRewardsPaid
        /\ accounts' = <<>> /\ txs' = <<>> /\ positions' = <<>> /\ proposals' = <<>>
        /\ staking' = NoCall /\ creating' = NoCall
    BY DEF Die, StateCrash, CrashInTransfer, StakingCrash, GovernanceCrash
  <1>2. PICK r \in Nat, c \in Nat : r = rewarded /\ c = Credited(positions)
    BY PositionTerms DEF CoinsInv, RewardsInv
  <1>3. rewarded' = r + c
    <2>1. TotalRewardsPaid = c
      BY <1>2 DEF TotalRewardsPaid, SumFunction, Credited, RewardsOf
    <2>. QED  BY <1>1, <1>2, <2>1
  <1>4. Credited(positions') = 0
    BY <1>1, NothingSums
  <1>5. rewarded' + Credited(positions') = r + c /\ rewarded' \in Nat
    BY <1>3, <1>4
  <1>6. PICK file : file = stateFile'
    OBVIOUS
  <1>7. Covered(stateFile.accounts, stateFile.txs, r + c)
    BY <1>2 DEF CoinsInv
  <1>8. Covered(file.accounts, file.txs, r + c)
    <2>1. CASE StateCrash
      BY <1>6, <1>7, <2>1 DEF StateCrash
    <2>2. CASE ~StateCrash
      <3>1. PICK from \in DOMAIN accounts, to \in Address, amount \in Amounts, fee \in Fees,
                 saving \in CrashSaves :
                CrashInTransfer(from, to, amount, fee, accounts[from].Nonce + 1, saving)
        BY <2>2 DEF Die
      <3>2. /\ saving \in Saving /\ amount \in Int64 /\ fee \in Int64
            /\ TransferFits(from, to, amount, fee)
        BY <3>1, StateKeeperAssumption, LedgerAssumption DEF CrashInTransfer
      <3>3. PICK accs, log :
                /\ accs = Paid(from, to, amount, fee)
                /\ log = Logged(from, to, amount, fee, accounts[from].Nonce + 1)
        OBVIOUS
      <3>4. file = save(saving, accs, log)
        BY <1>6, <3>1, <3>3 DEF CrashInTransfer
      <3>5. Covered(accs, log, r + c)
        BY <1>1, <1>2, <3>2, <3>3, TransferCoins
      <3>. QED  BY <1>7, <3>2, <3>4, <3>5, SavedCovered
    <2>. QED  BY <2>1, <2>2
  <1>9. Covered(stateFile'.accounts, stateFile'.txs, rewarded' + Credited(positions'))
    BY <1>5, <1>6, <1>8
  <1>10. Len(<<>>) = 0 /\ \A i \in 1 .. 0 : FALSE
    OBVIOUS
  <1>11. OwnersKnown' /\ Idle'
    BY <1>1, <1>10 DEF OwnersKnown, Idle
  <1>. QED  BY <1>1, <1>5, <1>9, <1>11 DEF CoinsInv

\* The genesis accounts that an empty file starts with hold the genesis amounts.
LEMMA GenesisBalances ==
  ASSUME NEW all, all = Opened(<<>>, DOMAIN GenesisAmount, GenesisAmount)
  PROVE  DOMAIN all = DOMAIN GenesisAmount /\ Balances(all) = Genesis
  <1>1. DOMAIN all = DOMAIN GenesisAmount
    BY DEF Opened
  <1>2. PICK f : f = BalanceOf(all)
    OBVIOUS
  <1>3. \A a \in DOMAIN GenesisAmount : f[a] = GenesisAmount[a]
    BY <1>1, <1>2 DEF Opened, BalanceOf
  <1>4. SumFunctionOnSet(f, DOMAIN GenesisAmount) = SumFunctionOnSet(GenesisAmount, DOMAIN GenesisAmount)
    BY <1>3, SumSame, StateKeeperAssumption
  <1>. QED  BY <1>1, <1>2, <1>4 DEF Balances, Genesis, SumFunction

\* Accounts that are there already are not opened.
LEMMA NothingToOpen ==
  ASSUME NEW accs, NEW new, new \subseteq DOMAIN accs, NEW all,
         all = Opened(accs, new, GenesisAmount)
  PROVE  DOMAIN all = DOMAIN accs /\ Balances(all) = Balances(accs)
  <1>1. DOMAIN all = DOMAIN accs
    BY DEF Opened
  <1>2. BalanceOf(all) = BalanceOf(accs)
    BY <1>1 DEF BalanceOf, Opened
  <1>. QED  BY <1>1, <1>2 DEF Balances

LEMMA StartCoins ==
  ASSUME LedgerInv, RewardsInv, CoinsInv, Start
  PROVE  /\ CoinsInv'
         /\ stateFile.accounts = <<>> /\ stateFile.txs = <<>> => Surplus' = 0
  <1>1. PICK read \in Reads, saving \in Saves : StateStart(read, saving)
    BY DEF Start
  <1>2. PICK new, accs, all, log, file :
            /\ new = (IF NeedsGenesis(read) THEN DOMAIN GenesisAmount ELSE {})
            /\ accs = Loaded(read).accounts /\ log = Loaded(read).txs
            /\ all = Opened(accs, new, GenesisAmount) /\ file = stateFile'
    OBVIOUS
  <1>3. /\ accounts' = all /\ txs' = log
        /\ file = IF NeedsGenesis(read) THEN save(saving, all, log) ELSE stateFile
    BY <1>1, <1>2 DEF StateStart
  <1>4. saving \in Saving
    BY StateKeeperAssumption
  <1>a. \/ accs = stateFile.accounts /\ log = stateFile.txs
        \/ accs = <<>> /\ log = <<>>
    BY <1>2, WhatIsLoaded
  <1>5. /\ ~running /\ running' = TRUE
        /\ UNCHANGED <<positions, staking, proposals, creating, rewarded>>
    BY DEF Start, stakingVars, governanceVars
  <1>6. /\ positions = <<>> /\ proposals = <<>> /\ staking = NoCall /\ creating = NoCall
    BY <1>5 DEF CoinsInv, Idle
  <1>7. PICK r \in Nat : r = rewarded
    BY DEF CoinsInv
  <1>8. Credited(positions) = 0 /\ InStakes(positions) = 0 /\ InDeposits(proposals) = 0
    BY <1>6, NothingSums
  <1>b. AccountsOK(accs) /\ log \in Seq(Transaction)
    BY <1>2, LoadedTypes DEF LedgerInv, TypesInv
  <1>9. PICK f \in Int, g \in Nat : f = InFees(log) /\ g = Genesis
    BY <1>b, FeeTerms, GenesisIsNat
  <1>10. rewarded + Credited(positions) = r
    BY <1>7, <1>8
  <1>11. Covered(stateFile.accounts, stateFile.txs, r)
    BY <1>10 DEF CoinsInv
  <1>12. Covered(accs, log, r)
    BY <1>11, <1>a DEF Covered
  <1>13. /\ DOMAIN GenesisAmount \subseteq DOMAIN all
         /\ Balances(all) \in Int
         /\ Balances(all) + f <= g + r
         /\ accs = <<>> /\ log = <<>> => Balances(all) + f = g
    <2>1. CASE accs = <<>> /\ log = <<>>
      <3>1. Probe \notin DOMAIN accs
        BY <2>1
      <3>2. NeedsGenesis(read)
        BY <1>2, <3>1 DEF NeedsGenesis, BalanceIn
      <3>3. all = Opened(<<>>, DOMAIN GenesisAmount, GenesisAmount)
        BY <1>2, <2>1, <3>2
      <3>4. DOMAIN all = DOMAIN GenesisAmount /\ Balances(all) = g
        BY <1>9, <3>3, GenesisBalances
      <3>5. f = 0
        BY <1>9, <2>1, NothingSums
      <3>. QED  BY <3>4, <3>5
    <2>2. CASE ~(accs = <<>> /\ log = <<>>)
      <3>1. /\ DOMAIN GenesisAmount \subseteq DOMAIN accs
            /\ Balances(accs) + f <= g + r
        BY <1>9, <1>12, <2>2 DEF Covered
      <3>2. new \subseteq DOMAIN accs
        BY <1>2, <3>1
      <3>3. DOMAIN all = DOMAIN accs /\ Balances(all) = Balances(accs)
        BY <1>2, <3>2, NothingToOpen
      <3>4. Balances(accs) \in Int
        BY <1>b, BalanceTerms
      <3>. QED  BY <2>2, <3>1, <3>3, <3>4
    <2>. QED  BY <2>1, <2>2
  <1>14. Covered(all, log, r)
    BY <1>9, <1>13 DEF Covered
  <1>15. Covered(file.accounts, file.txs, r)
    <2>1. CASE NeedsGenesis(read)
      <3>1. file = save(saving, all, log)
        BY <1>3, <2>1
      <3>. QED  BY <1>4, <1>11, <1>14, <3>1, SavedCovered
    <2>2. CASE ~NeedsGenesis(read)
      BY <1>3, <1>11, <2>2
    <2>. QED  BY <2>1, <2>2
  <1>16. PICK b \in Int : b = Balances(all)
    BY <1>13
  <1>17. Surplus' = b + 0 + 0 + f - g
    BY <1>3, <1>5, <1>8, <1>9, <1>16 DEF Surplus, Genesis
  <1>18. /\ Surplus' <= r
         /\ stateFile.accounts = <<>> /\ stateFile.txs = <<>> => Surplus' = 0
    BY <1>13, <1>16, <1>17, <1>a
  <1>19. Len(<<>>) = 0 /\ \A i \in 1 .. 0 : FALSE
    OBVIOUS
  <1>20. OwnersKnown'
    BY <1>5, <1>6, <1>19 DEF OwnersKnown
  <1>21. Covered(stateFile'.accounts, stateFile'.txs, rewarded' + Credited(positions'))
    BY <1>2, <1>5, <1>10, <1>15
  <1>. QED  BY <1>2, <1>3, <1>5, <1>7, <1>13, <1>18, <1>20, <1>21 DEF CoinsInv

LEMMA WaitCoins ==
  ASSUME LedgerInv, RewardsInv, CoinsInv, Wait \/ UNCHANGED ledgerVars
  PROVE  CoinsInv' /\ Surplus' = Surplus
  <1>1. UNCHANGED <<accounts, txs, stateFile, positions, staking, proposals, creating, running, rewarded>>
    BY DEF Wait, Hour, ledgerVars, stateVars, stakingVars, governanceVars, history
  <1>2. Surplus' = Surplus
    BY <1>1 DEF Surplus, Genesis
  <1>3. OwnersKnown' /\ (Idle' <=> Idle)
    BY <1>1 DEF CoinsInv, OwnersKnown, Idle
  <1>. QED  BY <1>1, <1>2, <1>3 DEF CoinsInv

LEMMA KeeperCoins ==
  ASSUME LedgerInv, RewardsInv, CoinsInv, ~wrapped',
         StakingStep \/ CreateBegin \/ CreateEnd \/ Cast \/ Close
  PROVE  CoinStep
  BY StakingCoins, BeginCoins, EndCoins, CastCoins, CloseCoins

\* Until a sum wraps around, the coins are accounted for.
CoinsOrWrapped == ~wrapped => CoinsInv

LEMMA CoinsInvHolds == LedgerSpec => []CoinsOrWrapped
  <1>1. LedgerInit => CoinsOrWrapped
    <2>. SUFFICES ASSUME LedgerInit PROVE CoinsInv
      BY DEF CoinsOrWrapped
    <2>1. /\ accounts = <<>> /\ txs = <<>> /\ stateFile = Unreadable /\ positions = <<>>
          /\ proposals = <<>> /\ staking = NoCall /\ creating = NoCall
          /\ running = FALSE /\ rewarded = 0
      BY DEF LedgerInit, StateInit, StakingInit, GovernanceInit
    <2>2. Len(<<>>) = 0 /\ \A i \in 1 .. 0 : FALSE
      OBVIOUS
    <2>3. OwnersKnown /\ Idle
      BY <2>1, <2>2 DEF OwnersKnown, Idle
    <2>4. Covered(stateFile.accounts, stateFile.txs, rewarded + Credited(positions))
      BY <2>1 DEF Unreadable, Covered
    <2>. QED  BY <2>1, <2>3, <2>4 DEF CoinsInv
  <1>2. LedgerInv /\ RewardsInv /\ CoinsOrWrapped /\ [LedgerNext]_ledgerVars => CoinsOrWrapped'
    <2>. SUFFICES ASSUME LedgerInv, RewardsInv, CoinsOrWrapped, [LedgerNext]_ledgerVars, ~wrapped'
                  PROVE  CoinsInv'
      BY DEF CoinsOrWrapped
    <2>1. CoinsInv
      BY WrappedForGood DEF CoinsOrWrapped
    <2>. QED  BY <2>1, StartCoins, SendCoins, KeeperCoins, CoinStepKeeps, WaitCoins, DieCoins
              DEF LedgerNext
  <1>. QED  BY <1>1, <1>2, LedgerInvHolds, RewardsInvHolds, PTL DEF LedgerSpec

(***************************************************************************)
(* Whatever was lost, torn or unreadable on the way, no process of the node*)
(* holds more than was issued until the sum in an account wraps around: for*)
(* any genesis, any amounts and fees of an int64, negative ones too, any   *)
(* rates, short addresses, saves, deaths and restarts.                     *)
(***************************************************************************)
THEOREM NoCoinsFromNothingCorrect == LedgerSpec => []NoCoinsFromNothing
  <1>1. LedgerInv /\ RewardsInv /\ CoinsOrWrapped => NoCoinsFromNothing
    <2>. SUFFICES ASSUME LedgerInv, RewardsInv, CoinsInv, running PROVE Held <= Issued + rewarded
      BY DEF NoCoinsFromNothing, CoinsOrWrapped
    <2>1. PICK h \in Int, i \in Int, s \in Int, r \in Nat :
              h = Held /\ i = Issued /\ s = Surplus /\ r = rewarded
      BY HeldAndIssued DEF CoinsInv
    <2>2. h = i + s
      BY <2>1, HeldAndIssued
    <2>3. s <= r
      BY <2>1 DEF CoinsInv
    <2>4. h <= i + r
      BY <2>2, <2>3
    <2>. QED  BY <2>1, <2>4
  <1>. QED  BY <1>1, LedgerInvHolds, RewardsInvHolds, CoinsInvHolds, PTL

\* What is held beyond what was issued, as a difference.
Difference == Held - Issued = Surplus /\ Surplus \in Int

LEMMA DifferenceHolds == LedgerSpec => []Difference
  <1>1. LedgerInv /\ RewardsInv => Difference
    <2>. SUFFICES ASSUME LedgerInv, RewardsInv PROVE Difference
      OBVIOUS
    <2>1. PICK h \in Int, i \in Int, s \in Int : h = Held /\ i = Issued /\ s = Surplus
      BY HeldAndIssued
    <2>2. h = i + s
      BY <2>1, HeldAndIssued
    <2>3. h - i = s
      BY <2>2
    <2>. QED  BY <2>1, <2>3 DEF Difference
  <1>. QED  BY <1>1, LedgerInvHolds, RewardsInvHolds, PTL

(***************************************************************************)
(* Between a start and a death, no step of any keeper makes a coin unless  *)
(* the sum in an account wraps around, and none takes one off the books    *)
(* unless it panics on a short address: what is held and what was issued   *)
(* change by the same amount, also where two critical sections of the      *)
(* accounts have other keepers' steps in between.                          *)
(***************************************************************************)
THEOREM StepsConserveCoins ==
  LedgerSpec => [][running /\ running' /\ ~wrapped' =>
                     /\ Held' - Issued' <= Held - Issued
                     /\ Short = {} => Held' - Issued' = Held - Issued]_ledgerVars
  <1>1. LedgerInv /\ RewardsInv /\ CoinsOrWrapped /\ Difference /\ Difference'
        /\ [LedgerNext]_ledgerVars
          => [running /\ running' /\ ~wrapped' =>
                /\ Held' - Issued' <= Held - Issued
                /\ Short = {} => Held' - Issued' = Held - Issued]_ledgerVars
    <2>. SUFFICES ASSUME LedgerInv, RewardsInv, CoinsOrWrapped, Difference, Difference',
                         [LedgerNext]_ledgerVars, running, running', ~wrapped'
                  PROVE  /\ Held' - Issued' <= Held - Issued
                         /\ Short = {} => Held' - Issued' = Held - Issued
      OBVIOUS
    <2>1. /\ Held - Issued = Surplus /\ Surplus \in Int
          /\ Held' - Issued' = Surplus' /\ Surplus' \in Int
      BY DEF Difference
    <2>a. CoinsInv
      BY WrappedForGood DEF CoinsOrWrapped
    <2>2. Surplus' <= Surplus /\ (Short = {} => Surplus' = Surplus)
      <3>1. CASE Start
        BY <3>1 DEF Start
      <3>2. CASE Die
        BY <3>2 DEF Die
      <3>3. CASE Send
        BY <2>1, <2>a, <3>3, SendCoins
      <3>4. CASE StakingStep \/ CreateBegin \/ CreateEnd \/ Cast \/ Close
        BY <2>a, <3>4, KeeperCoins DEF CoinStep, Conserved
      <3>5. CASE Wait \/ UNCHANGED ledgerVars
        BY <2>1, <2>a, <3>5, WaitCoins
      <3>. QED  BY <3>1, <3>2, <3>3, <3>4, <3>5 DEF LedgerNext
    <2>. QED  BY <2>1, <2>2
  <1>. QED  BY <1>1, LedgerInvHolds, RewardsInvHolds, CoinsInvHolds, DifferenceHolds, PTL
            DEF LedgerSpec

\* The first process starts from no file, and while it lives the books agree.
FirstProcess ==
    /\ running => boots >= 1 /\ (~wrapped => Surplus = 0)
    /\ boots = 0 => ~running /\ stateFile.accounts = <<>> /\ stateFile.txs = <<>>

LEMMA FirstProcessHolds ==
  ASSUME Short = {}, MaxBoots = 1
  PROVE  LedgerSpec => []FirstProcess
  <1>1. LedgerInit => FirstProcess
    BY DEF LedgerInit, StateInit, Unreadable, FirstProcess
  <1>2. LedgerInv /\ RewardsInv /\ CoinsOrWrapped /\ FirstProcess /\ [LedgerNext]_ledgerVars
          => FirstProcess'
    <2>. SUFFICES ASSUME LedgerInv, RewardsInv, CoinsOrWrapped, FirstProcess,
                         [LedgerNext]_ledgerVars
                  PROVE  FirstProcess'
      OBVIOUS
    <2>1. boots \in Nat
      BY DEF LedgerInv, TypesInv
    <2>a. ~wrapped' => ~wrapped /\ CoinsInv
      BY WrappedForGood DEF CoinsOrWrapped
    <2>2. CASE Start
      <3>1. boots = 0 /\ boots' = 1 /\ running'
        BY <2>1, <2>2 DEF Start
      <3>2. ~wrapped' => Surplus' = 0
        BY <2>2, <2>a, <3>1, StartCoins DEF FirstProcess
      <3>. QED  BY <3>1, <3>2 DEF FirstProcess
    <2>3. CASE Die
      <3>1. boots = 0 /\ running
        BY <2>1, <2>3 DEF Die
      <3>. QED  BY <3>1 DEF FirstProcess
    <2>4. CASE Send
      <3>1. running /\ running' /\ boots' = boots
        BY <2>4 DEF Send
      <3>2. ~wrapped' => Surplus' = Surplus
        BY <2>4, <2>a, SendCoins
      <3>. QED  BY <2>1, <2>a, <3>1, <3>2 DEF FirstProcess
    <2>5. CASE StakingStep \/ CreateBegin \/ CreateEnd \/ Cast \/ Close
      <3>1. ~wrapped' => Surplus' = Surplus
        BY <2>5, <2>a, KeeperCoins DEF CoinStep, Conserved
      <3>2. boots' = boots /\ running /\ running'
        BY <2>5 DEF StakingStep, CreateBegin, CreateEnd, Cast, Close
      <3>. QED  BY <2>1, <2>a, <3>1, <3>2 DEF FirstProcess
    <2>6. CASE Wait \/ UNCHANGED ledgerVars
      <3>1. ~wrapped' => Surplus' = Surplus
        BY <2>6, <2>a, WaitCoins
      <3>2. boots' = boots /\ running' = running /\ stateFile' = stateFile
        BY <2>6 DEF Wait, Hour, ledgerVars, stateVars
      <3>. QED  BY <2>1, <2>a, <3>1, <3>2 DEF FirstProcess
    <2>. QED  BY <2>2, <2>3, <2>4, <2>5, <2>6 DEF LedgerNext
  <1>. QED  BY <1>1, <1>2, LedgerInvHolds, RewardsInvHolds, CoinsInvHolds, PTL DEF LedgerSpec

(***************************************************************************)
(* One process that no short address panics accounts for every coin, in    *)
(* every interleaving of its keepers, for any accounts, amounts, fees and  *)
(* rates, negative and overdrawn ones too, until a sum wraps around.  Both *)
(* hypotheses are needed: a restart forgets stakes and deposits whose      *)
(* deduction a later transfer has saved, and a panic on a short owner loses*)
(* the stake; NoCoinsFromNothingCorrect bounds what then happens.          *)
(***************************************************************************)
THEOREM SupplyIsAccountedCorrect ==
  ASSUME Short = {}, MaxBoots = 1
  PROVE  LedgerSpec => []SupplyIsAccounted
  <1>1. Difference /\ LedgerInv /\ RewardsInv /\ FirstProcess => SupplyIsAccounted
    <2>. SUFFICES ASSUME LedgerInv, RewardsInv, FirstProcess, running, ~wrapped
                  PROVE  Held = Issued
      BY DEF SupplyIsAccounted
    <2>1. PICK h \in Int, i \in Int : h = Held /\ i = Issued
      BY HeldAndIssued
    <2>2. h = i + 0
      BY <2>1, HeldAndIssued DEF FirstProcess
    <2>. QED  BY <2>1, <2>2
  <1>. QED  BY <1>1, LedgerInvHolds, RewardsInvHolds, DifferenceHolds, FirstProcessHolds, PTL
=============================================================================
