---------------------------- MODULE LedgerProofs ----------------------------
(***************************************************************************)
(* What the operators of Ledger return, for every trie and transaction:    *)
(* their types, the equations of their folds, and what they do to nonces,  *)
(* to balances and to stakes.                                              *)
(***************************************************************************)
EXTENDS Ledger, FiniteSetTheorems, SequenceTheorems, TLAPS

Wrote == INSTANCE FoldTheory WITH Op <- Write
Ran   == INSTANCE FoldTheory WITH Op <- Execute
Took  == INSTANCE FoldTheory WITH Op <- Take
Fees  == INSTANCE FoldTheory WITH Op <- AddFee

-----------------------------------------------------------------------------
(* Folds.                                                                  *)

LEMMA WriteFold == \A b, s : FoldLeft(Write, b, s) = Wrote!Folded(b, s)
  BY Zenon DEF FoldLeft, MapThenFoldSet, Max,
               Wrote!Folded, Wrote!Iter, Wrote!IterDef, Wrote!Max

LEMMA ExecuteFold == \A b, s : ExecuteAll(b, s) = Ran!Folded(b, s)
  BY Zenon DEF ExecuteAll, FoldLeft, MapThenFoldSet, Max,
               Ran!Folded, Ran!Iter, Ran!IterDef, Ran!Max

LEMMA TakeFold == \A b, s : FoldLeft(Take, b, s) = Took!Folded(b, s)
  BY Zenon DEF FoldLeft, MapThenFoldSet, Max,
               Took!Folded, Took!Iter, Took!IterDef, Took!Max

LEMMA FeeFold == \A s : TotalFees(s) = Fees!Folded(0, s)
  BY Zenon DEF TotalFees, FoldLeft, MapThenFoldSet, Max,
               Fees!Folded, Fees!Iter, Fees!IterDef, Fees!Max

\* The writes of an execution: none left, and one after the other.
LEMMA WritesDone == \A t : FoldLeft(Write, t, <<>>) = t
  BY WriteFold, Wrote!FoldEmpty

LEMMA WritesGoOn ==
  ASSUME NEW t, NEW S, NEW ws \in Seq(S), ws # <<>>
  PROVE  FoldLeft(Write, t, ws) = FoldLeft(Write, Write(t, Head(ws)), Tail(ws))
<1>1. Wrote!Folded(t, ws) = Wrote!Folded(Write(t, Head(ws)), Tail(ws))
  BY Wrote!FoldHeadTail
<1>. QED
  BY <1>1, WriteFold

\* A block: nothing executed, and one transaction more.
LEMMA NothingExecuted == \A t : ExecuteAll(t, <<>>) = t
  BY ExecuteFold, Ran!FoldEmpty

LEMMA OneMoreExecuted ==
  ASSUME NEW t, NEW S, NEW txs \in Seq(S), NEW tx \in S
  PROVE  ExecuteAll(t, Append(txs, tx)) = Execute(ExecuteAll(t, txs), tx)
  BY ExecuteFold, Ran!FoldAppend

LEMMA NoFees == TotalFees(<<>>) = 0
  BY FeeFold, Fees!FoldEmpty

LEMMA OneMoreFee ==
  ASSUME NEW S, NEW txs \in Seq(S), NEW tx \in S
  PROVE  TotalFees(Append(txs, tx)) = TotalFees(txs) + BaseGas * tx.price
  BY FeeFold, Fees!FoldAppend DEF AddFee

-----------------------------------------------------------------------------
(* Types.                                                                  *)

\* putAccount().
LEMMA WriteAccount ==
  ASSUME NEW t \in Tries, NEW a \in Addresses, NEW acc \in Accounts
  PROVE  /\ Write(t, [addr |-> a, account |-> acc]) \in Tries
         /\ Write(t, [addr |-> a, account |-> acc]) = [t EXCEPT ![a] = acc]
<1>. DEFINE w == [addr |-> a, account |-> acc]
<1>1. /\ "account" \in DOMAIN w /\ "stake" \notin DOMAIN w
      /\ "list" \notin DOMAIN w /\ w.addr = a /\ w.account = acc
  OBVIOUS
<1>. HIDE DEF w
<1>2. Write(t, w) = [t EXCEPT ![a] = acc]
  BY <1>1 DEF Write
<1>3. [t EXCEPT ![a] = acc] \in Tries
  BY DEF Tries
<1>. QED
  BY <1>2, <1>3 DEF w

\* A trie in which the storage of the staking account is another one.
WithStorage(t, storage) == [t EXCEPT ![Staking] = [t[Staking] EXCEPT !.storage = storage]]

LEMMA StoredTrie ==
  ASSUME NEW t \in Tries, NEW storage \in Storages
  PROVE  /\ WithStorage(t, storage) \in Tries
         /\ WithStorage(t, storage)[Staking].storage = storage
         /\ \A a \in Addresses : a # Staking => WithStorage(t, storage)[a] = t[a]
         /\ \A a \in Addresses : /\ WithStorage(t, storage)[a].nonce = t[a].nonce
                                 /\ WithStorage(t, storage)[a].balance = t[a].balance
<1>1. Staking \in Addresses /\ t[Staking] \in Accounts
  BY LedgerAssumption DEF Tries
<1>. DEFINE acc == [t[Staking] EXCEPT !.storage = storage]
<1>2. /\ acc \in Accounts /\ acc.storage = storage
      /\ acc.nonce = t[Staking].nonce /\ acc.balance = t[Staking].balance
  BY <1>1 DEF Accounts
<1>. HIDE DEF acc
<1>3. /\ [t EXCEPT ![Staking] = acc] \in Tries
      /\ [t EXCEPT ![Staking] = acc][Staking] = acc
      /\ \A a \in Addresses : a # Staking => [t EXCEPT ![Staking] = acc][a] = t[a]
  BY <1>1, <1>2 DEF Tries
<1>. QED
  BY <1>2, <1>3 DEF WithStorage, acc

\* putContractStorage().
LEMMA WriteStake ==
  ASSUME NEW t \in Tries, NEW a \in Addresses, NEW v \in Nat
  PROVE  LET old == t[Staking].storage
             new == [stake |-> [old.stake EXCEPT ![a] = v], list |-> old.list]
         IN  /\ new \in Storages
             /\ Write(t, [addr |-> a, stake |-> v]) = WithStorage(t, new)
<1>. DEFINE w   == [addr |-> a, stake |-> v]
            old == t[Staking].storage
            new == [stake |-> [old.stake EXCEPT ![a] = v], list |-> old.list]
<1>1. /\ "account" \notin DOMAIN w /\ "stake" \in DOMAIN w
      /\ "list" \notin DOMAIN w /\ w.addr = a /\ w.stake = v
  OBVIOUS
<1>. HIDE DEF w
<1>2. Write(t, w) = [t EXCEPT ![Staking].storage.stake[a] = v]
  BY <1>1 DEF Write
<1>3. Staking \in Addresses /\ t[Staking] \in Accounts /\ old \in Storages
  BY LedgerAssumption DEF Tries, Accounts
<1>4. new \in Storages /\ new = [old EXCEPT !.stake[a] = v]
  BY <1>3 DEF Storages
<1>5. [t[Staking] EXCEPT !.storage = [old EXCEPT !.stake[a] = v]]
        = [t[Staking] EXCEPT !.storage.stake[a] = v]
  BY <1>3 DEF Accounts
<1>6. [t EXCEPT ![Staking].storage.stake[a] = v]
        = [t EXCEPT ![Staking] = [t[Staking] EXCEPT !.storage.stake[a] = v]]
  BY <1>3 DEF Tries
<1>. QED
  BY <1>2, <1>4, <1>5, <1>6 DEF WithStorage, w

LEMMA WriteList ==
  ASSUME NEW t \in Tries, NEW l \in SUBSET Addresses
  PROVE  LET old == t[Staking].storage
             new == [stake |-> old.stake, list |-> l]
         IN  /\ new \in Storages
             /\ Write(t, [list |-> l]) = WithStorage(t, new)
<1>. DEFINE w   == [list |-> l]
            old == t[Staking].storage
            new == [stake |-> old.stake, list |-> l]
<1>1. /\ "account" \notin DOMAIN w /\ "stake" \notin DOMAIN w
      /\ "list" \in DOMAIN w /\ w.list = l
  OBVIOUS
<1>. HIDE DEF w
<1>2. Write(t, w) = [t EXCEPT ![Staking].storage.list = l]
  BY <1>1 DEF Write
<1>3. Staking \in Addresses /\ t[Staking] \in Accounts /\ old \in Storages
  BY LedgerAssumption DEF Tries, Accounts
<1>4. new \in Storages /\ new = [old EXCEPT !.list = l]
  BY <1>3 DEF Storages
<1>5. [t[Staking] EXCEPT !.storage = [old EXCEPT !.list = l]]
        = [t[Staking] EXCEPT !.storage.list = l]
  BY <1>3 DEF Accounts
<1>6. [t EXCEPT ![Staking].storage.list = l]
        = [t EXCEPT ![Staking] = [t[Staking] EXCEPT !.storage.list = l]]
  BY <1>3 DEF Tries
<1>. QED
  BY <1>2, <1>4, <1>5, <1>6 DEF WithStorage, w

\* Any write leaves a trie.
LEMMA WriteType ==
  ASSUME NEW t \in Tries, NEW w \in WriteRecords
  PROVE  Write(t, w) \in Tries
<1>1. CASE w \in [addr : Addresses, account : Accounts]
  <2>1. w = [addr |-> w.addr, account |-> w.account]
        /\ w.addr \in Addresses /\ w.account \in Accounts
    BY <1>1
  <2>. QED
    BY <2>1, WriteAccount
<1>2. CASE w \in [addr : Addresses, stake : Nat]
  <2>1. w = [addr |-> w.addr, stake |-> w.stake]
        /\ w.addr \in Addresses /\ w.stake \in Nat
    BY <1>2
  <2>. DEFINE new == [stake |-> [t[Staking].storage.stake EXCEPT ![w.addr] = w.stake],
                      list |-> t[Staking].storage.list]
  <2>2. new \in Storages /\ Write(t, w) = WithStorage(t, new)
    BY <2>1, WriteStake
  <2>. HIDE DEF new
  <2>. QED
    BY <2>2, StoredTrie
<1>3. CASE w \in [list : SUBSET Addresses]
  <2>1. w = [list |-> w.list] /\ w.list \in SUBSET Addresses
    BY <1>3
  <2>. DEFINE new == [stake |-> t[Staking].storage.stake, list |-> w.list]
  <2>2. new \in Storages /\ Write(t, w) = WithStorage(t, new)
    BY <2>1, WriteList
  <2>. HIDE DEF new
  <2>. QED
    BY <2>2, StoredTrie
<1>. QED
  BY <1>1, <1>2, <1>3 DEF WriteRecords

\* What a transaction costs, and the part of it that comes back.
LEMMA Gas ==
  ASSUME NEW limit \in Nat, NEW price \in Nat, BaseGas <= limit
  PROVE  /\ BaseGas * price \in Nat /\ limit * price \in Nat
         /\ (limit - BaseGas) * price = limit * price - BaseGas * price
         /\ BaseGas * price <= limit * price
<1>. DEFINE rest == limit - BaseGas
<1>1. BaseGas \in Nat /\ rest \in Nat /\ limit = BaseGas + rest
  BY LedgerAssumption
<1>. HIDE DEF rest
<1>2. BaseGas * price \in Nat /\ rest * price \in Nat
  BY <1>1
<1>3. limit * price = BaseGas * price + rest * price
  BY <1>1
<1>. QED
  BY <1>1, <1>2, <1>3 DEF rest

LEMMA StoredType == ASSUME NEW v \in Nat PROVE Stored(v) \in Nat /\ Stored(v) <= v
<1>1. v \div 16 \in Nat /\ v \div 16 <= v
  OBVIOUS
<1>. QED
  BY <1>1 DEF Stored

-----------------------------------------------------------------------------
(* One transaction.                                                        *)

\* The sender and the receiver of a valid transaction.
LEMMA SenderType ==
  ASSUME NEW t \in Tries, NEW tx \in Transactions, Valid(t, tx)
  PROVE  /\ SenderAfter(tx, t[tx.from]) \in Accounts
         /\ SenderAfter(tx, t[tx.from]).storage = t[tx.from].storage
         /\ tx.from = System => SenderAfter(tx, t[tx.from]) = t[tx.from]
         /\ tx.from # System =>
              /\ tx.nonce \in {t[tx.from].nonce, t[tx.from].nonce + 1}
              /\ SenderAfter(tx, t[tx.from]).nonce = t[tx.from].nonce + 1
              /\ SenderAfter(tx, t[tx.from]).balance
                   = t[tx.from].balance - tx.value - BaseGas * tx.price + Unstaked(tx)
              /\ t[tx.from].balance >= tx.value + BaseGas * tx.price
<1>. DEFINE sender == t[tx.from]
<1>1. /\ sender \in Accounts /\ tx.limit \in Nat /\ tx.price \in Nat
      /\ tx.value \in Nat /\ tx.amount \in Nat /\ tx.nonce \in Nat
  BY DEF Tries, Transactions
<1>2. /\ sender.nonce \in Nat /\ sender.balance \in Nat /\ sender.storage \in Storages
      /\ sender = [nonce |-> sender.nonce, balance |-> sender.balance,
                   storage |-> sender.storage]
  BY <1>1 DEF Accounts
<1>. HIDE DEF sender
<1>3. CASE tx.from = System
  BY <1>1, <1>3 DEF SenderAfter, sender
<1>4. CASE tx.from # System
  <2>1. /\ BaseGas <= tx.limit /\ tx.nonce \in {sender.nonce, sender.nonce + 1}
        /\ sender.balance >= tx.value + tx.limit * tx.price
    BY <1>4 DEF Valid, HasNonce, Affords, sender
  <2>2. /\ BaseGas * tx.price \in Nat /\ tx.limit * tx.price \in Nat
        /\ (tx.limit - BaseGas) * tx.price = tx.limit * tx.price - BaseGas * tx.price
        /\ BaseGas * tx.price <= tx.limit * tx.price
    BY <1>1, <2>1, Gas
  <2>3. Unstaked(tx) \in Nat
    BY <1>1 DEF Unstaked
  <2>. DEFINE paid == sender.balance - (tx.value + tx.limit * tx.price)
                        + Unstaked(tx) + (tx.limit - BaseGas) * tx.price
  <2>4. /\ paid = sender.balance - tx.value - BaseGas * tx.price + Unstaked(tx)
        /\ paid \in Nat /\ sender.balance >= tx.value + BaseGas * tx.price
    BY <1>1, <1>2, <2>1, <2>2, <2>3
  <2>5. SenderAfter(tx, sender) = [sender EXCEPT !.nonce = @ + 1, !.balance = paid]
    BY <1>2, <1>4 DEF SenderAfter
  <2>. HIDE DEF paid
  <2>6. SenderAfter(tx, sender) = [nonce |-> sender.nonce + 1, balance |-> paid,
                                   storage |-> sender.storage]
    BY <1>2, <2>5
  <2>7. SenderAfter(tx, sender) \in Accounts
    BY <1>2, <2>4, <2>6 DEF Accounts
  <2>. QED
    BY <1>4, <2>1, <2>4, <2>6, <2>7 DEF sender
<1>. QED
  BY <1>3, <1>4

\* What it takes from the sender, and what it gives to the receiver.
Spent(tx) ==
  IF tx.from = System THEN 0 ELSE tx.value + BaseGas * tx.price - Unstaked(tx)
Gained(tx) == tx.value - Unstaked(tx)

\* The two accounts that Writes() makes, and the trie that has them.
Sender(t, tx)   == SenderAfter(tx, t[tx.from])
Before(t, tx)   == IF tx.to = tx.from THEN Sender(t, tx) ELSE t[tx.to]
Receiver(t, tx) == [Before(t, tx) EXCEPT !.balance = @ + tx.value - Unstaked(tx)]
Written(t, tx)  == IF tx.to = tx.from THEN Receiver(t, tx) ELSE Sender(t, tx)
Moved(t, tx)    == [[t EXCEPT ![tx.from] = Written(t, tx)]
                      EXCEPT ![tx.to] = Receiver(t, tx)]

LEMMA ReceiverType ==
  ASSUME NEW t \in Tries, NEW tx \in Transactions, Valid(t, tx)
  PROVE  /\ Receiver(t, tx) \in Accounts
         /\ Receiver(t, tx).storage = t[tx.to].storage
         /\ Receiver(t, tx).nonce = Before(t, tx).nonce
         /\ Receiver(t, tx).balance = Before(t, tx).balance + tx.value - Unstaked(tx)
         /\ Written(t, tx) \in Accounts
<1>1. /\ tx.value \in Nat /\ tx.amount \in Nat /\ tx.price \in Nat
      /\ Unstaked(tx) \in Nat /\ tx.from \in Addresses /\ tx.to \in Addresses
  BY DEF Transactions, Unstaked
<1>2. t[tx.from] \in Accounts /\ t[tx.to] \in Accounts
  BY <1>1 DEF Tries
<1>3. /\ Sender(t, tx) \in Accounts
      /\ Sender(t, tx).storage = t[tx.from].storage
      /\ tx.from = System => Sender(t, tx) = t[tx.from]
      /\ tx.from # System =>
           /\ Sender(t, tx).balance
                = t[tx.from].balance - tx.value - BaseGas * tx.price + Unstaked(tx)
           /\ t[tx.from].balance >= tx.value + BaseGas * tx.price
  BY SenderType DEF Sender
<1>4. Before(t, tx) \in Accounts /\ Before(t, tx).storage = t[tx.to].storage
  BY <1>2, <1>3 DEF Before
<1>5. Before(t, tx).balance + tx.value - Unstaked(tx) \in Nat
  <2>1. CASE Unstaked(tx) = 0
    BY <1>1, <1>4, <2>1 DEF Accounts
  <2>2. CASE Unstaked(tx) # 0
    <3>1. /\ tx.to = Staking /\ tx.cmd = "unstake" /\ Unstaked(tx) = tx.amount
          /\ tx.amount <= t[tx.to].balance + tx.value
      BY <2>2 DEF Unstaked, Valid, StakeAllows
    <3>2. CASE tx.to = tx.from
      <4>1. tx.from # System
        BY <3>1, <3>2, LedgerAssumption
      <4>2. BaseGas * tx.price \in Nat
        BY <1>1, LedgerAssumption
      <4>. QED
        BY <1>1, <1>2, <1>3, <3>2, <4>1, <4>2 DEF Before, Accounts
    <3>3. CASE tx.to # tx.from
      BY <1>1, <1>2, <3>1, <3>3 DEF Before, Accounts
    <3>. QED
      BY <3>2, <3>3
  <2>. QED
    BY <2>1, <2>2
<1>6. /\ Receiver(t, tx) \in Accounts
      /\ Receiver(t, tx).storage = Before(t, tx).storage
      /\ Receiver(t, tx).nonce = Before(t, tx).nonce
      /\ Receiver(t, tx).balance = Before(t, tx).balance + tx.value - Unstaked(tx)
  BY <1>4, <1>5 DEF Receiver, Accounts
<1>. QED
  BY <1>3, <1>4, <1>6 DEF Written

\* The accounts move the value and the fee.
LEMMA MovedAccounts ==
  ASSUME NEW t \in Tries, NEW tx \in Transactions, Valid(t, tx)
  PROVE  /\ Moved(t, tx) \in Tries
         /\ \A a \in Addresses :
              /\ Moved(t, tx)[a].storage = t[a].storage
              /\ Moved(t, tx)[a].nonce
                   = t[a].nonce + (IF a = tx.from /\ tx.from # System THEN 1 ELSE 0)
              /\ Moved(t, tx)[a].balance
                   = t[a].balance - (IF a = tx.from THEN Spent(tx) ELSE 0)
                                  + (IF a = tx.to THEN Gained(tx) ELSE 0)
<1>1. /\ tx.value \in Nat /\ Unstaked(tx) \in Nat /\ BaseGas * tx.price \in Nat
      /\ tx.from \in Addresses /\ tx.to \in Addresses
  BY LedgerAssumption DEF Transactions, Unstaked
<1>2. /\ Receiver(t, tx) \in Accounts
      /\ Receiver(t, tx).storage = t[tx.to].storage
      /\ Receiver(t, tx).nonce = Before(t, tx).nonce
      /\ Receiver(t, tx).balance = Before(t, tx).balance + tx.value - Unstaked(tx)
      /\ Written(t, tx) \in Accounts
  BY ReceiverType
<1>3. /\ Sender(t, tx) \in Accounts
      /\ Sender(t, tx).storage = t[tx.from].storage
      /\ tx.from = System => Sender(t, tx) = t[tx.from]
      /\ tx.from # System =>
           /\ Sender(t, tx).nonce = t[tx.from].nonce + 1
           /\ Sender(t, tx).balance
                = t[tx.from].balance - tx.value - BaseGas * tx.price + Unstaked(tx)
  BY SenderType DEF Sender
<1>4. Moved(t, tx) \in Tries
  BY <1>1, <1>2 DEF Moved, Tries
<1>5. ASSUME NEW a \in Addresses
      PROVE  /\ Moved(t, tx)[a].storage = t[a].storage
             /\ Moved(t, tx)[a].nonce
                  = t[a].nonce + (IF a = tx.from /\ tx.from # System THEN 1 ELSE 0)
             /\ Moved(t, tx)[a].balance
                  = t[a].balance - (IF a = tx.from THEN Spent(tx) ELSE 0)
                                 + (IF a = tx.to THEN Gained(tx) ELSE 0)
  <2>0. t[a].balance \in Nat /\ t[a].nonce \in Nat
    BY DEF Tries, Accounts
  <2>1. CASE a = tx.to
    <3>1. Moved(t, tx)[a] = Receiver(t, tx)
      BY <1>1, <2>1 DEF Moved, Tries
    <3>2. CASE tx.to = tx.from
      <4>1. Before(t, tx) = Sender(t, tx)
        BY <3>2 DEF Before
      <4>. QED
        BY <1>1, <1>2, <1>3, <2>0, <2>1, <3>1, <3>2, <4>1 DEF Spent, Gained
    <3>3. CASE tx.to # tx.from
      <4>1. Before(t, tx) = t[tx.to]
        BY <3>3 DEF Before
      <4>. QED
        BY <1>1, <1>2, <2>0, <2>1, <3>1, <3>3, <4>1 DEF Gained
    <3>. QED
      BY <3>2, <3>3
  <2>2. CASE a # tx.to /\ a = tx.from
    <3>1. Moved(t, tx)[a] = Sender(t, tx)
      BY <1>1, <2>2 DEF Moved, Tries, Written
    <3>. QED
      BY <1>1, <1>3, <2>0, <2>2, <3>1 DEF Spent
  <2>3. CASE a # tx.to /\ a # tx.from
    <3>1. Moved(t, tx)[a] = t[a]
      BY <1>1, <2>3 DEF Moved, Tries
    <3>. QED
      BY <2>0, <2>3, <3>1
  <2>. QED
    BY <2>1, <2>2, <2>3
<1>. QED
  BY <1>4, <1>5

\* The writes of the two accounts, and those of the stake behind them.
AccountWrites(t, tx) ==
  <<[addr |-> tx.from, account |-> Written(t, tx)],
    [addr |-> tx.to, account |-> Receiver(t, tx)]>>
StakingWrites(t, tx) ==
  IF tx.to = Staking THEN StakeWrites(tx, t[Staking].storage) ELSE <<>>

LEMMA WritesParts ==
  ASSUME NEW t, NEW tx
  PROVE  Writes(t, tx) = AccountWrites(t, tx) \o StakingWrites(t, tx)
  BY DEF Writes, AccountWrites, StakingWrites, Written, Receiver, Before, Sender

\* What a stake becomes.
StakedStorage(tx, storage) ==
  [stake |-> [storage.stake EXCEPT ![tx.from] = Stored(NewStake(tx, storage))],
   list  |-> NewList(tx, storage)]

LEMMA StakeType ==
  ASSUME NEW t \in Tries, NEW tx \in Transactions, Valid(t, tx), tx.to = Staking
  PROVE  LET storage == t[Staking].storage
         IN  /\ NewStake(tx, storage) \in Nat
             /\ NewStake(tx, storage)
                  = storage.stake[tx.from] + (IF tx.cmd = "stake" THEN tx.value ELSE 0)
                                           - Unstaked(tx)
             /\ Stored(NewStake(tx, storage)) \in Nat
             /\ NewList(tx, storage) \in SUBSET Addresses
             /\ StakedStorage(tx, storage) \in Storages
             /\ tx.cmd \in {"stake", "unstake"}
<1>. DEFINE storage == t[Staking].storage
<1>1. storage \in Storages /\ tx.from \in Addresses /\ tx.value \in Nat /\ tx.amount \in Nat
  BY LedgerAssumption DEF Tries, Accounts, Transactions
<1>2. tx.cmd = "stake" \/ (tx.cmd = "unstake" /\ tx.amount <= storage.stake[tx.from])
  BY DEF Valid, StakeAllows
<1>. HIDE DEF storage
<1>3. storage.stake \in [Addresses -> Nat] /\ storage.list \in SUBSET Addresses
  BY <1>1 DEF Storages
<1>4. /\ NewStake(tx, storage) \in Nat
      /\ NewStake(tx, storage)
           = storage.stake[tx.from] + (IF tx.cmd = "stake" THEN tx.value ELSE 0)
                                    - Unstaked(tx)
  BY <1>1, <1>2, <1>3 DEF NewStake, Unstaked
<1>5. NewList(tx, storage) \in SUBSET Addresses
  BY <1>1, <1>3 DEF NewList
<1>6. Stored(NewStake(tx, storage)) \in Nat
  BY <1>4, StoredType
<1>7. StakedStorage(tx, storage) \in Storages
  BY <1>1, <1>3, <1>5, <1>6 DEF StakedStorage, Storages
<1>. QED
  BY <1>2, <1>4, <1>5, <1>6, <1>7 DEF storage

LEMMA WritePartsType ==
  ASSUME NEW t \in Tries, NEW tx \in Transactions, Valid(t, tx)
  PROVE  /\ AccountWrites(t, tx) \in Seq(WriteRecords)
         /\ StakingWrites(t, tx) \in Seq(WriteRecords)
<1>1. tx.from \in Addresses /\ tx.to \in Addresses
  BY DEF Transactions
<1>2. AccountWrites(t, tx) \in Seq(WriteRecords)
  <2>1. Written(t, tx) \in Accounts /\ Receiver(t, tx) \in Accounts
    BY ReceiverType
  <2>2. /\ [addr |-> tx.from, account |-> Written(t, tx)] \in WriteRecords
        /\ [addr |-> tx.to, account |-> Receiver(t, tx)] \in WriteRecords
    BY <1>1, <2>1 DEF WriteRecords
  <2>. QED
    BY <2>2 DEF AccountWrites
<1>3. StakingWrites(t, tx) \in Seq(WriteRecords)
  <2>1. CASE tx.to = Staking
    <3>. DEFINE storage == t[Staking].storage
                w1 == [addr |-> tx.from, stake |-> Stored(NewStake(tx, storage))]
                w2 == [list |-> NewList(tx, storage)]
    <3>1. Stored(NewStake(tx, storage)) \in Nat /\ NewList(tx, storage) \in SUBSET Addresses
      BY <2>1, StakeType
    <3>2. w1 \in WriteRecords /\ w2 \in WriteRecords
      BY <1>1, <3>1 DEF WriteRecords
    <3>3. StakingWrites(t, tx)
            = <<w1>> \o (IF NewList(tx, storage) = storage.list THEN <<>> ELSE <<w2>>)
      BY <2>1 DEF StakingWrites, StakeWrites
    <3>. HIDE DEF w1, w2, storage
    <3>. QED
      BY <3>2, <3>3
  <2>2. CASE tx.to # Staking
    BY <2>2 DEF StakingWrites
  <2>. QED
    BY <2>1, <2>2
<1>. QED
  BY <1>2, <1>3

LEMMA WritesType ==
  ASSUME NEW t \in Tries, NEW tx \in Transactions, Valid(t, tx)
  PROVE  Writes(t, tx) \in Seq(WriteRecords)
<1>. DEFINE a == AccountWrites(t, tx)  b == StakingWrites(t, tx)
<1>1. a \in Seq(WriteRecords) /\ b \in Seq(WriteRecords)
  BY WritePartsType
<1>2. Writes(t, tx) = a \o b
  BY WritesParts
<1>. HIDE DEF a, b
<1>. QED
  BY <1>1, <1>2

LEMMA PairIsConcat == \A x, y : <<x>> \o <<y>> = <<x, y>>
<1>. SUFFICES ASSUME NEW x, NEW y PROVE <<x>> \o <<y>> = <<x, y>>
  OBVIOUS
<1>. DEFINE s == <<x>> \o <<y>>  t == <<x, y>>
<1>1. s \in Seq({x, y}) /\ Len(s) = 2 /\ s[1] = x /\ s[2] = y
  OBVIOUS
<1>2. t \in Seq({x, y}) /\ Len(t) = 2 /\ t[1] = x /\ t[2] = y
  OBVIOUS
<1>. HIDE DEF s, t
<1>3. \A i \in 1..Len(s) : s[i] = t[i]
  BY <1>1, <1>2
<1>4. s = t
  BY <1>1, <1>2, <1>3, SeqEqual
<1>. QED
  BY <1>4 DEF s, t

LEMMA WithStorageTwice ==
  ASSUME NEW t \in Tries, NEW s1 \in Storages, NEW s2 \in Storages
  PROVE  WithStorage(WithStorage(t, s1), s2) = WithStorage(t, s2)
<1>1. Staking \in Addresses /\ t[Staking] \in Accounts
  BY LedgerAssumption DEF Tries
<1>. DEFINE a1 == [t[Staking] EXCEPT !.storage = s1]
<1>2. [a1 EXCEPT !.storage = s2] = [t[Staking] EXCEPT !.storage = s2]
  BY <1>1 DEF Accounts
<1>3. WithStorage(t, s1)[Staking] = a1
  BY <1>1 DEF WithStorage, Tries
<1>4. WithStorage(WithStorage(t, s1), s2)
        = [WithStorage(t, s1) EXCEPT ![Staking] = [t[Staking] EXCEPT !.storage = s2]]
  BY <1>2, <1>3 DEF WithStorage
<1>. HIDE DEF a1
<1>. QED
  BY <1>1, <1>4 DEF WithStorage, Tries

\* All writes of a transaction together.
Outcome(t, tx) ==
  IF tx.to = Staking
  THEN WithStorage(Moved(t, tx), StakedStorage(tx, t[Staking].storage))
  ELSE Moved(t, tx)

LEMMA AccountsApplied ==
  ASSUME NEW t \in Tries, NEW tx \in Transactions, Valid(t, tx)
  PROVE  FoldLeft(Write, t, AccountWrites(t, tx)) = Moved(t, tx)
<1>1. tx.from \in Addresses /\ tx.to \in Addresses
  BY DEF Transactions
<1>. DEFINE w1 == [addr |-> tx.from, account |-> Written(t, tx)]
            w2 == [addr |-> tx.to, account |-> Receiver(t, tx)]
            t1 == [t EXCEPT ![tx.from] = Written(t, tx)]
<1>2. Written(t, tx) \in Accounts /\ Receiver(t, tx) \in Accounts
  BY ReceiverType
<1>3. Write(t, w1) = t1 /\ t1 \in Tries
  BY <1>1, <1>2, WriteAccount
<1>4. Moved(t, tx) = [t1 EXCEPT ![tx.to] = Receiver(t, tx)]
  BY DEF Moved
<1>. HIDE DEF t1
<1>5. Write(t1, w2) = Moved(t, tx)
  BY <1>1, <1>2, <1>3, <1>4, WriteAccount, ZenonT(40)
<1>6. AccountWrites(t, tx) = <<w1, w2>>
  BY DEF AccountWrites
<1>. HIDE DEF w1, w2
<1>7. /\ <<w1, w2>> \in Seq({w1, w2}) /\ <<w1, w2>> # <<>>
      /\ Head(<<w1, w2>>) = w1 /\ Tail(<<w1, w2>>) = <<w2>>
      /\ <<w2>> \in Seq({w1, w2}) /\ <<w2>> # <<>>
      /\ Head(<<w2>>) = w2 /\ Tail(<<w2>>) = <<>>
  OBVIOUS
<1>8. FoldLeft(Write, t, <<w1, w2>>) = FoldLeft(Write, t1, <<w2>>)
  BY <1>3, <1>7, WritesGoOn
<1>9. FoldLeft(Write, t1, <<w2>>) = FoldLeft(Write, Moved(t, tx), <<>>)
  BY <1>5, <1>7, WritesGoOn
<1>. QED
  BY <1>6, <1>8, <1>9, WritesDone

LEMMA StakeApplied ==
  ASSUME NEW t \in Tries, NEW tx \in Transactions, Valid(t, tx), tx.to = Staking,
         NEW m \in Tries, m[Staking].storage = t[Staking].storage
  PROVE  FoldLeft(Write, m, StakingWrites(t, tx))
           = WithStorage(m, StakedStorage(tx, t[Staking].storage))
<1>. DEFINE old  == t[Staking].storage
            new  == Stored(NewStake(tx, old))
            list == NewList(tx, old)
            w1   == [addr |-> tx.from, stake |-> new]
            w2   == [list |-> list]
            s1   == [stake |-> [old.stake EXCEPT ![tx.from] = new], list |-> old.list]
            s2   == [stake |-> [old.stake EXCEPT ![tx.from] = new], list |-> list]
            m1   == WithStorage(m, s1)
<1>1. new \in Nat /\ list \in SUBSET Addresses /\ tx.from \in Addresses /\ s2 \in Storages
  BY StakeType DEF Transactions, StakedStorage
<1>2. Write(m, w1) = m1 /\ s1 \in Storages
  BY <1>1, WriteStake
<1>3. StakingWrites(t, tx) = <<w1>> \o (IF list = old.list THEN <<>> ELSE <<w2>>)
  BY DEF StakingWrites, StakeWrites
<1>4. StakedStorage(tx, old) = s2
  BY DEF StakedStorage
<1>5. m1 \in Tries /\ m1[Staking].storage = s1 /\ s1.stake = s2.stake
  BY <1>2, StoredTrie
<1>6. Write(m1, w2) = WithStorage(m, s2)
  <2>1. Write(m1, w2) = WithStorage(m1, [stake |-> m1[Staking].storage.stake, list |-> list])
    <3>. HIDE DEF m1, list
    <3>. QED
      BY <1>1, <1>5, WriteList
  <2>2. [stake |-> m1[Staking].storage.stake, list |-> list] = s2
    BY <1>5
  <2>. HIDE DEF s1, s2
  <2>. QED
    BY <1>1, <1>2, <2>1, <2>2, WithStorageTwice
<1>7. list = old.list => s1 = s2
  OBVIOUS
<1>. HIDE DEF w1, w2, s1, s2, m1, list, new, old
<1>8. /\ <<w1>> \in Seq({w1, w2}) /\ <<w1>> # <<>>
      /\ Head(<<w1>>) = w1 /\ Tail(<<w1>>) = <<>>
      /\ <<w1>> \o <<>> = <<w1>>
  OBVIOUS
<1>81. <<w1>> \o <<w2>> = <<w1, w2>>
  BY PairIsConcat
<1>82. /\ <<w1, w2>> \in Seq({w1, w2}) /\ <<w1, w2>> # <<>>
       /\ Head(<<w1, w2>>) = w1 /\ Tail(<<w1, w2>>) = <<w2>>
  OBVIOUS
<1>83. /\ <<w2>> \in Seq({w1, w2}) /\ <<w2>> # <<>>
       /\ Head(<<w2>>) = w2 /\ Tail(<<w2>>) = <<>>
  OBVIOUS
<1>9. CASE list = old.list
  <2>1. FoldLeft(Write, m, <<w1>>) = FoldLeft(Write, m1, <<>>)
    BY <1>2, <1>8, WritesGoOn
  <2>2. m1 = WithStorage(m, s2)
    BY <1>7, <1>9 DEF m1
  <2>. QED
    BY <1>3, <1>4, <1>8, <1>9, <2>1, <2>2, WritesDone DEF old
<1>10. CASE list # old.list
  <2>1. FoldLeft(Write, m, <<w1, w2>>) = FoldLeft(Write, m1, <<w2>>)
    BY <1>2, <1>82, WritesGoOn
  <2>2. FoldLeft(Write, m1, <<w2>>) = FoldLeft(Write, Write(m1, w2), <<>>)
    BY <1>83, WritesGoOn
  <2>. QED
    BY <1>3, <1>4, <1>6, <1>81, <1>10, <2>1, <2>2, WritesDone DEF old
<1>. QED
  BY <1>9, <1>10

LEMMA WritesApplied ==
  ASSUME NEW t \in Tries, NEW tx \in Transactions, Valid(t, tx)
  PROVE  FoldLeft(Write, t, Writes(t, tx)) = Outcome(t, tx)
<1>. DEFINE a == AccountWrites(t, tx)  b == StakingWrites(t, tx)  m == Moved(t, tx)
<1>1. a \in Seq(WriteRecords) /\ b \in Seq(WriteRecords)
  BY WritePartsType
<1>2. Writes(t, tx) = a \o b
  BY WritesParts
<1>3. FoldLeft(Write, t, a) = m
  BY AccountsApplied
<1>4. m \in Tries /\ m[Staking].storage = t[Staking].storage
  BY MovedAccounts, LedgerAssumption
<1>5. tx.to = Staking => FoldLeft(Write, m, b) = Outcome(t, tx)
  <2>. HIDE DEF m
  <2>. QED
    BY <1>4, StakeApplied DEF Outcome, m
<1>6. tx.to # Staking => b = <<>> /\ Outcome(t, tx) = m
  BY DEF StakingWrites, Outcome
<1>. HIDE DEF a, b, m
<1>7. FoldLeft(Write, t, a \o b) = FoldLeft(Write, FoldLeft(Write, t, a), b)
  <2>1. Wrote!Folded(t, a \o b) = Wrote!Folded(Wrote!Folded(t, a), b)
    BY <1>1, Wrote!FoldConcat
  <2>. QED
    BY <2>1, WriteFold
<1>. QED
  BY <1>2, <1>3, <1>5, <1>6, <1>7, WritesDone

-----------------------------------------------------------------------------
(* A transaction and a block as a whole.                                   *)

\* A transaction moves value and fee, counts the nonce, and changes the stake.
LEMMA Executes ==
  ASSUME NEW t \in Tries, NEW tx \in Transactions, Valid(t, tx)
  PROVE  /\ Execute(t, tx) \in Tries
         /\ \A a \in Addresses :
              /\ Execute(t, tx)[a].nonce
                   = t[a].nonce + (IF a = tx.from /\ tx.from # System THEN 1 ELSE 0)
              /\ Execute(t, tx)[a].balance
                   = t[a].balance - (IF a = tx.from THEN Spent(tx) ELSE 0)
                                  + (IF a = tx.to THEN Gained(tx) ELSE 0)
         /\ Execute(t, tx)[Staking].storage
              = IF tx.to = Staking THEN StakedStorage(tx, t[Staking].storage)
                                   ELSE t[Staking].storage
<1>. DEFINE m == Moved(t, tx)
<1>1. Execute(t, tx) = Outcome(t, tx)
  BY WritesApplied DEF Execute
<1>2. /\ m \in Tries
      /\ \A a \in Addresses :
           /\ m[a].storage = t[a].storage
           /\ m[a].nonce = t[a].nonce + (IF a = tx.from /\ tx.from # System THEN 1 ELSE 0)
           /\ m[a].balance = t[a].balance - (IF a = tx.from THEN Spent(tx) ELSE 0)
                                          + (IF a = tx.to THEN Gained(tx) ELSE 0)
  BY MovedAccounts
<1>3. tx.to = Staking => StakedStorage(tx, t[Staking].storage) \in Storages
  BY StakeType
<1>. HIDE DEF m
<1>4. CASE tx.to = Staking
  <2>. DEFINE st == StakedStorage(tx, t[Staking].storage)
  <2>1. Execute(t, tx) = WithStorage(m, st) /\ st \in Storages
    BY <1>1, <1>3, <1>4 DEF Outcome, m
  <2>. HIDE DEF st
  <2>2. /\ WithStorage(m, st) \in Tries
        /\ WithStorage(m, st)[Staking].storage = st
        /\ \A a \in Addresses : /\ WithStorage(m, st)[a].nonce = m[a].nonce
                                /\ WithStorage(m, st)[a].balance = m[a].balance
    BY <1>2, <2>1, StoredTrie
  <2>. QED
    BY <1>2, <1>4, <2>1, <2>2 DEF st
<1>5. CASE tx.to # Staking
  <2>1. Execute(t, tx) = m
    BY <1>1, <1>5 DEF Outcome, m
  <2>. QED
    BY <1>2, <1>5, <2>1, LedgerAssumption
<1>. QED
  BY <1>4, <1>5

LEMMA NotExecuted ==
  ASSUME NEW t, NEW tx, ~ Valid(t, tx)
  PROVE  Execute(t, tx) = t
  BY DEF Execute

LEMMA ExecuteType ==
  ASSUME NEW t \in Tries, NEW tx \in Transactions
  PROVE  Execute(t, tx) \in Tries
  BY Executes, NotExecuted

LEMMA ExecuteAllType ==
  ASSUME NEW t \in Tries, NEW txs \in Seq(Transactions)
  PROVE  ExecuteAll(t, txs) \in Tries
<1>1. \A a \in Tries, tx \in Transactions : Execute(a, tx) \in Tries
  BY ExecuteType
<1>2. Ran!Folded(t, txs) \in Tries
  BY <1>1, Ran!FoldType
<1>. QED
  BY <1>2, ExecuteFold

LEMMA WriteAllType ==
  ASSUME NEW t \in Tries, NEW ws \in Seq(WriteRecords)
  PROVE  FoldLeft(Write, t, ws) \in Tries
<1>1. \A a \in Tries, w \in WriteRecords : Write(a, w) \in Tries
  BY WriteType
<1>2. Wrote!Folded(t, ws) \in Tries
  BY <1>1, Wrote!FoldType
<1>. QED
  BY <1>2, WriteFold

\* The transactions of a block that are valid, one after the other.
LEMMA ValidTxsOf ==
  ASSUME NEW P, P \subseteq Transactions, NEW t \in Tries, NEW txs \in Seq(P)
  PROVE  ValidTxs(t, txs) \in Seq(P)
<1>. DEFINE A == [trie : Tries, txs : Seq(P)]
            b == [trie |-> t, txs |-> <<>>]
<1>1. ASSUME NEW a \in A, NEW tx \in P
      PROVE  Take(a, tx) \in A
  <2>1. a.trie \in Tries /\ a.txs \in Seq(P) /\ tx \in Transactions
    BY <1>1
  <2>2. Execute(a.trie, tx) \in Tries /\ Append(a.txs, tx) \in Seq(P)
    BY <2>1, ExecuteType
  <2>. QED
    BY <1>1, <2>2 DEF Take
<1>2. b \in A
  OBVIOUS
<1>3. FoldLeft(Take, b, txs) = Took!Folded(b, txs)
  BY TakeFold
<1>. HIDE DEF A, b
<1>4. Took!Folded(b, txs) \in A
  BY <1>1, <1>2, Took!FoldType
<1>. QED
  BY <1>3, <1>4 DEF ValidTxs, A, b

\* The fees, and the part of them that the proposer gets.
LEMMA FeesType ==
  ASSUME NEW txs \in Seq(Transactions)
  PROVE  TotalFees(txs) \in Nat
<1>1. ASSUME NEW n \in Nat, NEW tx \in Transactions
      PROVE  AddFee(n, tx) \in Nat
  <2>1. BaseGas \in Nat /\ tx.price \in Nat
    BY LedgerAssumption DEF Transactions
  <2>2. BaseGas * tx.price \in Nat
    BY <2>1
  <2>. QED
    BY <2>2 DEF AddFee
<1>2. Fees!Folded(0, txs) \in Nat
  BY <1>1, Fees!FoldType
<1>. QED
  BY <1>2, FeeFold

LEMMA ShareType ==
  ASSUME NEW txs \in Seq(Transactions)
  PROVE  ProposerShare(txs) \in Nat /\ ProposerShare(txs) <= TotalFees(txs)
<1>. DEFINE f == TotalFees(txs)
<1>1. f \in Nat /\ KeepPermille \in 0..1000
  BY FeesType, LedgerAssumption
<1>. HIDE DEF f
<1>2. f * KeepPermille \in Nat /\ f * KeepPermille <= f * 1000
  <2>. DEFINE burnt == 1000 - KeepPermille
  <2>1. burnt \in Nat /\ KeepPermille \in Nat /\ KeepPermille + burnt = 1000
    BY <1>1
  <2>. HIDE DEF burnt
  <2>2. f * KeepPermille \in Nat /\ f * burnt \in Nat
    BY <1>1, <2>1
  <2>3. f * (KeepPermille + burnt) = f * KeepPermille + f * burnt
    BY <1>1, <2>1
  <2>. QED
    BY <2>1, <2>2, <2>3
<1>. DEFINE kept == f * KeepPermille
<1>. HIDE DEF kept
<1>3. kept \div 1000 \in Nat /\ kept \div 1000 <= f
  BY <1>1, <1>2 DEF kept
<1>. QED
  BY <1>3 DEF ProposerShare, kept, f

\* commitBlock() gives the share to the proposer, and writes nothing else.
LEMMA Shared ==
  ASSUME NEW t \in Tries, NEW p \in Addresses, NEW txs \in Seq(Transactions)
  PROVE  LET ws == ShareWrites(t, p, txs)
             u  == FoldLeft(Write, t, ws)
         IN  /\ ws \in Seq(WriteRecords)
             /\ u = [t EXCEPT ![p] = [t[p] EXCEPT !.balance = @ + ProposerShare(txs)]]
             /\ u \in Tries
<1>. DEFINE ws == ShareWrites(t, p, txs)
            n  == ProposerShare(txs)
            acc == [t[p] EXCEPT !.balance = @ + n]
            w  == [addr |-> p, account |-> acc]
<1>1. n \in Nat
  BY ShareType
<1>2. t[p] \in Accounts
  BY DEF Tries
<1>. HIDE DEF n
<1>3. acc \in Accounts
  BY <1>1, <1>2 DEF Accounts
<1>4. w \in WriteRecords
  BY <1>3 DEF WriteRecords
<1>5. Write(t, w) = [t EXCEPT ![p] = acc] /\ [t EXCEPT ![p] = acc] \in Tries
  BY <1>3, WriteAccount
<1>6. n = 0 => acc = t[p]
  BY <1>2 DEF Accounts
<1>7. acc = t[p] => [t EXCEPT ![p] = acc] = t
  BY DEF Tries
<1>8. ws = IF n > 0 THEN <<w>> ELSE <<>>
  BY DEF ShareWrites, n
<1>. HIDE DEF acc, w, ws
<1>9. ws \in Seq(WriteRecords)
  BY <1>4, <1>8
<1>10. FoldLeft(Write, t, ws) = [t EXCEPT ![p] = acc]
  <2>1. CASE n > 0
    <3>1. /\ <<w>> \in Seq({w}) /\ <<w>> # <<>> /\ Head(<<w>>) = w /\ Tail(<<w>>) = <<>>
      OBVIOUS
    <3>2. FoldLeft(Write, t, <<w>>) = FoldLeft(Write, Write(t, w), <<>>)
      BY <3>1, WritesGoOn
    <3>. QED
      BY <1>5, <1>8, <2>1, <3>2, WritesDone
  <2>2. CASE n = 0
    BY <1>1, <1>6, <1>7, <1>8, <2>2, WritesDone
  <2>. QED
    BY <1>1, <2>1, <2>2
<1>. QED
  BY <1>5, <1>9, <1>10 DEF acc, n, ws

-----------------------------------------------------------------------------
(* Sums over the accounts, of which there are finitely many.               *)

Pick(s) == CHOOSE x \in s : TRUE

SumIterDef(iter, f, S) ==
  [s \in SUBSET S |-> IF s = {} THEN 0 ELSE f[Pick(s)] + iter[s \ {Pick(s)}]]
SumIter(f, S) == CHOOSE iter : iter = SumIterDef(iter, f, S)

LEMMA SumIs == \A f : SumFunction(f) = SumIter(f, DOMAIN f)[DOMAIN f]
  BY Zenon DEF SumFunction, SumFunctionOnSet, FoldFunctionOnSet, MapThenFoldSet,
               SumIter, SumIterDef, Pick

LEMMA Picked == \A s : s # {} => Pick(s) \in s
  BY DEF Pick

\* Subsets of a finite set, one element at a time.
LEMMA SubsetInduction ==
  ASSUME NEW S, IsFiniteSet(S), NEW G, {} \in G,
         \A s \in SUBSET S : s # {} /\ s \ {Pick(s)} \in G => s \in G
  PROVE  SUBSET S \subseteq G
<1>. DEFINE U == {n \in Nat : \A s \in SUBSET S : Cardinality(s) <= n => s \in G}
<1>0. \A s \in SUBSET S : /\ IsFiniteSet(s) /\ Cardinality(s) \in Nat
                          /\ Cardinality(s) <= Cardinality(S)
                          /\ Cardinality(s) = 0 <=> s = {}
  BY FS_Subset, FS_CardinalityType, FS_EmptySet
<1>1. 0 \in U
  <2>1. ASSUME NEW s \in SUBSET S, Cardinality(s) <= 0 PROVE s = {}
    BY <1>0, <2>1
  <2>. QED
    BY <2>1
<1>2. ASSUME NEW n \in Nat, n \in U PROVE n + 1 \in U
  <2>. SUFFICES ASSUME NEW s \in SUBSET S, Cardinality(s) <= n + 1, s # {} PROVE s \in G
    OBVIOUS
  <2>1. Pick(s) \in s
    BY Picked
  <2>2. Cardinality(s \ {Pick(s)}) = Cardinality(s) - 1
    BY <1>0, <2>1, FS_RemoveElement
  <2>3. s \ {Pick(s)} \in SUBSET S /\ Cardinality(s \ {Pick(s)}) <= n
    BY <1>0, <2>2
  <2>. QED
    BY <1>2, <2>3
<1>3. Nat \subseteq U
  <2>. HIDE DEF U
  <2>. QED
    BY <1>1, <1>2, Ran!SetInduction
<1>4. Cardinality(S) \in U
  BY <1>3, FS_CardinalityType
<1>. QED
  BY <1>0, <1>4

LEMMA SumIterExists ==
  ASSUME NEW S, IsFiniteSet(S), NEW f
  PROVE  SumIter(f, S) = SumIterDef(SumIter(f, S), f, S)
<1>. DEFINE Small(n) == {s \in SUBSET S : Cardinality(s) <= n}
            Def(g, n) == [s \in Small(n) |->
                            IF s = {} THEN 0 ELSE f[Pick(s)] + g[s \ {Pick(s)}]]
            U == {n \in Nat : \E g : g = Def(g, n)}
<1>0. \A s \in SUBSET S : /\ IsFiniteSet(s) /\ Cardinality(s) \in Nat
                          /\ Cardinality(s) <= Cardinality(S)
                          /\ Cardinality(s) = 0 <=> s = {}
  BY FS_Subset, FS_CardinalityType, FS_EmptySet
<1>1. 0 \in U
  <2>1. \A s \in Small(0) : s = {}
    BY <1>0
  <2>. DEFINE g == [s \in Small(0) |-> 0]
  <2>2. g = Def(g, 0)
    BY <2>1
  <2>. QED
    BY <2>2
<1>2. ASSUME NEW n \in Nat, n \in U PROVE n + 1 \in U
  <2>1. PICK g : g = Def(g, n)
    BY <1>2
  <2>. DEFINE h == [s \in Small(n + 1) |->
                      IF s = {} THEN 0 ELSE f[Pick(s)] + g[s \ {Pick(s)}]]
  <2>2. ASSUME NEW s \in Small(n + 1), s # {}
        PROVE  s \ {Pick(s)} \in Small(n)
    <3>1. Pick(s) \in s
      BY <2>2, Picked
    <3>2. Cardinality(s \ {Pick(s)}) = Cardinality(s) - 1
      BY <1>0, <3>1, FS_RemoveElement
    <3>. QED
      BY <1>0, <3>2
  <2>3. ASSUME NEW s \in Small(n) PROVE h[s] = g[s]
    <3>1. s \in Small(n + 1)
      BY <1>0
    <3>2. g[s] = IF s = {} THEN 0 ELSE f[Pick(s)] + g[s \ {Pick(s)}]
      BY <2>1
    <3>3. h[s] = IF s = {} THEN 0 ELSE f[Pick(s)] + g[s \ {Pick(s)}]
      BY <3>1
    <3>. QED
      BY <3>2, <3>3
  <2>4. \A s \in Small(n + 1) :
          h[s] = IF s = {} THEN 0 ELSE f[Pick(s)] + h[s \ {Pick(s)}]
    <3>. SUFFICES ASSUME NEW s \in Small(n + 1)
                  PROVE  h[s] = IF s = {} THEN 0 ELSE f[Pick(s)] + h[s \ {Pick(s)}]
      OBVIOUS
    <3>1. h[s] = IF s = {} THEN 0 ELSE f[Pick(s)] + g[s \ {Pick(s)}]
      OBVIOUS
    <3>. HIDE DEF h
    <3>. QED
      BY <2>2, <2>3, <3>1
  <2>5. h = [s \in Small(n + 1) |-> h[s]]
    OBVIOUS
  <2>6. h = Def(h, n + 1)
    <3>. HIDE DEF h, Small
    <3>. QED
      BY <2>4, <2>5
  <2>7. \E k : k = Def(k, n + 1)
    <3>. HIDE DEF h, Def
    <3>. QED
      BY <2>6
  <2>8. n + 1 \in Nat
    OBVIOUS
  <2>. HIDE DEF Def
  <2>. QED
    BY <2>7, <2>8
<1>3. Nat \subseteq U
  <2>. HIDE DEF U
  <2>. QED
    BY <1>1, <1>2, Ran!SetInduction
<1>4. Cardinality(S) \in U
  BY <1>3, FS_CardinalityType
<1>5. Small(Cardinality(S)) = SUBSET S
  BY <1>0
<1>6. \E g : g = SumIterDef(g, f, S)
  <2>1. PICK g : g = Def(g, Cardinality(S))
    BY <1>4
  <2>2. g = SumIterDef(g, f, S)
    BY <1>5, <2>1 DEF SumIterDef
  <2>. QED
    BY <2>2
<1>. QED
  BY <1>6 DEF SumIter

LEMMA SumSteps ==
  ASSUME NEW S, IsFiniteSet(S), NEW f
  PROVE  /\ SumIter(f, S)[{}] = 0
         /\ \A s \in SUBSET S : s # {} =>
              SumIter(f, S)[s] = f[Pick(s)] + SumIter(f, S)[s \ {Pick(s)}]
<1>. DEFINE g == SumIter(f, S)
<1>1. g = SumIterDef(g, f, S)
  BY SumIterExists
<1>. HIDE DEF g
<1>2. \A s \in SUBSET S : g[s] = IF s = {} THEN 0 ELSE f[Pick(s)] + g[s \ {Pick(s)}]
  BY <1>1 DEF SumIterDef
<1>. QED
  BY <1>2 DEF g

LEMMA SumType ==
  ASSUME NEW S, IsFiniteSet(S), NEW f \in [S -> Int]
  PROVE  SumFunction(f) \in Int
<1>. DEFINE g == SumIter(f, S)
            G == {s \in SUBSET S : g[s] \in Int}
<1>1. g[{}] = 0 /\ \A s \in SUBSET S : s # {} => g[s] = f[Pick(s)] + g[s \ {Pick(s)}]
  BY SumSteps
<1>2. SumFunction(f) = g[S]
  BY SumIs
<1>. HIDE DEF g
<1>3. \A s \in SUBSET S : s # {} /\ s \ {Pick(s)} \in G => s \in G
  BY <1>1, Picked
<1>4. SUBSET S \subseteq G
  <2>1. {} \in G
    BY <1>1
  <2>. HIDE DEF G
  <2>. QED
    BY <1>3, <2>1, SubsetInduction
<1>. QED
  BY <1>2, <1>4

\* What is added to one of the values is added to the sum.
LEMMA SumAdd ==
  ASSUME NEW S, IsFiniteSet(S), NEW f \in [S -> Int], NEW a \in S, NEW c \in Int
  PROVE  SumFunction([f EXCEPT ![a] = @ + c]) = SumFunction(f) + c
<1>. DEFINE h == [f EXCEPT ![a] = @ + c]
<1>0. h \in [S -> Int] /\ \A x \in S : h[x] = f[x] + (IF x = a THEN c ELSE 0)
  OBVIOUS
<1>. HIDE DEF h
<1>. DEFINE u == SumIter(f, S)  v == SumIter(h, S)
            G == {s \in SUBSET S : /\ u[s] \in Int
                                   /\ v[s] = u[s] + (IF a \in s THEN c ELSE 0)}
<1>1. u[{}] = 0 /\ \A s \in SUBSET S : s # {} => u[s] = f[Pick(s)] + u[s \ {Pick(s)}]
  BY SumSteps
<1>2. v[{}] = 0 /\ \A s \in SUBSET S : s # {} => v[s] = h[Pick(s)] + v[s \ {Pick(s)}]
  BY <1>0, SumSteps
<1>3. SumFunction(f) = u[S] /\ SumFunction(h) = v[S]
  BY <1>0, SumIs
<1>. HIDE DEF u, v
<1>4. ASSUME NEW s \in SUBSET S, s # {}, s \ {Pick(s)} \in G PROVE s \in G
  <2>. DEFINE x == Pick(s)  r == s \ {x}
  <2>1. x \in s
    BY <1>4, Picked
  <2>2. u[s] = f[x] + u[r] /\ v[s] = h[x] + v[r]
    BY <1>1, <1>2, <1>4
  <2>3. u[r] \in Int /\ v[r] = u[r] + (IF a \in r THEN c ELSE 0)
    BY <1>4
  <2>4. h[x] = f[x] + (IF x = a THEN c ELSE 0) /\ f[x] \in Int
    BY <1>0, <2>1
  <2>5. (a \in s) <=> (x = a \/ a \in r)
    BY <2>1
  <2>6. ~ (x = a /\ a \in r)
    OBVIOUS
  <2>. HIDE DEF x, r
  <2>. QED
    BY <2>2, <2>3, <2>4, <2>5, <2>6
<1>5. SUBSET S \subseteq G
  <2>1. {} \in G
    BY <1>1, <1>2
  <2>. HIDE DEF G
  <2>. QED
    BY <1>4, <2>1, SubsetInduction
<1>. QED
  BY <1>3, <1>5 DEF h

-----------------------------------------------------------------------------
(* The transactions that executeBlock() keeps.                             *)

Kept(t, txs) == FoldLeft(Take, [trie |-> t, txs |-> <<>>], txs)

AllValid(t, txs) == ValidTxs(t, txs) = txs

LEMMA NothingKept == ASSUME NEW t PROVE AllValid(t, <<>>)
  BY TakeFold, Took!FoldEmpty DEF ValidTxs, AllValid

\* The state that goes with them is the one they lead to.
LEMMA KeptState ==
  ASSUME NEW P, P \subseteq Transactions, NEW t \in Tries, NEW txs \in Seq(P)
  PROVE  /\ Kept(t, txs) \in [trie : Tries, txs : Seq(P)]
         /\ Kept(t, txs).trie = ExecuteAll(t, ValidTxs(t, txs))
<1>. DEFINE A == {acc \in [trie : Tries, txs : Seq(P)] : acc.trie = ExecuteAll(t, acc.txs)}
            b == [trie |-> t, txs |-> <<>>]
<1>1. b \in A
  <2>1. b \in [trie : Tries, txs : Seq(P)] /\ b.trie = t /\ b.txs = <<>>
    OBVIOUS
  <2>. QED
    BY <2>1, NothingExecuted
<1>2. ASSUME NEW acc \in A, NEW tx \in P PROVE Take(acc, tx) \in A
  <2>1. CASE ~ Valid(acc.trie, tx)
    BY <2>1 DEF Take
  <2>2. CASE Valid(acc.trie, tx)
    <3>1. acc.trie \in Tries /\ acc.txs \in Seq(P) /\ acc.trie = ExecuteAll(t, acc.txs)
      OBVIOUS
    <3>2. Execute(acc.trie, tx) \in Tries
      BY <3>1, ExecuteType
    <3>3. Execute(acc.trie, tx) = ExecuteAll(t, Append(acc.txs, tx))
      BY <3>1, OneMoreExecuted
    <3>. DEFINE new == [trie |-> Execute(acc.trie, tx), txs |-> Append(acc.txs, tx)]
    <3>4. Take(acc, tx) = new
      BY <2>2 DEF Take
    <3>5. /\ new \in [trie : Tries, txs : Seq(P)]
          /\ new.trie = Execute(acc.trie, tx) /\ new.txs = Append(acc.txs, tx)
      BY <3>1, <3>2
    <3>. HIDE DEF new
    <3>. QED
      BY <3>3, <3>4, <3>5
  <2>. QED
    BY <2>1, <2>2
<1>. HIDE DEF A, b
<1>3. Took!Folded(b, txs) \in A
  BY <1>1, <1>2, Took!FoldType
<1>4. Kept(t, txs) \in A
  BY <1>3, TakeFold DEF Kept, b
<1>. QED
  BY <1>4 DEF A, ValidTxs, Kept

\* One more that is valid where the others have led to.
LEMMA OneMoreValid ==
  ASSUME NEW P, P \subseteq Transactions, NEW t \in Tries, NEW txs \in Seq(P),
         NEW tx \in P, AllValid(t, txs), Valid(ExecuteAll(t, txs), tx)
  PROVE  AllValid(t, Append(txs, tx))
<1>. DEFINE b == [trie |-> t, txs |-> <<>>]
<1>1. Kept(t, txs).trie = ExecuteAll(t, txs) /\ Kept(t, txs).txs = txs
  BY KeptState DEF AllValid, ValidTxs, Kept
<1>2. Kept(t, Append(txs, tx)) = Take(Kept(t, txs), tx)
  <2>1. Took!Folded(b, Append(txs, tx)) = Take(Took!Folded(b, txs), tx)
    BY Took!FoldAppend
  <2>. QED
    BY <2>1, TakeFold DEF Kept
<1>3. Kept(t, Append(txs, tx)).txs = Append(txs, tx)
  BY <1>1, <1>2 DEF Take
<1>. QED
  BY <1>3 DEF AllValid, ValidTxs, Kept

\* All of them are valid once more.
LEMMA KeptAreValid ==
  ASSUME NEW P, P \subseteq Transactions, NEW t \in Tries, NEW txs \in Seq(P)
  PROVE  AllValid(t, ValidTxs(t, txs))
<1>. DEFINE A == {acc \in [trie : Tries, txs : Seq(P)] :
                    acc.trie = ExecuteAll(t, acc.txs) /\ AllValid(t, acc.txs)}
            b == [trie |-> t, txs |-> <<>>]
<1>1. b \in A
  <2>1. b \in [trie : Tries, txs : Seq(P)] /\ b.trie = t /\ b.txs = <<>>
    OBVIOUS
  <2>. QED
    BY <2>1, NothingExecuted, NothingKept
<1>2. ASSUME NEW acc \in A, NEW tx \in P PROVE Take(acc, tx) \in A
  <2>1. CASE ~ Valid(acc.trie, tx)
    BY <2>1 DEF Take
  <2>2. CASE Valid(acc.trie, tx)
    <3>1. /\ acc.trie \in Tries /\ acc.txs \in Seq(P)
          /\ acc.trie = ExecuteAll(t, acc.txs) /\ AllValid(t, acc.txs)
      OBVIOUS
    <3>2. Execute(acc.trie, tx) \in Tries
      BY <3>1, ExecuteType
    <3>3. Execute(acc.trie, tx) = ExecuteAll(t, Append(acc.txs, tx))
      BY <3>1, OneMoreExecuted
    <3>4. AllValid(t, Append(acc.txs, tx))
      BY <2>2, <3>1, OneMoreValid
    <3>. DEFINE new == [trie |-> Execute(acc.trie, tx), txs |-> Append(acc.txs, tx)]
    <3>5. Take(acc, tx) = new
      BY <2>2 DEF Take
    <3>6. /\ new \in [trie : Tries, txs : Seq(P)]
          /\ new.trie = Execute(acc.trie, tx) /\ new.txs = Append(acc.txs, tx)
      BY <3>1, <3>2
    <3>. HIDE DEF new
    <3>. QED
      BY <3>3, <3>4, <3>5, <3>6
  <2>. QED
    BY <2>1, <2>2
<1>. HIDE DEF A, b
<1>3. Took!Folded(b, txs) \in A
  BY <1>1, <1>2, Took!FoldType
<1>4. Kept(t, txs) \in A
  BY <1>3, TakeFold DEF Kept, b
<1>. QED
  BY <1>4 DEF A, ValidTxs, Kept

LEMMA ExecuteGoesOn ==
  ASSUME NEW t, NEW S, NEW txs \in Seq(S), txs # <<>>
  PROVE  ExecuteAll(t, txs) = ExecuteAll(Execute(t, Head(txs)), Tail(txs))
<1>1. Ran!Folded(t, txs) = Ran!Folded(Execute(t, Head(txs)), Tail(txs))
  BY Ran!FoldHeadTail
<1>. QED
  BY <1>1, ExecuteFold

=============================================================================
