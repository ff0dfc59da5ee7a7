------------------------------- MODULE Ledger -------------------------------
(***************************************************************************)
(* What a transaction does to the accounts: processTx() of                 *)
(* src/src/vm/executor.ts with the message handler of src/src/vm/worker.ts.*)
(* No state here: operators over a trie, which maps addresses to accounts. *)
(*                                                                         *)
(* The transactions are transfers and staking commands with a valid        *)
(* signature.  Contract creations and calls go to the EVM library          *)
(* (executeEvmCreate, executeEvmCall) and are left out; the worker's own   *)
(* contract branches are dead code behind them.                            *)
(***************************************************************************)
EXTENDS Integers, Sequences, SequencesExt, FiniteSetsExt

CONSTANTS
  Addresses,     \* the accounts
  System,        \* SYSTEM_SENDER
  Staking,       \* STAKING_ADDRESS
  BaseGas,       \* GAS_COSTS.BASE, and the gas limit of a coinbase
  Reward,        \* getBlockReward(): constant over the few blocks of a run
  KeepPermille   \* (1 - feeBurnRatio) * 1000: what the proposer keeps of fees

ASSUME LedgerAssumption ==
  /\ {System, Staking} \subseteq Addresses
  /\ System # Staking
  /\ {BaseGas, Reward} \subseteq Nat
  /\ KeepPermille \in 0..1000

Commands == {"none", "stake", "unstake", "other"}
Transactions ==
  [from : Addresses, to : Addresses, value : Nat, nonce : Nat, limit : Nat,
   price : Nat, cmd : Commands, amount : Nat]

\* The storage trie of an account: only the staking account has entries.
Storages == [stake : [Addresses -> Nat], list : SUBSET Addresses]
Accounts == [nonce : Nat, balance : Nat, storage : Storages]
Tries    == [Addresses -> Accounts]

EmptyAccount ==
  [nonce |-> 0, balance |-> 0,
   storage |-> [stake |-> [a \in Addresses |-> 0], list |-> {}]]

Coinbase(to, h) ==
  [from |-> System, to |-> to, value |-> Reward, nonce |-> h,
   limit |-> BaseGas, price |-> 0, cmd |-> "none", amount |-> 0]

-----------------------------------------------------------------------------
(* The checks of the worker.                                               *)

\* Any nonce that is not in the future (mutation of HasNonce).
HasNonce_Earlier(tx, sender) == tx.nonce <= sender.nonce + 1

HasNonce(tx, sender) == tx.nonce \in {sender.nonce, sender.nonce + 1}

\* "Just check Value for now", the comment says (mutation of Affords).
Affords_Value(tx, sender) == sender.balance >= tx.value

Affords(tx, sender) == sender.balance >= tx.value + tx.limit * tx.price

Unstaked(tx) ==
  IF tx.to = Staking /\ tx.cmd = "unstake" THEN tx.amount ELSE 0

\* The insolvency test of the worker and the test of the sender's own stake.
StakeAllows(tx, staking) ==
  \/ tx.cmd = "stake"
  \/ /\ tx.cmd = "unstake"
     /\ tx.amount <= staking.storage.stake[tx.from]
     /\ tx.amount <= staking.balance + tx.value

Valid(trie, tx) ==
  /\ BaseGas <= tx.limit
  /\ tx.from # System =>
       HasNonce(tx, trie[tx.from]) /\ Affords(tx, trie[tx.from])
  /\ tx.to = Staking => StakeAllows(tx, trie[tx.to])

-----------------------------------------------------------------------------
(* The changes it returns, as the writes that the executor's message       *)
(* handler then makes one after the other, each awaited.                   *)

HexDigits[v \in Nat] == IF v < 16 THEN 1 ELSE 1 + HexDigits[v \div 16]

\* newStake.toString('hex') read back by Buffer.from(value, 'hex'): a hex
\* string of odd length loses its last digit.
Stored(v) == IF HexDigits[v] % 2 = 1 THEN v \div 16 ELSE v

\* A withdrawal does not lower the stake (mutation of NewStake).
NewStake_Kept(tx, storage) ==
  IF tx.cmd = "stake" THEN storage.stake[tx.from] + tx.value
                      ELSE storage.stake[tx.from]

NewStake(tx, storage) ==
  IF tx.cmd = "stake" THEN storage.stake[tx.from] + tx.value
                      ELSE storage.stake[tx.from] - tx.amount

NewList(tx, storage) ==
  IF tx.cmd = "stake" THEN storage.list \cup {tx.from}
  ELSE IF NewStake(tx, storage) = 0 THEN storage.list \ {tx.from}
  ELSE storage.list

StakeWrites(tx, storage) ==
  <<[addr |-> tx.from, stake |-> Stored(NewStake(tx, storage))]>> \o
  (IF NewList(tx, storage) = storage.list
   THEN <<>> ELSE <<[list |-> NewList(tx, storage)]>>)

\* Without the refund of the gas that was not used (mutation of SenderAfter).
SenderAfter_NoRefund(tx, sender) ==
  IF tx.from = System THEN sender
  ELSE [sender EXCEPT
          !.nonce = @ + 1,
          !.balance = @ - (tx.value + tx.limit * tx.price) + Unstaked(tx)]

\* The sender pays for all its gas and gets the rest back; a coinbase pays
\* nothing.
SenderAfter(tx, sender) ==
  IF tx.from = System THEN sender
  ELSE [sender EXCEPT
          !.nonce = @ + 1,
          !.balance = @ - (tx.value + tx.limit * tx.price)
                        + Unstaked(tx) + (tx.limit - BaseGas) * tx.price]

\* When sender and receiver are one account, they are one object.
Writes(trie, tx) ==
  LET sender   == SenderAfter(tx, trie[tx.from])
      before   == IF tx.to = tx.from THEN sender ELSE trie[tx.to]
      receiver == [before EXCEPT !.balance = @ + tx.value - Unstaked(tx)]
      written  == IF tx.to = tx.from THEN receiver ELSE sender
  IN  <<[addr |-> tx.from, account |-> written],
        [addr |-> tx.to, account |-> receiver]>> \o
      (IF tx.to = Staking THEN StakeWrites(tx, trie[Staking].storage) ELSE <<>>)

\* putAccount(), and putContractStorage() for the staking account.
Write(trie, w) ==
  CASE "account" \in DOMAIN w -> [trie EXCEPT ![w.addr] = w.account]
    [] "stake" \in DOMAIN w ->
         [trie EXCEPT ![Staking].storage.stake[w.addr] = w.stake]
    [] "list" \in DOMAIN w -> [trie EXCEPT ![Staking].storage.list = w.list]

WriteRecords ==
  [addr : Addresses, account : Accounts] \cup
  [addr : Addresses, stake : Nat] \cup
  [list : SUBSET Addresses]

-----------------------------------------------------------------------------
(* A block as a whole.                                                     *)

Execute(trie, tx) ==
  IF Valid(trie, tx) THEN FoldLeft(Write, trie, Writes(trie, tx)) ELSE trie

ExecuteAll(trie, txs) == FoldLeft(Execute, trie, txs)

\* validTxs of executeBlock().
Take(acc, tx) ==
  IF Valid(acc.trie, tx)
  THEN [trie |-> Execute(acc.trie, tx), txs |-> Append(acc.txs, tx)]
  ELSE acc

ValidTxs(trie, txs) == FoldLeft(Take, [trie |-> trie, txs |-> <<>>], txs).txs

AddFee(sum, tx) == sum + BaseGas * tx.price

TotalFees(txs) == FoldLeft(AddFee, 0, txs)

ProposerShare(txs) == (TotalFees(txs) * KeepPermille) \div 1000

\* The write that commitBlock() adds for the proposer, if there is a share.
ShareWrites(trie, proposer, txs) ==
  IF ProposerShare(txs) > 0
  THEN <<[addr |-> proposer,
          account |-> [trie[proposer] EXCEPT !.balance = @ + ProposerShare(txs)]]>>
  ELSE <<>>

\* The validators that updateValidators() finds; an empty set changes nothing.
ActiveStakers(trie) ==
  {a \in trie[Staking].storage.list : trie[Staking].storage.stake[a] > 0}

=============================================================================
