----------------------------- MODULE NodeState -----------------------------
(***************************************************************************)
(* The account state of one node and everything that reads and writes it:  *)
(* the trie of src/src/state/state_manager.ts with its stack of            *)
(* checkpoints, the executions of proposeBlock(), handleBlock() and        *)
(* commitBlock() (src/src/consensus/bft.ts) by executeBlock()              *)
(* (src/src/vm/executor.ts), and the mempool.                              *)
(*                                                                         *)
(* An execution is a job.  It reads the accounts of a transaction, lets    *)
(* the worker compute, and makes the writes one at a time, each awaited;   *)
(* the mempool and other jobs run in between.  handleBlock() and           *)
(* commitBlock() hold the mutex while they execute, proposeBlock() does    *)
(* not.  Which blocks are proposed, arrive and are committed is for        *)
(* BFTConsensus to say: here a peer's block may arrive at any time, and a  *)
(* block that was verified may be committed at any time.                   *)
(*                                                                         *)
(* A trie is its content, so that equal roots mean equal accounts.  The    *)
(* disk does not fail here.                                                *)
(***************************************************************************)
EXTENDS Ledger, Mempool

CONSTANTS
  Genesis,      \* the accounts that index.ts seeds
  Base,         \* the state the blocks before the model begins have led to
  Self,         \* the address of this node
  Peer,         \* the address of the other proposers
  Jobs,         \* bound: one element for each execution that can be under way
  MaxHeight,    \* bound: no block of a greater height
  MaxBatch,     \* bound: mempool transactions in a block of a peer
  MaxPending,   \* bound: blocks of a height that a node gets to see
  Contrary,     \* bound: the validators whose votes contradict each other
  MaxLost       \* bound: transactions given up after five seconds

ASSUME NodeAssumption ==
  /\ {Genesis, Base} \subseteq Tries
  /\ Contrary \subseteq Addresses
  /\ {Self, Peer} \subseteq Addresses \ {System, Staking}
  /\ Txs \subseteq {tx \in Transactions : tx.from # System /\ tx.to # System}
  /\ {MaxHeight, MaxBatch, MaxPending, MaxLost} \subseteq Nat

VARIABLES
  trie,        \* the working state
  stack,       \* its checkpoints, the outermost first
  jobs,        \* the executions
  pending,     \* this.pendingBlocks
  chain,       \* the blocks saved, each with its receipts
  validators,  \* what updateValidators() last found
  slashed,     \* this.slashedValidators
  updating,    \* startRound(h, 0) awaits updateValidators()
  lost         \* how many transactions were given up

stateVars == <<trie, stack>>
setVars   == <<validators, slashed, updating>>
headVars  == <<pending, chain, setVars>>
vars == <<stateVars, jobs, headVars, lost, poolVars>>

-----------------------------------------------------------------------------
(* Data.                                                                   *)

Kinds  == {"propose", "verify", "commit"}
Phases == {"waiting", "executing", "sharing", "publishing", "saving"}
Blocks == [height : Nat, proposer : {Self, Peer}, txs : Seq(Transactions),
           root : Tries]
Idle   == [kind |-> "idle"]
Active == [kind : Kinds, phase : Phases, block : Blocks \cup {Idle},
           todo : Seq(Transactions), done : Seq(Transactions),
           writes : Seq(WriteRecords)]

Started(kind, phase, block, txs) ==
  [kind |-> kind, phase |-> phase, block |-> block, todo |-> txs,
   done |-> <<>>, writes |-> <<>>]

In(j, kind, phase) ==
  jobs[j] # Idle /\ jobs[j].kind = kind /\ jobs[j].phase = phase

\* this.processing.
MutexFree ==
  \A j \in Jobs : jobs[j] # Idle =>
    jobs[j].kind = "propose" \/ jobs[j].phase = "waiting"

\* No execution is under way.
Quiescent == \A j \in Jobs : jobs[j] = Idle

\* The accounts after a chain, each block with the transactions that its
\* receipts name and the proposer's share of their fees.
AddBlock(accounts, entry) ==
  LET executed == ExecuteAll(accounts, entry.receipts)
  IN  FoldLeft(Write, executed,
               ShareWrites(executed, entry.block.proposer, entry.receipts))

After(blocks) == FoldLeft(AddBlock, Base, blocks)

-----------------------------------------------------------------------------
(* Checkpoints.                                                            *)

Checkpoint == stack' = Append(stack, trie) /\ UNCHANGED trie

\* n calls of revert(); without a checkpoint it throws, and every caller
\* catches that.
Revert(n) ==
  LET kept == IF n > Len(stack) THEN 0 ELSE Len(stack) - n
  IN  /\ trie' = IF kept < Len(stack) THEN stack[kept + 1] ELSE trie
      /\ stack' = SubSeq(stack, 1, kept)

-----------------------------------------------------------------------------
(* executeBlock(): the loop over the transactions, for every kind of job.  *)

Executing(j) ==
  /\ jobs[j] # Idle
  /\ jobs[j].phase = "executing"
  /\ jobs[j].writes = <<>>

\* The accounts are read, and the worker answers: the writes to make, or
\* none when the transaction is not valid.
TxExecuted(j) ==
  /\ Executing(j)
  /\ jobs[j].todo # <<>>
  /\ LET tx == Head(jobs[j].todo)
     IN  jobs' = [jobs EXCEPT
                    ![j].todo = Tail(@),
                    ![j].done = IF Valid(trie, tx) THEN Append(@, tx) ELSE @,
                    ![j].writes = IF Valid(trie, tx) THEN Writes(trie, tx)
                                                     ELSE <<>>]
  /\ UNCHANGED <<stateVars, headVars, lost, poolVars>>

\* The worker does not answer in five seconds: the transaction is left out
\* and a new worker does the next.
TxLost(j) ==
  /\ Executing(j)
  /\ jobs[j].todo # <<>>
  /\ lost < MaxLost
  /\ lost' = lost + 1
  /\ jobs' = [jobs EXCEPT ![j].todo = Tail(@)]
  /\ UNCHANGED <<stateVars, headVars, poolVars>>

\* One putAccount() or putContractStorage() is done.
Writing(j) ==
  /\ jobs[j] # Idle
  /\ jobs[j].writes # <<>>
  /\ trie' = Write(trie, Head(jobs[j].writes))
  /\ jobs' = [jobs EXCEPT ![j].writes = Tail(@)]
  /\ UNCHANGED <<stack, headVars, lost, poolVars>>

Executed(j, kind) ==
  /\ Executing(j)
  /\ jobs[j].kind = kind
  /\ jobs[j].todo = <<>>

-----------------------------------------------------------------------------
(* proposeBlock().                                                         *)

\* The payload of a block: the mempool behind a coinbase, or, for a node that
\* is locked, the payload of a block it has verified.
Payloads ==
  {<<Coinbase(Self, Len(chain) + 1)>> \o ByPrice} \cup {b.txs : b \in pending}

ProposeStarts(j) ==
  /\ jobs[j] = Idle
  /\ Len(chain) < MaxHeight
  /\ Cardinality(pending) < MaxPending
  /\ Checkpoint
  /\ \E txs \in Payloads :
       jobs' = [jobs EXCEPT ![j] = Started("propose", "executing", Idle, txs)]
  /\ UNCHANGED <<headVars, lost, poolVars>>

ProposeExecuted(j) ==
  /\ Executed(j, "propose")
  /\ jobs' = [jobs EXCEPT
                ![j].phase = "publishing",
                ![j].block = [height |-> Len(chain) + 1, proposer |-> Self,
                              txs |-> jobs[j].done, root |-> trie]]
  /\ UNCHANGED <<stateVars, headVars, lost, poolVars>>

\* The state goes back, and the node handles its own block.  A revert that
\* throws ends the proposal instead.
ProposePublished(j) ==
  /\ In(j, "propose", "publishing")
  /\ Revert(1)
  /\ jobs' = [jobs EXCEPT
                ![j] = IF stack = <<>> THEN Idle
                       ELSE Started("verify", "waiting", @.block, @.block.txs)]
  /\ UNCHANGED <<headVars, lost, poolVars>>

-----------------------------------------------------------------------------
(* handleBlock().                                                          *)

\* A peer executes what it can of its transactions, on the state of the chain
\* or, when it has restarted and lost that (state_manager.ts:11), on the
\* genesis.
PeerBlocks ==
  LET h     == Len(chain) + 1
      picks == UNION {{s \in [1..n -> Txs] : IsInjective(s)} : n \in 0..MaxBatch}
      Made(base, s) == ValidTxs(base, <<Coinbase(Peer, h)>> \o s)
  IN  {[height |-> h, proposer |-> Peer, txs |-> Made(base, s),
        root |-> ExecuteAll(base, Made(base, s))] :
         base \in {After(chain), Genesis}, s \in picks}

BlockArrives(j) ==
  /\ jobs[j] = Idle
  /\ Len(chain) < MaxHeight
  /\ Cardinality(pending) < MaxPending
  /\ \E b \in PeerBlocks :
       jobs' = [jobs EXCEPT ![j] = Started("verify", "waiting", b, b.txs)]
  /\ UNCHANGED <<stateVars, headVars, lost, poolVars>>

\* The mutex is free: an old block is dropped, another one is executed.
VerifyStarts(j) ==
  /\ In(j, "verify", "waiting")
  /\ MutexFree
  /\ IF jobs[j].block.height <= Len(chain)
     THEN jobs' = [jobs EXCEPT ![j] = Idle] /\ UNCHANGED stateVars
     ELSE jobs' = [jobs EXCEPT ![j].phase = "executing"] /\ Checkpoint
  /\ UNCHANGED <<headVars, lost, poolVars>>

\* A block is accepted whatever its root (mutation of VerifyExecuted).
VerifyExecuted_AnyRoot(j) ==
  /\ Executed(j, "verify")
  /\ pending' = pending \cup {jobs[j].block}
  /\ Revert(1)
  /\ jobs' = [jobs EXCEPT ![j] = Idle]
  /\ UNCHANGED <<chain, setVars, lost, poolVars>>

\* A verified block stays executed (mutation of VerifyExecuted).
VerifyExecuted_NoRevert(j) ==
  /\ Executed(j, "verify")
  /\ IF trie = jobs[j].block.root
     THEN pending' = pending \cup {jobs[j].block} /\ UNCHANGED stateVars
     ELSE UNCHANGED pending /\ Revert(2)
  /\ jobs' = [jobs EXCEPT ![j] = Idle]
  /\ UNCHANGED <<chain, setVars, lost, poolVars>>

\* On a wrong root there are two reverts: before the return, and in the
\* finally block.
VerifyExecuted(j) ==
  /\ Executed(j, "verify")
  /\ IF trie = jobs[j].block.root
     THEN pending' = pending \cup {jobs[j].block} /\ Revert(1)
     ELSE UNCHANGED pending /\ Revert(2)
  /\ jobs' = [jobs EXCEPT ![j] = Idle]
  /\ UNCHANGED <<chain, setVars, lost, poolVars>>

-----------------------------------------------------------------------------
(* commitBlock().                                                          *)

\* A block with a coinbase out of place is refused under the mutex before anything of
\* this module changes: that is no step here (BFTConsensus has what follows of it).
CommitStarts(j) ==
  /\ jobs[j] = Idle
  /\ MutexFree
  /\ \E b \in pending :
       /\ b.height > Len(chain)
       /\ \A i \in DOMAIN b.txs : b.txs[i].from = System => i = 1
       /\ jobs' = [jobs EXCEPT ![j] = Started("commit", "executing", b, b.txs)]
  /\ Checkpoint
  /\ UNCHANGED <<headVars, lost, poolVars>>

\* The proposer's account is read and its share is written.
CommitExecuted(j) ==
  /\ Executed(j, "commit")
  /\ jobs' = [jobs EXCEPT
                ![j].phase = "sharing",
                ![j].writes = ShareWrites(trie, jobs[j].block.proposer,
                                          jobs[j].done)]
  /\ UNCHANGED <<stateVars, headVars, lost, poolVars>>

\* The mempool is cleaned up as soon as the state is committed (mutation of
\* StateCommitted).
StateCommitted_CleansPool(j) ==
  /\ In(j, "commit", "sharing")
  /\ jobs[j].writes = <<>>
  /\ stack' = IF stack = <<>> THEN <<>> ELSE Front(stack)
  /\ jobs' = [jobs EXCEPT ![j] = IF stack = <<>> THEN Idle
                                 ELSE [@ EXCEPT !.phase = "saving"]]
  /\ pool' = Removed(jobs[j].block.txs)
  /\ UNCHANGED <<trie, headVars, lost, adding>>

\* stateManager.commit(): without a checkpoint it throws, and the commit ends.
StateCommitted(j) ==
  /\ In(j, "commit", "sharing")
  /\ jobs[j].writes = <<>>
  /\ stack' = IF stack = <<>> THEN <<>> ELSE Front(stack)
  /\ jobs' = [jobs EXCEPT ![j] = IF stack = <<>> THEN Idle
                                 ELSE [@ EXCEPT !.phase = "saving"]]
  /\ UNCHANGED <<trie, headVars, lost, poolVars>>

\* What updateValidators() makes of the stakers that a state has.
Validators(stakers) ==
  IF stakers \ slashed # {} THEN stakers \ slashed ELSE validators

\* The validators are read from the state before the block (mutation of
\* CommitSaved).
CommitSaved_OldValidators(j) ==
  /\ In(j, "commit", "saving")
  /\ chain' = Append(chain, [block |-> jobs[j].block, receipts |-> jobs[j].done])
  /\ validators' = Validators(ActiveStakers(After(chain)))
  /\ updating' = TRUE
  /\ pending' = {}
  /\ pool' = Removed(jobs[j].block.txs)
  /\ jobs' = [jobs EXCEPT ![j] = Idle]
  /\ UNCHANGED <<stateVars, slashed, lost, adding>>

\* The block and its receipts are saved, the validators read again, the
\* mempool and the pending blocks cleaned up, and the next height is started.
CommitSaved(j) ==
  /\ In(j, "commit", "saving")
  /\ chain' = Append(chain, [block |-> jobs[j].block, receipts |-> jobs[j].done])
  /\ validators' = Validators(ActiveStakers(trie))
  /\ updating' = TRUE
  /\ pending' = {}
  /\ pool' = Removed(jobs[j].block.txs)
  /\ jobs' = [jobs EXCEPT ![j] = Idle]
  /\ UNCHANGED <<stateVars, slashed, lost, adding>>

\* startRound() of the new height reads the validators once more, without the
\* mutex, from whatever the state is by then.  The list and the stakes, several
\* reads in the code, are one here.
ValidatorsUpdated ==
  /\ updating
  /\ updating' = FALSE
  /\ validators' = Validators(ActiveStakers(trie))
  /\ UNCHANGED <<stateVars, jobs, pending, chain, slashed, lost, poolVars>>

\* slashValidator(): a vote of a validator contradicts another one of it.
Slash ==
  /\ \E a \in (Contrary \cap validators) \ slashed : slashed' = slashed \cup {a}
  /\ UNCHANGED <<stateVars, jobs, pending, chain, validators, updating, lost, poolVars>>

-----------------------------------------------------------------------------
(* The mempool reads the working state, whoever is executing on it.        *)

TxSubmitted(tx) ==
  /\ Submit(tx, trie[tx.from].nonce)
  /\ UNCHANGED <<stateVars, jobs, headVars, lost>>

TxAdded(tx) ==
  /\ AddResumes(tx)
  /\ UNCHANGED <<stateVars, jobs, headVars, lost>>

-----------------------------------------------------------------------------
Init ==
  /\ trie = Base
  /\ stack = <<>>
  /\ jobs = [j \in Jobs |-> Idle]
  /\ pending = {}
  /\ chain = <<>>
  /\ validators = IF ActiveStakers(Base) # {} THEN ActiveStakers(Base)
                                             ELSE {Self, Peer}
  /\ slashed = {} /\ updating = FALSE
  /\ lost = 0
  /\ PoolInit

Next ==
  \/ \E j \in Jobs :
       \/ TxExecuted(j)
       \/ TxLost(j)
       \/ Writing(j)
       \/ ProposeStarts(j)
       \/ ProposeExecuted(j)
       \/ ProposePublished(j)
       \/ BlockArrives(j)
       \/ VerifyStarts(j)
       \/ VerifyExecuted(j)
       \/ CommitStarts(j)
       \/ CommitExecuted(j)
       \/ StateCommitted(j)
       \/ CommitSaved(j)
  \/ ValidatorsUpdated \/ Slash
  \/ \E tx \in Txs : TxSubmitted(tx) \/ TxAdded(tx)

Spec == Init /\ [][Next]_vars

-----------------------------------------------------------------------------
(* Properties.                                                             *)

\* Type invariant.
TypeOK ==
  /\ trie \in Tries
  /\ stack \in Seq(Tries)
  /\ \A j \in Jobs : jobs[j] # Idle => jobs[j] \in Active
  /\ pending \subseteq Blocks
  /\ \A i \in DOMAIN chain :
        chain[i] \in [block : Blocks, receipts : Seq(Transactions)]
  /\ validators \cup slashed \subseteq Addresses
  /\ updating \in BOOLEAN
  /\ lost \in 0..MaxLost
  /\ pool \in Seq(Txs)
  /\ adding \subseteq Txs

\* What the node has executed, in order.
Executions == FoldLeft(LAMBDA txs, entry : txs \o entry.receipts, <<>>, chain)

SumOver(txs, F(_)) == FoldLeft(LAMBDA sum, tx : sum + F(tx), 0, txs)

Supply(t) == SumFunction([a \in Addresses |-> t[a].balance])

\* Between executions the state is the one that the stored blocks and their
\* receipts lead to, and no checkpoint is left: every reverted execution has
\* left no trace (bft.ts:504, 533), no committed one is lost.
StateOfReceipts ==
  Quiescent => stack = <<>> /\ trie = After(chain)

\* No token appears or is lost but by the rewards and the burnt part of the
\* fees, whether an account pays itself, is refunded, stakes or unstakes
\* (worker.ts:106-218, bft.ts:818-826).
SupplyAccounted ==
  Quiescent =>
    Supply(trie) =
      Supply(Base)
      + SumOver(Executions, LAMBDA tx : IF tx.from = System THEN tx.value ELSE 0)
      - SumOver(chain, LAMBDA e : TotalFees(e.receipts) - ProposerShare(e.receipts))

\* The worker takes the account's nonce or the next one (worker.ts:97-104), so
\* a nonce can be used twice, by one transaction in two blocks or by two
\* transactions, but not a third time.
ExecutedAtMostTwice ==
  \A tx \in Txs :
    Cardinality({i \in DOMAIN Executions :
                   /\ Executions[i].from = tx.from
                   /\ Executions[i].nonce = tx.nonce}) <= 2

\* The staking account can pay back every recorded stake: the worker's
\* "System Staking Contract insolvent" (worker.ts:211) is never reached.
StakesCovered ==
  Quiescent =>
    SumFunction(trie[Staking].storage.stake) <= trie[Staking].balance

\* With a block the validators become those who have a stake in its state and are
\* not banned, if there are any (bft.ts:844), and they change again only when
\* startRound() reads them in the middle of an execution, or when somebody was
\* banned meanwhile (bft.ts:374).
ValidatorsFollowStakes ==
  [][LET found == ActiveStakers(After(chain')) \ slashed
     IN  \/ chain' = chain /\ (validators' = validators \/ ~ Quiescent)
         \/ validators' = found
         \/ found = {}]_vars

\* A block that waits for its quorum can be executed on the state of the head,
\* all of it, with the root it announces (bft.ts:566-581), whatever the node
\* itself proposes and reads meanwhile.  When a transaction is given up the
\* root may match by accident.
PendingExecutes ==
  lost = 0 =>
    \A b \in pending :
      /\ ValidTxs(After(chain), b.txs) = b.txs
      /\ ExecuteAll(After(chain), b.txs) = b.root

\* A transaction leaves the pool only in a block of the chain, or for a dearer
\* one when it is among the cheapest of a full pool (mempool/index.ts:41-55).
DearerReplaces ==
  [][\A tx \in Txs :
       Contains(pool, tx) /\ ~Contains(pool', tx) =>
         \/ /\ chain' # chain
            /\ Contains(Last(chain').block.txs, tx)
         \/ /\ Len(pool) = MaxPool
            /\ Len(pool') = MaxPool
            /\ \E t \in Txs : /\ Contains(pool', t) /\ ~Contains(pool, t)
                             /\ \A i \in DOMAIN pool : pool[i].price >= tx.price
                             /\ t.price > tx.price]_vars

=============================================================================
