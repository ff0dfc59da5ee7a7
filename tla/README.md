# bery-bc: models, model checks and proofs

TLA+ modules for the node of this repository (`src/src`, a TypeScript
blockchain node: BFT consensus over libp2p, an account state in a Merkle
Patricia trie, an EVM, LevelDB, an HTTP API). The modules are translated from
the TypeScript code; line numbers are those of the files under `src/`.

    tlc -workers 4 -config late.cfg MCBFTConsensus     one model check
    tlapm BFTConsensusProofs.tla                       the proofs of a module

## 1. The system

| component | source | state | operations |
|---|---|---|---|
| consensus engine | `consensus/bft.ts` | height, round, step, lockedBlock, votes, pendingBlocks, slashedValidators, timer, processing (the mutex), stopped, isSyncing, validators | start, startRound, handleTimeout, proposeBlock, handleBlock, handleVote, checkQuorum, commitBlock, slashValidator, updateValidators, syncBlockchain, handleSyncRequest, stop |
| block, header, vote | `core/block.ts`, `consensus/bft.ts` | none | serialize, hash, sign, verify |
| transaction | `core/transaction.ts` | none | serialize, hash, sign, recover, verify |
| executor and worker | `vm/executor.ts`, `vm/worker.ts`, `evm/index.ts` | one worker thread for each execution of a block | executeBlock, processTx, staking commands, transfers, contract calls |
| state manager, accounts | `state/state_manager.ts`, `state/account.ts` | the trie and its stack of checkpoints | getAccount, putAccount, putContractStorage, dumpContractStorage, checkpoint, commit, revert, getRoot |
| mempool | `mempool/index.ts` | a map of pending transactions | add, getTransactions, remove |
| block store | `storage/block_store.ts`, `storage/index.ts` | LevelDB keys: block by height, height by hash, transaction and address indexes, receipts, head, slashed validators | saveBlock, saveReceipts, saveHead, saveSlashedValidators, get... |
| transport | `network/p2p.ts` | peers, topics | broadcastBlock, broadcastVote, broadcastTx, sendSyncRequest |
| startup | `index.ts`, `config/config.ts` | genesis accounts | seeding, wiring |
| HTTP API, JSON-RPC, faucet | `api/index.ts` | faucet cooldowns, rate limits | routes |
| contract registry | `api/contract_registry.ts` | a map and a JSON file | loadSync, add, get, save |
| user store, tokens | `auth/*.ts` | a map and a JSON file, or a table | create, findByEmail, verifyPassword, load, save |
| crypto, Merkle tree, tokenomics | `crypto/*.ts`, `common/merkle.ts`, `consensus/tokenomics.ts` | none | hashes, keys, root, reward |
| web pages | `frontend/src` | what a page shows, the requests it has under way | fetch on a route, a search, a timer |

How they interact. The transport calls `handleBlock`, `handleVote` and
`mempool.add` when gossip delivers. The engine calls the executor
from `proposeBlock` (no mutex), `handleBlock` and `commitBlock` (under the
mutex), takes transactions from the mempool, commits the trie, saves blocks and
publishes. The executor reads the accounts of a transaction, posts it with them
to the worker thread, and writes the accounts that come back one at a time. The
API submits transactions to the mempool and reads everything; the pages of the
frontend ask the API. The mempool tells `index.ts` of every transaction it takes,
which publishes it (a second time when the API has done so).

Everything but the worker is one event loop: a function runs alone between two
awaits, and any handler whose await is over may run at each await. There is one
lock, `withLock` (bft.ts:105-116), a flag polled every 10 ms.

What is hard here:

* handlers of one node interleave at their awaits: a step, a round or a lock
  read before a publish is used after it;
* messages are lost, late, reordered; a quorum is often known before its block;
* timers race with quorums, and every path that should arm the next one counts;
* the mutex must be free again on every path, and `commitBlock` must not be
  called while it is held;
* one of the steps of a commit fails (VM, trie, disk), and the process can stop
  between two of them;
* the trie and its checkpoints are shared by overlapping executions;
* boot: handlers run before `start()`, and the synchronisation, two seconds later,
  stops them, asks peers that may never answer, and starts the round again;
* API requests, like handlers, read before an await and use it after, and read a
  block while a commit stores it piece by piece;
* files are saved whole by saves that may overlap, fail, or be cut short;
* a page's answers arrive for a subject it no longer has;
* arithmetic: the quorum, nonces, stakes, fees.

What makes each component correct:

* engine: at most one block decided for a height; no block stored without a
  quorum; a vote cast only for an executed block; a decided block in hand is
  committed; the mutex is exclusive and is released;
* executor and state: the state after a block is a function of the state before
  and of the block, the same on proposer, validator and synchronising node; the
  supply changes by the reward and the burnt fee only; every transaction is
  executed at most once;
* mempool: bounded, one transaction for each sender and nonce, nothing kept
  that can never be executed;
* store and restart: after a crash the head, the blocks and the state agree;
* sync: a node that falls behind catches up with the same state, and goes on
  taking part in the rounds whatever the peers answer;
* API: what a client is told stays true: an accepted transaction is in the pool or
  the store, an announced block is served;
* registry and users: no acknowledged write is lost, one user for each email;
* pages: what is shown is of the subject that was asked for last.

`PROJECT.json` lists these hazards at their lines, with the properties that
cover them or the reason why none does.

## 2. The modules

| module | what it is |
|---|---|
| `BFTConsensus` | the consensus engine: every node a set of handlers suspended at their awaits, the network, the peers |
| `VerifiedChain` | what the engine promises about a block store: a chain of verified blocks that only grows |
| `MCBFTConsensus` | the validator lists of the instances that TLC checks |
| `BFTConsensusProofs` | proofs: lemmas on tasks and operators, the types; votes and quorums, justified precommits; mutual exclusion of `withLock`; certified commits, locks and prevotes with their bodies, the refinement of `VerifiedChain` |
| `FoldTheory` | lemmas: the equations and the type of a fold over a sequence, for any operator |
| `Ledger` | operators: what a transfer, a staking command, a coinbase and a fee share do to the accounts |
| `LedgerProofs` | proofs: what those operators return, their folds over a block, nonces, sums of balances and of stakes |
| `Mempool` | the pool, its two-step `add` and its eviction |
| `NodeState` | extends both: the trie with its checkpoints, the executions that share it, the chain and its receipts |
| `MCNodeState` | accounts and transactions of the instances |
| `NodeStateProofs` | proofs: types, the mempool, the state and its receipts, nonces, supply, stakes, validators, heights, blocks that wait |
| `BlockStore` | the LevelDB tables, saved put by put; failing puts, crash, restart |
| `MCBlockStore` | transactions and payloads of the instances |
| `BlockStoreProofs` | proofs: the types of the tables, no gaps below the head, the head and the node's height; what can be read of the chain after crashes, and what is missing |
| `ChainSync` | one validator's life: boot, synchronisation, the `stopped` flag, the timer, coarse rounds |
| `ChainSyncProofs` | proofs: types, stalls, the head, the rounds |
| `ApiServer` | extends `NodeState`: submissions, lookups, the faucet, announcements, reads during a commit |
| `MCApiServer` | accounts and transactions of the instance |
| `ApiServerProofs` | proofs: types, the pages, accepted transactions, announced blocks, the faucet |
| `JsonFile` | operators: a map saved whole to a file by saves that overlap |
| `UserStore`, `ContractRegistry` | the accounts (file or table) and the verified contracts |
| `WebPages` | the pages of the frontend, their requests and answers |
| `Sessions` | who is signed in, in the tabs of one browser |
| `Portal`, `MCPortal` | the last four with one process that ends and restarts; the instance |
| `PortalProofs` | proofs: types, files, answers, pages, for all that `Portal` composes |

### How BFTConsensus reads the code

| variable | in the code |
|---|---|
| `height`, `round`, `step`, `locked` | `this.height`, `round`, `step`, `lockedBlock` |
| `votes[n]` | `this.votes`: the lists of all `height-round-type` keys as one set |
| `pending[n]`, `slashed[n]` | `pendingBlocks`, `slashedValidators` |
| `timer[n]`, `mutex[n]` | whether `this.timer` is armed, `this.processing` |
| `tasks[n]` | the handlers of the process that are suspended at an await, a bag of call stacks |
| `state[n]` | the committed trie: the sequence of payloads executed |
| `chain[n]` | the block store |
| `blocks`, `ballots` | everything ever published |
| `seen[n]` | the blocks gossip has delivered to n |

An action runs a handler from one slow await to the next: everything the code
does in between is that one action. Slow are the gossip publish, the worker, the
disk, `updateValidators()` and the mutex. Two awaits are not slow: after a
publish, `broadcastVote` calls `handleVote`, and `checkQuorum` and the step
change of `handleTimeout` follow in microtasks; they are separate actions for
readability, but no other handler of that node runs before them (`Quiet`). A
publish is slow whenever somebody subscribes to the topic; without a subscriber
`broadcastVote` returns at once (p2p.ts:263-272), so even the runs with one
validator are about a validator that other nodes follow.

| action | code |
|---|---|
| `StartRoundZero`, `EnterRound` | `startRound`, 364-404 |
| `ProposalExecuted`, `ProposalPublished` | `proposeBlock`, 453-530 |
| `ReceiveBlock`, `HandleBlock`, `BlockExecuted` | `handleBlock`, 532-612 |
| `VotePublished`, `ReceiveVote`, `HandleVote` | `broadcastVote`, `handleVote` |
| `SlashSaved` | `slashValidator` |
| `Timeout`, `TimeoutVoted` | `handleTimeout`, 409-441 |
| `VotesCounted` | `checkQuorum`, 658-671: the hashes with a quorum, a pass of its loop for each |
| `JumpToRound`, `PrecommitDecided`, `CommitDecided`, `NilDecided`, `NothingDecided` | one pass of that loop, 671-730, one for each of its branches |
| `CommitLocked`, `commitBlock`, `BlockCommitted`, `ExecutionFailed`, `CommitFailed` | `commitBlock` |
| `PeerProposes`, `PeerPrevotes`, `PeerPrecommits` | other voters, seen by their messages |

Who votes. `handleVote` and `checkQuorum` (621-667) check a signature and count 10
for it; they never ask whether the key is in the validator list, while the quorum is
computed from the list. A node without a key in the configured list is nothing
unusual: `index.ts:38-66` makes a fresh key and runs the engine beside the list. So
`Nodes` and `Peers` may be outside `ValidatorList`: such an outsider never proposes,
but it votes and is counted (`Voters`). `Outsiders` are those among the votes of a
round, and `OneDecision` says how many of them it takes to break it.

`commitBlock` returns under the mutex when a transaction of `SYSTEM_SENDER` is not
the first of its block (804-809), with no next round and no timer of its own:
`Misplaced` are the batches with such a transaction, `Ordered` the blocks without.
`handleBlock` executes and prevotes them, and only the commit refuses them.

Abstractions. A block hash is the block, a signature the validator field: hashes
do not collide and votes are not forged. A state root is the sequence of payloads
that leads to it, so "the root matches" means that the payload was executed on
the same state. A payload is a coinbase and a batch of transactions, which is
all `transactionsRoot` commits to, and what the lock compares. `nth` stands for
the header's timestamp. The network may deliver a published message at any later
time, or never; a block is delivered once (gossipsub suppresses repeats), a vote
any number of times. `NothingDecided` also stands for a quorum whose block the
node does not have: the code logs it and returns.

Peers are an environment: voters that keep one vote for each height, round
and type, precommit on a quorum of prevotes, and stick to the payload they
precommitted. They behave better than the code does. A property that a run finds
violated with peers is therefore one that an honest rest of the network does not
save.

### How Ledger, Mempool and NodeState read the code

`BFTConsensus` takes a state to be the payloads that led to it. `NodeState` is
the other half: one node's accounts, and everything that reads or writes them,
with the choice of blocks left to the environment.

| variable | in the code |
|---|---|
| `trie`, `stack` | `StateManager.trie` and the roots its checkpoints keep: maps from addresses to accounts, so that equal roots are equal accounts |
| `jobs` | the calls of `proposeBlock`, `handleBlock` and `commitBlock` under way, each with the transactions still to do, those applied, and the writes still to make |
| `pending`, `validators`, `slashed` | `pendingBlocks`, what `updateValidators` last found, `slashedValidators` |
| `updating` | `startRound(h, 0)` awaits `updateValidators` |
| `chain` | the block store, each block with the transactions its receipts name |
| `pool`, `adding` | the mempool, and the calls of `add` at their await |
| `lost` | a count of the transactions given up after five seconds, to bound them |

| action | code |
|---|---|
| `TxExecuted` | `processTx`: accounts are read, the worker checks and computes (`Ledger!Valid`, `Ledger!Writes`) |
| `Writing` | one awaited `putAccount` or `putContractStorage` of the message handler |
| `TxLost` | the five second limit (executor.ts:57-61, 189) |
| `ProposeStarts`, `ProposeExecuted`, `ProposePublished` | `proposeBlock`: checkpoint, execute, revert, then `handleBlock` |
| `BlockArrives`, `VerifyStarts`, `VerifyExecuted` | `handleBlock`: the mutex, checkpoint, execute, compare the root, revert once or twice |
| `CommitStarts`, `CommitExecuted`, `StateCommitted`, `CommitSaved` | `commitBlock`: execute, pay the proposer its share, commit, save, read the validators, clean up |
| `ValidatorsUpdated` | `startRound` reads the validators once more (374), without the mutex: from the middle of an execution, if there is one |
| `Slash` | `slashValidator` of a validator of `Contrary`, whom `updateValidators` then skips |
| `TxSubmitted`, `TxAdded` | `add` before and after its await |

The two reads of an execution (sender, receiver) and the worker's answer are one
action: no write of another execution is between them. Writes are separate
actions, so overlapping executions and the mempool see accounts half written.
`proposeBlock` is not kept out by the mutex (`MutexFree`), as in the code. Peers
propose what they can execute on the state of the chain, or on the genesis
after a restart. The storage of the staking account is a record of stakes and the
list of stakers; `Stored` is what becomes of a number that is written with
`toString('hex')` and read with `Buffer.from(value, 'hex')`. `Reward` is a
constant: the decay is a function of the height in floating point.

### How BlockStore reads the code

`disk` has one function for each key prefix of block_store.ts, from the keys that
are there to values; a block is its own hash. `SaveBlock` and `SaveReceipts` are
the puts in the order in which the code awaits them; `PutDone` makes one. The
logs, the gas used and the bloom of a height are one put. `PutFails` is the
`catch` of `commitBlock` (866-874), `CommitDone` its last part, `Crash` the end of
the process between any two puts, `Restart` the beginning of `start()`.
`CommitStarts` takes any block of the next height: after a failed put or a crash a
height can be tried again with another block. A put that is done stays: the
model is of a process that stops, not of a disk that forgets.

### How ChainSync reads the code

`BFTConsensus` begins after the one `startRound()` of a node whose handlers always
run. `ChainSync` is about what it leaves out: one node, whose `stopped` flag, timer
and `startRound()` calls are all there, and whose rounds are coarser. The other
validators are the blocks and quorums they form at any time; verification takes a
block or not; a commit is one step.

| variable | in the code |
|---|---|
| `phase`, `connected` | how far `main()` is, or the process has ended; `network.getPeers()` |
| `head`, `stopped` | the head of the block store, `this.stopped` |
| `engine.height`, `round`, `step`, `timer` | the fields of `BFTConsensus` |
| `engine.voted`, `pending` | what `this.votes` has of the node's own votes, `pendingBlocks`; for the next height |
| `engine.handling`, `sent` | `handleBlock()` executing; `broadcastVote()` publishing, with what awaits it |
| `engine.starting`, `proposing` | `startRound(h, 0)` awaiting the validators, `proposeBlock()` executing: counts, since there may be several |
| `sync` | where `syncBlockchain()` is: the peers left to ask, the best one and its height |

| action | code |
|---|---|
| `start`, `PeerConnects`, `PeerLeaves` | `main` (index.ts:142-188), `start` 118-144 |
| `RoundStarts` | `startRound` after its await, 377-407 |
| `handleTimeout`, `TimerLost` | `handleTimeout`, 409-443, running and stopped |
| `VoteLands`, `VoteFails` | `broadcastVote` when the publish returns or throws (p2p.ts:263-274), the quorum its own vote may complete, and what awaited it |
| `QuorumSeen` | `checkQuorum` on a vote of another validator |
| `BlockArrives`, `BlockHandled` | `handleBlock` before and after its execution |
| `BlockProposed`, `ProposalFails` | `proposeBlock` when its execution is over |
| `SyncStarts`, `StatusAnswered`, `StatusFails` | the loop over the peers, 190-212 |
| `ResumesEarly` | the two early returns, each of which starts the round, 181-189 and 208-212 |
| `BlocksAsked`, `BlocksAnswered`, `BlocksFail` | the loop that fetches blocks, 216-282 |
| `SyncEnds` | the `finally` block, which starts the round (again), 284-291 |

A publish that throws ends the process, unless `proposeBlock()` is above it: no
handler of the engine catches it, and nothing in the repository listens for
unhandled rejections, so Node.js exits.

### How ApiServer reads the code

A request is one more handler of the event loop. `requests` holds those under way
at one of their awaits: the faucet's nonce, the mempool's check, its entry, the
publish. `saved` is how far `saveBlock()` and `saveReceipts()` are in the commit
under way, a step each for the block with its indexes, the head, and the receipts;
`NodeState` takes them as one. `announced`, `accepted`, `evicted` and `paid` record
what clients were told, which transactions were displaced, and the cooldowns.

| action or operator | code |
|---|---|
| `SendTx` | POST `/tx` 1007-1041, `/v1/tx/send` 417-451; `eth_sendRawTransaction` does the same |
| `AskFaucet`, `NonceRead` | POST `/v1/faucet` 317-365, `/faucet` 949-1005 |
| `TxChecked`, `TxEntered` | `Mempool.add` before and after its await |
| `TxPublished`, `PublishFails` | `broadcastTx`, the answer, the cooldown |
| `TxGossiped` | `network.on('tx')` (index.ts:195-202) |
| `LookupMisses`, `LookupAnswered` | GET `/v1/tx/:hash` 453-497: the store has been read (468), without the transaction; then the pool (482) |
| `BlockSaved`, `BlockAnnounced` | `commitBlock` 840-864, the WebSocket event |
| `BlockAt`, `BlockOf`, `getTransaction`, `TxBlock`, `HasReceipt`, `Listed` | the reads by height, hash, transaction, receipt and page |

A lookup is two actions, because the node runs between its two reads. It changes
nothing, so one at a time (`lookup`) shows all that one can answer; only lookups of
accepted transactions that miss are kept, as the others answer at once. The process
does not end in this module: the pool is a map in memory (mempool/index.ts:7), and
what is in no block is lost with it.

### How the portal's modules read the code

`JsonFile` is what `user_store.ts` and `contract_registry.ts` share: the entry goes
into the map and `save()` takes the map in one turn of the event loop; `fs.writeFile`
truncates the file, then writes it, and nothing keeps two saves apart. When two
overlap, the later text may leave the tail of a longer one behind it (`Torn`). A
process that starts takes what the file holds, or nothing. A key's map is
abstracted to a function; a text is longer when it has more entries.

| action | code |
|---|---|
| `SignUp`, `Looked`, `HashedToFile`, `HashedToTable` | POST `/auth/signup` 232-245 and `create()` of the two stores, before and after bcrypt |
| `UsersOpened`, `UsersWritten`, `UsersFailed` | `save()` (user_store.ts:40-43), which `create()` awaits |
| `SignIn`, `Compared` | POST `/auth/signin` 247-258, `verifyPassword()` before and after bcrypt |
| `VerifyAsked`, `VerifyAdded`, `VerifyRefused` | POST `/v1/contracts/verify` 623-650 |
| `RegistrySaves` | `save()` (contract_registry.ts:40-44), which nobody awaits |
| `Restart` | the process ends, with its requests and its saves; `load()`, `loadSync()` |

`WebPages` is one page of any kind. The sets `Once`, `Cancels`, `StartsLoading`,
`Blanks`, `KeepsOld`, `Disconnects` and `Refreshes` say which pages share a trait:
an effect that runs once, a clean-up that marks older requests as cancelled, a
loading flag set on a request, an answer that is not ok and changes nothing, a timer
after a payment. `Select` is a new route, search, address or wallet,
`AnswerArrives` any answer in any order. `Submitted` sets a timer and `RefreshDue` is
the timer. The wallet's asks for the address in the field, the created one or the
connected one (Wallet.tsx:52, 69, 103), whether or not any was checked, so `Submitted`
takes any; the stake's asks for the wallet connected then (Staking.tsx:57-117). `asked`
is the subject of the last request, which may thus be another than the page's.

`Sessions` is `AuthProvider` (AuthContext.tsx) in each tab of a browser, over the
`localStorage` that the tabs share: `TabLoads` its effect (27-40), `FormSubmitted` the
two forms, `SignedIn`, `SignInFails` and `StorageFull` the ends of `login` and `signup`
(42-68), `SignedOut` `logout` (70-75), `Reloaded` a tab loaded anew. `foreign` are the
tabs whose storage another tab has written since.

`Portal` composes the four: they share only the process, so one behaviour uses one
of them (`use`).

## 3. The runs

### The consensus engine

These instantiate `MCBFTConsensus`. `CHECK_DEADLOCK FALSE` in all: with
bounded heights, rounds and timeouts the model stops at the bounds, and an engine
all of whose timers are lost stops in truth (see section 5).

| run | instance | shows |
|---|---|---|
| `late` | a list of four: one node, two peers that act in round 1, one that is down; a third peer that is not in the list; a block out of order; one timeout | `LockIsPending`, `PrevoteHasBody`, `OneDecision`, `CommitCertified`, `PrecommitJustified`, `GrowsVerified` (refinement of `VerifiedChain`) |
| `live` | one validator, fair, two payloads, one timeout, one failing commit, rounds 0-4 | `TypeOK`, `Exclusive`, `DecidedCommits`, `MutexReleased` |
| `final` | one node and a peer, two rounds, two timeouts | `CommittedIsFinal` is violated |

* `Exclusive`: the flag is set exactly while one handler verifies or commits.
  The handlers that compete come from timers, quorums and the node's own proposals
  of several rounds.
* `OneDecision`: two hashes of one round have a quorum at a node only when more keys
  outside the list voted there than a third of the list's length. In `late`, with one
  outsider and a list of four, that is never, so the run shows one decision a round,
  although a node can vote twice and receivers keep whichever vote came first. More
  outsiders can break it, which is the code's doing (see section 4).
* `PrecommitJustified`: a precommit of a block is backed, at its sender and for
  ever after, by a quorum of prevotes of that round.
* `CommitCertified`: a stored block has a quorum of precommits in one round.
* `LockIsPending`: the lock is on a block whose body the node holds and whose
  height it is deciding, so `commitBlock` can find it; a quorum that came before
  its block clears the lock instead.
* `PrevoteHasBody`: the node prevotes only what it executed with success.
* `GrowsVerified`: the store of each node, under the mapping `log <- chain`,
  is a sequence that only grows, each block one height on, its root the one the
  stored payloads lead to. This is what the test of `commitBlock` for a height
  already committed (793) protects.
* `DecidedCommits`, `MutexReleased`: see fairness.

Bounds. Two rounds are enough for a timeout, a jump, a lock that is carried over
and a nil quorum. A timeout more multiplies the states and adds only repeats
of what one does; in `late` the peers' quorum changes the round as well. In `live` the bound of the rounds is never reached (with `MaxRound` 6 the
run has the same states), so that no stop at a bound is mistaken for progress
or for its absence. Peers act in the rounds of `PeerRounds` only; a
list of four is the smallest in which a quorum (3) can form without the node, and
in `late` the vote of the outsider is one of the three. `MaxFailures` bounds the commits that fail.

Every property is also run against a plausible bug (`mutants` in
`PROJECT.json`): the mutex dropped or kept on an early return, the quorum at a
third, prevotes counted for precommits, votes of all rounds counted, a lock or a
prevote without the body, any root accepted, the superseded test off by one.

### Fairness

`FairSpec` has weak fairness on a handler that can go on without the mutex
(`Resumes`): the worker answers or is given up after five seconds
(vm/executor.ts:189), a publish and the disk answer, and the event loop runs what is
due. `BlockExecuted`, `BlockCommitted` and `CommitLocked` have strong
fairness: a waiter polls the flag every 10 ms, and the other handlers of the node
can take it in between or (the other two) hold the event loop in a microtask.
Nothing is assumed of the timer, of the network, of the peers or of failures.
`DecidedCommits` says that a node that holds a block and a quorum of its
precommits commits the height, unless a commit failed or the block has a transaction
out of place: nothing runs `checkQuorum` again after a commit that failed or returned.

### State, mempool and store

`CHECK_DEADLOCK FALSE` here too: these models stop at their bounds.

| run | instance | shows |
|---|---|---|
| `node` | one node and another proposer, one execution at a time, two heights, three transactions, a pool of two, one transaction given up, one validator banned | `TypeOK`, `StateOfReceipts`, `SupplyAccounted`, `ExecutedAtMostTwice`, `StakesCovered`, `ValidatorsFollowStakes`, `PendingExecutes`, `DearerReplaces` |
| `overlap` | two executions at a time, one height | `StateOfReceipts` is violated |
| `store` | two heights, two crashes, one failing put | `TypeOK`, `NoGaps`, `NeverAhead`, `HeadServed`, `ReceiptsMissing`, `ReceiptNamesBlock`, `HeadGrows` |
| `restart` | one crash, no failure | `StateOfHead` is violated |

* `StateOfReceipts`: with no execution under way the trie is the one that the
  stored blocks, executed as their receipts say, lead to from the first state,
  and no checkpoint is left over.
* `SupplyAccounted`: the sum of all balances changes by the rewards and the
  burnt part of the fees. It goes through refunds of gas, payments to oneself
  (where sender and receiver are one object in the worker) and withdrawals.
* `ExecutedAtMostTwice`: the worker takes the account's nonce or the next, so a
  nonce is good for two executions, in one block or two; not for three.
* `StakesCovered`: the staking account's balance covers the recorded stakes, so
  its insolvency error (worker.ts:211) is out of reach.
* `ValidatorsFollowStakes`: with a block the validators become the stakers of its
  state that are not banned, if there are any. They change again only when the
  read of `startRound` falls into an execution, or somebody was banned meanwhile.
* `PendingExecutes`: a block that waits for its quorum executes completely, with
  its root, on the state of the head.
* `DearerReplaces`: a pooled transaction leaves only in a stored block, or for a
  dearer one when the pool is full and it is among the cheapest.
* `NoGaps`, `NeverAhead`, `HeadGrows`: what a restarted node finds. They hold with
  failing puts too.
* `HeadServed`, `ReceiptNamesBlock`: without a failing put, crashes leave every
  block up to the head findable by height, hash and transaction, and every receipt
  pointing into the chain. With one, a height can be written again after its
  head is written (the receipts failed), and a crash then leaves a head whose
  block is another: that is why they ask `failed = 0`.
* `ReceiptsMissing`: a block's receipts are lost to a crash or failure at most
  once for each of these.

Bounds. In `node` the slot for executions is one, so that no two overlap: what
overlapping does is the subject of `overlap`, and it breaks everything at once.
Within an execution the mempool runs between any two writes. Two heights are what
a nonce needs to be used twice and a stake to be withdrawn twice. The
transactions are chosen for their conflicts: a withdrawal and a transfer of one
sender with one nonce, and a payment to oneself by an account that can afford it
only after the transfer. The pool of two is full with all three. In `store` two
crashes let a height be begun, lost, begun with another block, and lost again.

### Boot and synchronisation

| run | instance | shows |
|---|---|---|
| `sync` | two validators, this one second in the list, heads 0 and 1 stored, heights to 1, rounds 0-2, one each of timeouts, messages and failures | `TypeOK`, `StallCause`, `RoundsAdvance`, `SyncResumes` |
| `catchup` | as `sync` | `SyncAdopts` is violated |

* `SyncResumes`: whenever the synchronisation has stopped the handlers, they run
  again, unless the process has ended, or a peer that stays connected is being
  asked for ever: `sendSyncRequest` has no timeout (p2p.ts:81-119). Every way out of
  `syncBlockchain` is in it: no peers, none ahead, an empty answer, a block that does
  not verify, a peer that leaves.
* `SyncAdopts`: a node that asked for the blocks after its head, and is served some,
  moves its head. It is what a synchronisation is for, and the code never does it
  (section 4). The theorem `HeadIsExecuted` says why: the head moves by one block,
  which the node had executed before the quorum.
* `RoundsAdvance`: within a height the round never goes back, but to 0 and by a
  `startRound(h, 0)` that awaited its validators; late quorums cannot do it. The
  second start of the synchronisation does it every time.
* `StallCause`: an engine that has synced and has neither a timer nor anything
  under way is one whose step is behind its own vote. This happens: a
  `startRound(h, 0)` entered again after the node has voted in round 0, or a
  `handleTimeout` that sets its step after the vote it awaited has completed a
  quorum and moved the node on. The timer then fires once more, finds the vote
  cast, and arms no other (415-432). With one validator nobody wakes it up.

Fairness. `FairSpec` has weak fairness on `SyncAlone`: what the synchronisation
does without an answer. `updateValidators()` reads the disk and returns, the two
seconds pass, and libp2p ends a request when the connection is gone. Nothing is
assumed of a connected peer, of the network or of the engine.

Bounds. A peer is as many as the choices need: what it answers (any height), whether
it is asked twice, or leaves. Index 1 makes the node the proposer of round 0 at
height 1 and of round 1 at height 2. Two rounds after the first are what a skipped
round needs. `CHECK_DEADLOCK FALSE`: the model stops at its bounds and when the
process ends.

### The API and the portal

| run | instance | shows |
|---|---|---|
| `api` | two requests, one execution at a time, one height, a pool of two, two payments and the faucet | `ApiTypeOK`, `AcceptedIsFound`, `AnnouncedIsServed`, `PagesMissNothing` |
| `faucet` | as `api` | `FaucetPays` is violated |
| `portal` | three sign-ups of two emails, one sign-in, three verifications of two contracts, four requests of a page on two subjects, two tabs with three sign-ins, two restarts | `TypeOK`, `FileIsMemory`, `AnsweredLasts`, `ShownIsCurrent`, `LoadingEnds` |

* `AcceptedIsFound`: as long as the process lives, a transaction that a client was
  told is accepted is in the pool or in a stored block, unless a dearer one took its
  place. It rests on the order of `commitBlock`: the block is stored (840) before the
  pool is cleaned (851). GET `/v1/tx/:hash` can answer 404 for it all the same: it reads
  the store, awaits, and then reads the pool, although the comment in it says "Check
  mempool first" (api/index.ts:458). The second conjunct says that this happens only
  when the block of the transaction was committed between the two reads; a client that
  asks again finds it.
* `AnnouncedIsServed`: whoever hears of a block on the WebSocket finds it by height,
  by hash, as the head, on a page of the list, with its transactions and the
  receipts of those that were executed. It rests on the event being the last thing
  a commit does; a reader that does not wait for it can see the block without its
  head, and the head without the receipts.
* `PagesMissNothing`: for heads, limits and offsets up to the bounds, a reader that
  asks for the list page by page misses no block, although blocks committed between
  two pages shift the later ones; with a head at rest nothing comes twice.
* `FaucetPays`: the mempool takes the payout of a faucet request that nothing runs
  beside: no execution, no other request, an empty pool. It does not (section 4). The
  theorem `FaucetReadsDirty` says when a payout gets through: only when the faucet read
  a nonce from the middle of an execution that was then reverted.
* `FileIsMemory`: with no save under way, the file holds the map, if the last
  save was alone and did not fail. A save that is alone repairs what was wrong. In
  the browser the stored session is that of the tab, unless another tab has written
  it or the storage was full between its two items.
* `AnsweredLasts`: an account whose sign-up or sign-in was answered with a token can
  sign in ever after, and a verified contract is found ever after. The
  exceptions are the code's: with the file, a second sign-up of the email that
  overlapped bcrypt replaces the first (user_store.ts:50-55); and an end of the
  process on a save that was under way, had failed or had overlapped loses whatever
  the file does not hold. With the table there is none: the row is unique.
* `ShownIsCurrent`: a page with no live request shows what was found about the
  subject that it asked for last, or nothing; and that is its own subject, but on the
  wallet's and the stake's page, where a timer may have asked for another address: a
  wallet page at rest can show the balance of an address that was not the one checked
  (Wallet.tsx:52, 69, 103). The exceptions are the pages without a clean-up, when
  requests crossed (Wallet.tsx:21-41, Staking.tsx:32-46, Explorer.tsx:10-42), and
  the pages that keep what they have when an answer is not ok: a block page whose
  route goes to a height that does not exist goes on showing the earlier block
  (BlockDetail.tsx:18).
* `LoadingEnds`: a page that says that it is loading waits for an answer.

Bounds. Two requests race with each other and with a commit; a third repeats what
two do. The two places for requests are interchangeable and all that `api` checks is
an invariant, so it uses their symmetry. One height is enough, as pages are checked
for all heads up to four more.
Three sign-ups of two emails: two that race for one email, and a third save that
overlaps theirs. Two restarts: the second finds what the first left. Four requests
of a page: one crossing another, and a refresh under each. Two tabs, with as many
calls that each has one and one of them a second.

## 4. Where the code differs from what is written

* `final`. The lock is on the payload, but the payload proposed again in the
  next round is another block (round, proposer, time: 458). Nodes that see
  the quorum of round 0 first and nodes that see the one of round 1 first store
  different blocks at one height, and refuse each other's blocks ever after.
  NETWORK.md:56 says "Once a block is committed by >2/3 validators, it is final.
  No reorganizations."
* `catchup`. README.md:14 says "Robust peer discovery and sync", but no block is ever
  synced: the validator field is an address, `block.verify()` takes it for a public key
  (core/block.ts:95-103), and `syncBlockchain` breaks off (247-249, 278-281) at the first
  block it is served. `Verifies` in `ChainSync` is that; with a `Verifies` that is true
  the property holds.
* `faucet`. README.md:17 promises "Optional test token distribution", and api/index.ts:973
  says that a payout "might fail" under "high concurrency". It fails without any: the
  faucet signs with the account's nonce (340-347, 971-974), and the mempool takes only
  the next one (mempool/index.ts:29), so that the answer is 400.
* `overlap`. `proposeBlock` takes a checkpoint, executes and reverts (480-505)
  without the mutex, which handleBlock takes "to prevent race condition with
  commitBlock or proposeBlock" (533). Overlapping executions revert to each
  other's checkpoints; the trie that is left is nobody's.
* `restart`. The trie is opened without a root (state_manager.ts:11), and no root
  is kept: after a restart the height is the head's ("Loaded blockchain state",
  bft.ts:126) and the accounts are those of the genesis (index.ts:82-103). The node
  cannot verify a peer's block; alone, it goes on from the genesis.
  docs/UPGRADE.md:13 describes upgrades as a "Rolling restart".

Met while modelling, and stated by no violated property:

* A stake is written in hexadecimal without padding (worker.ts:172) and read as
  bytes (executor.ts:136): an odd number of digits loses the last one.
  scripts/test-staking.ts:68 requires the stored stake to equal the staked amount.
  `Ledger!Stored` does it.
* Any key's vote counts 10 (bft.ts:621-667), in the list or not, while NETWORK.md:56
  speaks of ">2/3 validators". Two keys outside a list of four are enough for two hashes
  of a round to have a quorum each: `OneDecision` has that bound.
* A vote is published before the step moves: `handleTimeout` publishes its nil precommit
  and moves the step afterwards (430-433), while `checkQuorum` trusts the step ("Ensure we
  haven't already precommitted for this round (Tracking step helps)", 681-682). A prevote
  quorum that is counted during the publish makes the node precommit the block as well,
  and the other nodes ban it for a double signature (638-641).
* `handleBlock` checks the proposer against the node's round and not the block's (560): a
  block that arrives before the node has reached its round is dropped for good, and the
  round jump (673) leaves the node in the right round without the block (714-715), which
  it never asks for.
* A lookup of an accepted transaction can answer 404 (see `AcceptedIsFound`), and an end
  of the process loses the pool.
* A timer of the wallet's page shows the balance of another address than the one checked
  (see `ShownIsCurrent`).
* A node can be left without a timer (see `StallCause`), and a silent peer keeps it
  stopped for ever (see `SyncResumes`).
* `startRound` reads the validators of a height from a trie that a verification or a
  proposal may be executing on (374), so that two nodes may have other validators for a
  height; and a ban is a node's own (`Slash`).
* A nil quorum that the node's own precommit completes is acted on twice, by
  `handleVote` and by the caller, and the round moves by two (`twice` in `VoteLands`).
* A publish that throws ends the process: no handler catches it and nothing listens
  for unhandled rejections. `index.ts:191-193` publishes every pooled transaction
  that way too.
* Two sign-ups of one email at once both get a token, and one of them cannot sign in
  later; a users.json cut short by a crash is read as empty, and the next
  sign-up overwrites it.
* The dashboard's balance is never shown: `useWallet()` is a state of each
  component, and nothing on that page connects it (Dashboard.tsx:18, 49-66).

## 5. What the model does that no run states

* `ExecutionFailed`: the block is saved and the height moves although its
  payload was not executed (827), so state and store part; `CommitFailed` after
  the trie's commit leaves the payload executed and the height where it was.
* A locked node prevotes another payload when it finds it in `pendingBlocks` on
  entering the round (389), which needs more rounds than these runs have.
* A transaction whose block was committed during the await of `add` is added after
  it, and stays in the pool until a dearer one takes its place.
* A transaction given up at the commit of one node (`TxLost`) makes its state
  another than the others'; commitBlock does not compare the root (816-839).
* A failed save leaves the block executed, and the height is tried again: it is
  executed twice (`PutFails` keeps `state`).
* A crash between the head and the receipts leaves a block without receipts for
  good; getBlockByHash may then answer with the block that replaced a lost one.
* Two faucet requests for one address pass the cooldown together.

## 6. What is proved

`BFTConsensusProofs` holds for
every `Nodes`, `Peers`, `ValidatorList`, `TxBatches` and every bound, from
`ValidatorAssumption` (a list of distinct validators that is not empty, and finitely
many nodes and peers, in the list or not),
`BoundAssumption` (bounds are natural numbers) and `NilAssumption` (no block is nil)
only.

* `TypeCorrect`: `Spec => []TypeOK`. `TypeOK` is inductive as it stands. The work
  is in the bags of stacks: lemmas say what bag sum, bag difference and `Task` do
  to `IsTasks`; one lemma for each operator (`EnterRound`, `HandleVote`,
  `HandleBlock`, `SaveBlock`) and one for each action; `NewBlock` needs `blocks`
  to be finite, which is why `TypeOK` says so.
* `Decision`: `Spec => []OneDecision`. The inductive invariant is `OneVote`: a
  node keeps one vote of each key for a height, a round and a type.
  `OneDecision` is not inductive, since it says nothing of votes below a
  quorum. `TwoQuorums` is the arithmetic: with a list of N, two sets of voters without
  a common member, of power at least (20 N div 3) + 1 each, have more than 4 N / 3
  members together, and at most N of them are in the list. No assumption keeps the
  others from voting.
* `Justified`: `Spec => []PrecommitJustified`. A vote is decided in one action and
  published in a later one, so the invariant must speak of what suspended
  handlers still hold: `AllFit` says that a vote in a frame is backed by the
  prevotes its node has (`Backed`), for every frame of every stack. Votes are
  never forgotten, so what is backed stays so (`Settles`).
* `MutualExclusion`: `Spec => []Exclusive`. The invariant `MutexFits` says which
  frames hold the mutex (`Holds`), that a stack has at most one of them, at its
  bottom, and that the number of such stacks in the bag is one if the flag is set
  and zero if not. The proof is a count of `HeldBy` over bag sum and difference.
* `LockedHasBody`, `PrevotedHasBody`, `CommitsCertified`: `LockIsPending`,
  `PrevoteHasBody`, `CommitCertified`; and `StoreVerified`, the refinement
  `Spec => GrowsVerified` when `MaxFailures = 0`. One invariant, `AllIn`, serves all
  four. `ReadyIn` says what each suspended frame relies on: a vote to be
  published is for a block of its own height which the node has, a round to be
  started is at most the next height, a block to be committed has its quorum and, if
  its height is still the next, a root that the node's state leads to. It is said of a
  record of what the node has (`Env`), so that a handler can be shown ready for
  the state that its own step leaves. Within a height all of this only grows (`Grown`).
  The end of a commit takes it away (`Ended`): that nothing is lost then rests on
  `MutexFits` (no second handler is about to commit) and on the height test of a commit
  that waited. With failures the refinement is false, and has to be: `ExecutionFailed` stores
  a block that the state does not reflect.

`BlockStoreProofs` holds for every `Txs`, `From`, `To`, `Payloads`, `Rounds` and
every bound, from `StoreAssumption` (payloads are sequences of transactions, the
bounds are natural numbers) only.

* `StoreTypeCorrect`, `ChainWithoutGaps`, `NodeNeverAhead`, `HeadNeverBack`: the
  type invariant, `NoGaps`, `NeverAhead` and `HeadGrows`. `NoGaps` is not inductive:
  that a block is there when the head is put depends on puts made earlier, and
  the invariant must know which puts are still to come. `PutsInOrder` says that
  the head of the block being saved is still to come or on the disk, and that
  its body is on the disk or the next put; `HeadNear` that the disk is at most
  one height ahead of the node. `PlanOfABlock` is what they need of the sequence
  of puts, `PutChangesOneKey` of a put.

* `BlocksAreFound`, `ReceiptsAreOfTheChain`, `MissingReceiptsBounded`: `HeadServed`,
  `ReceiptNamesBlock` and `ReceiptsMissing`. None of them speaks of the puts, so the
  invariant must: `SavingInOrder` says that every index of the block being saved is on
  the disk or still comes, that nothing but receipts and the bloom comes after the
  head, and that the bloom is last. With it a head that is put finds its indexes
  there, and a height is missing at most until the last put. `HeadIsOwn` says whose
  head is on the disk as long as no put has failed, so that a put of a body or an
  index is always of the height above the head: that is why a later block, tried at the
  height of an interrupted one, overwrites nothing that is served. `Keyed` bounds what
  the indexes hold. `PlanParts` is what they need of the sequence of puts.

`ChainSyncProofs` holds for every set of peers, place in the list, sync limit, stored
heads and bounds, from `SyncAssumption` (the peers are finite, the place is in the
list, the bounds are natural numbers, stored heads are within them) only.

* `SyncTypeCorrect`, `StallsOnlyBehindItsVote`, `HeadIsExecuted`,
  `RoundsOnlyAdvance`: `TypeOK`, `StallCause`, `HeadExecuted` and `RoundsAdvance`.
  `HeadExecuted` is stated beside its proof: no run checks it, since what it says is why
  the run `catchup` finds its violation.
  The invariant `IInv` adds three facts to the types. `StoppedBySync`: the flag is
  set only while the synchronisation is between its start and its end, so that a
  timer that finds it set is followed by a start of the round. `CommitStep`: a
  node that has synced and is between two heights (step COMMIT) is starting a round. `NeverAsleep`: a settled engine
  has a timer, or a `startRound` under way, or a `handleTimeout` that awaits its vote
  (and will set the timer), or is behind its own vote. `StallCause` alone is not
  inductive: a vote that lands takes away the last thing under way, and the proof
  must know that what it leaves has a timer. All round operators (`EnterRound`,
  `NextRound`, `Jump`, the three quorums) are shown once to keep `Onward`, a relation
  between the engine before and after; the actions follow from it.

`PortalProofs` holds for every set of requests, emails, contracts, subjects, tabs and
people, from `PortalAssumption` (the bounds are natural numbers) only.

* `PortalTypeCorrect`, `FilesHoldTheMaps`, `AnswersLast`, `PagesShowWhatTheyAsked`,
  `LoadingWaits`: `TypeOK`, `FileIsMemory`, `AnsweredLasts`, `ShownIsCurrent` and
  `LoadingEnds`. The invariant `IInv` has one part for each module. Of the files
  `AloneFits`: a save that never had another beside it is the only one, holds the map as it
  is, and writes to a file that it has truncated itself (so that nothing of an older
  text stays behind). The lemmas `PutFits`, `SaveFits` and `RestartFits` serve both
  stores. Of the accounts `Lasting`: not only an account that was answered is safe, but
  also that of a sign-up that awaits its save and the one that a sign-in has found and
  compares. Of the pages `OneLive`: at most one live request, about the subject asked
  for last, unless requests of a page without a clean-up crossed.

### The accounts, the mempool and the API

`NodeState` defines what a block does with folds (`FoldLeft` over its transactions,
over the writes of a transaction, over the chain), so its proofs need induction over
sequences of any length. `FoldTheory` provides it for an operator `Op` that is a
constant of the module, and a module that folds instantiates it with an operator of
its own (`Ran == INSTANCE FoldTheory WITH Op <- Execute`). The induction is over
sets: the set of lengths up to which a statement holds has 0 and with each number
the next. `FoldEmpty`, `FoldAppend`, `FoldHeadTail`, `FoldConcat` and `FoldType` are
the lemmas that the others use.

`LedgerProofs` holds under `LedgerAssumption` (two fixed addresses, amounts that are
natural numbers): the type of every operator of `Ledger`; what one transaction does
to the nonce of an account, to the sum of the balances and to the recorded stakes,
command by command; and the same for a block, through the folds.

`NodeStateProofs` adds `PoolAssumption` and `NodeAssumption` (the genesis and the
first state are accounts, nobody sends from the coinbase's address, bounds are
natural numbers). `NodeTypeCorrect`, `OnlyADearerReplaces` and `OneCommitsTheNext`
hold for any number of executions at a time. The others assume `OneAtATime`, that
`Jobs` has one element. The code does not guarantee it: `proposeBlock()` runs
without the mutex, and the run `overlap` refutes `StateOfReceipts` without the
assumption. They say what holds whenever no proposal is executed beside another
execution.

* `NodeTypeCorrect`: `TypeOK`, with `NodeTypes(P)` for the invariant: every job
  holds a block and writes of the right types, in a phase of its kind. It is
  parameterised by the set of what may be in the pool, since the API adds the
  faucet's payouts.
* `OnlyADearerReplaces`: `DearerReplaces`, an action property, from the types and
  from what `Removed` and `ByPrice`, both folds, keep of a sequence.
* `StateFollowsReceipts`: `StateOfReceipts`. It says nothing of the middle of an
  execution, so `StateInv` adds `JobState`: for each phase, where the trie and the
  checkpoints are. Half way through the writes of a transaction, the writes still to
  come, folded over the trie, lead to what the receipts so far lead to from the
  head; the checkpoint below is the head's state, so that reverting restores it.
* `StakesGiveValidators`: `ValidatorsFollowStakes`, from the same invariant.
* `NonceUsedAtMostTwice`, `SupplyIsAccounted`, `StakesAreCovered`:
  `ExecutedAtMostTwice`, `SupplyAccounted` and `StakesCovered` have the same shape:
  something holds of every state that executing valid transactions and paying shares
  can lead to. `Histories` are records of a state, of what was executed to reach it
  and of what was burnt; a set of them is `Closed` if one valid transaction more, or
  the end of a block, stays in it. `WithinAlways` shows once that the node never
  leaves a closed set, and each theorem supplies one: `Counted` (a nonce below the
  account's was used at most twice, the account's own at most once, a later one
  never), `Balanced`, `Covered`. The last two sum over the accounts and assume that
  there are finitely many; `StakesAreCovered` also assumes that the stakes are
  covered at the beginning and that no transaction is sent from the staking account,
  whose address (transaction.ts:5) is no key's.
* `OneCommitsTheNext`: the invariant `HeightInv`. No run checks it as such; the
  proofs below need it, and it is where the mutex of `handleBlock()` and
  `commitBlock()` counts.
* `PendingCanBeExecuted`: `PendingExecutes`, but for one case. `PendingInv` follows
  a proposal through verification: its transactions are valid on the head, and what
  a verification has still to do leads to what the block leads to. The case is a
  block that a restarted peer has made on the genesis: the verification compares
  roots only, which agree by accident for some constants (without a reward, two
  states can be equal), and then transactions of a block with the right root need
  not be valid. Of every block it is proved that the root is right.

`ApiServerProofs` adds `ApiAssumption` (what clients send is in `Txs`, payees are
addresses, the faucet's amount is a natural number).

* `ApiTypeCorrect`: `ApiTypeOK`. The model's type of the pool is `Seq(Txs)`, so the
  theorem assumes that `Txs` has the faucet's payouts; the invariant `ApiTypes` does
  not, nor do the theorems below.
* `PagesAreComplete`: `PagesMissNothing`, arithmetic of `Listed`: a page goes from
  one height down to another.
* `AcceptedIsNeverLost`: `AcceptedIsFound`, for any number of requests and of
  executions at a time. `PresenceInv` also speaks of a request that is at its
  publish: its transaction is in the pool, in a block, or has given way.
  `OnlyADearerReplaces` is not enough, as the proof must know that what gives way is
  recorded. `MissedInv` follows a lookup: what the store did not have is in no block up
  to the height of then, so that one it can no longer find came in later.
* `AnnouncedIsComplete`: `AnnouncedIsServed`, for any number of both, from
  `HeightInv`: the indexes by height, hash and transaction agree since the chain has
  one block of each height.
* `FaucetReadsDirty`: `FaucetNeedsDirtyRead`, which is stated beside its proof as the
  reason for what the run `faucet` finds, with `OneAtATime`. `NonceInv`: no
  nonce in the trie, or in a write still to come, is behind the head's. `ReadInv`: a
  payout that is past the mempool's check has a nonce that was not the head's.

Only model-checked: the liveness properties (`DecidedCommits`, `MutexReleased`,
`SyncResumes`), which are out of the prover's reach, and the part of
`PendingExecutes` that `PendingCanBeExecuted` leaves out, which is not true for all
constants.

## 7. Not modelled, and what is left

Not modelled, for good: libp2p, LevelDB, the EVM's instructions, JWT and bcrypt
(libraries), signatures and hash functions, HTTP routing, rate limits and formatting,
the layout of the frontend, the wallet connection, the scripts.

Left, in this order:

1. `Rounds`: locks and rounds of many nodes, coarser than `BFTConsensus`, for
   what needs as many rounds as validators (the lock that `startRound` does not look
   at, 389), with the puts of `saveSlashedValidators`, which nothing orders.
2. Contract calls: what `executeEvmCall` and `executeEvmCreate` (executor.ts:197-304)
   do with gas, balances and nonces around the EVM library. A call takes its gas
   after the run and without a balance check (211).
3. The Merkle tree as an operator; GET `/auth/me`.
4. Proofs: an abstract ledger (a state and one atomic step for each block) that
   `NodeState` refines with one execution at a time, from `StateInv`;
   `PendingExecutes` as it stands, with an assumption on the reward under which
   roots do not agree by accident.
