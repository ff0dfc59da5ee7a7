----------------------------- MODULE ApiServer -----------------------------
(***************************************************************************)
(* The HTTP API of src/src/api/index.ts on top of a node: submitting a     *)
(* transaction, the faucet, the gossip of transactions (src/src/index.ts), *)
(* the announcement of a committed block on the WebSocket, and what the    *)
(* read requests answer.                                                   *)
(*                                                                         *)
(* A request is an async handler like the others: it awaits the nonce, the *)
(* mempool's own read of it, and the publish, and executions run in        *)
(* between.  A read request that awaits one value is an operator: what it  *)
(* would answer now.  The lookup of a transaction, which reads the store   *)
(* and then the pool, is two actions; it changes nothing, so that one at a *)
(* time shows all that it can answer.  commitBlock() saves a block in      *)
(* several puts, which NodeState takes as one; here they are steps,        *)
(* because a read may come between them.  The process lives: the pool is   *)
(* in memory and ends with it.  Requests that the syntax checks refuse     *)
(* have no effect and are left out, as are the rate limits, the EVM calls  *)
(* and the wording of answers.                                             *)
(***************************************************************************)
EXTENDS NodeState

CONSTANTS
  Clients,     \* bound: one element for each request that can be under way
  Sent,        \* the signed transactions that clients and peers submit
  Payees,      \* the addresses that ask the faucet for money
  Amount       \* what the faucet pays

\* new Transaction(...) in the faucet.
Payout(to, nonce) ==
  [from |-> Self, to |-> to, value |-> Amount, nonce |-> nonce,
   limit |-> 1, price |-> 1, cmd |-> "none", amount |-> 0]

ASSUME ApiAssumption ==
  /\ Sent \subseteq Txs
  /\ Payees \subseteq Addresses
  /\ Amount \in Nat

VARIABLES
  requests,    \* the submissions and faucet requests under way
  lookup,      \* a GET /v1/tx/:hash that has read the store, at this height
  saved,       \* how many of SaveSteps the commit under way has done
  announced,   \* the blocks announced on the WebSocket
  accepted,    \* the transactions that a client was told are accepted
  evicted,     \* those that gave way to a dearer one
  paid         \* faucetLastByAddress, within the hour

apiVars == <<requests, lookup, saved, announced, accepted, evicted, paid>>

SaveSteps == <<"body", "head", "receipts">>
Request == [route : {"send", "faucet"}, stage : {"nonce", "check", "add", "publish"},
            tx : Transactions, dirty : BOOLEAN]
NoRequest == [route |-> "none"]
Lookup    == [tx : Txs, seen : Nat]

-----------------------------------------------------------------------------
(* What the store holds while a commit saves: its block as soon as that    *)
(* step is done, then the head, then the receipts.                         *)

Saving(j) == [block |-> jobs[j].block, receipts |-> jobs[j].done]

Entries(step) ==
  LET done == {j \in Jobs : In(j, "commit", "saving") /\ saved >= step}
  IN  IF done = {} THEN chain ELSE Append(chain, Saving(CHOOSE j \in done : TRUE))

getHeight == Len(chain)
getHead   == Len(Entries(2))

\* getBlock(); nothing is stored for height 0.
BlockAt(h) == {Entries(1)[i].block : i \in {h} \cap DOMAIN Entries(1)}

\* getBlockByHash(): a block is its own hash.
BlockOf(hash) == {e.block : e \in {e \in Range(Entries(1)) : e.block = hash}}

\* getTransaction(): the index of transactions names the last block of each.
getTransaction(tx) ==
  LET at == {h \in DOMAIN Entries(1) : Contains(Entries(1)[h].block.txs, tx)}
  IN  {Entries(1)[h].block : h \in {h \in at : h = Max(at)}}

\* eth_getTransactionByHash: the number of the block, null while it is pending.
TxBlock(tx) == {b.height : b \in getTransaction(tx)}

\* eth_getTransactionReceipt.
HasReceipt(tx) == \E e \in Range(Entries(3)) : Contains(e.receipts, tx)

\* Page of GET /v1/blocks one block too long (mutation of Listed).
Listed_OneMore(head, limit, offset) ==
  LET start == Max({0, head - offset})
      end   == Max({0, start - limit})
  IN  (end..start) \cap (1..head)

\* The heights on a page of GET /v1/blocks; 0 is asked for and not found.
Listed(head, limit, offset) ==
  LET start == Max({0, head - offset})
      end   == Max({0, start - limit + 1})
  IN  (end..start) \cap (1..head)

-----------------------------------------------------------------------------
(* Submissions.                                                            *)

Asks(c, route, stage, tx, dirty) ==
  requests' = [requests EXCEPT ![c] = [route |-> route, stage |-> stage, tx |-> tx,
                                       dirty |-> dirty]]

Answered(c) == requests' = [requests EXCEPT ![c] = NoRequest]

At(c, stage) == requests[c] # NoRequest /\ requests[c].stage = stage

\* POST /tx and /v1/tx/send.
SendTx(c) ==
  /\ requests[c] = NoRequest
  /\ \E tx \in Sent : Asks(c, "send", "check", tx, FALSE)
  /\ UNCHANGED <<vars, lookup, saved, announced, accepted, evicted, paid>>

\* POST /faucet and /v1/faucet, for an address that is not cooling down.
AskFaucet(c) ==
  /\ requests[c] = NoRequest
  /\ \E to \in Payees \ paid : Asks(c, "faucet", "nonce", Payout(to, 0), FALSE)
  /\ UNCHANGED <<vars, lookup, saved, announced, accepted, evicted, paid>>

\* The payout has the nonce of the node's own account, as an execution may have
\* left it for the moment.
NonceRead(c) ==
  /\ At(c, "nonce")
  /\ LET nonce == trie[Self].nonce
     IN  Asks(c, "faucet", "check", Payout(requests[c].tx.to, nonce),
              nonce # After(chain)[Self].nonce)
  /\ UNCHANGED <<vars, lookup, saved, announced, accepted, evicted, paid>>

\* mempool.add() reads the sender's nonce and refuses any but the next.
TxChecked(c) ==
  /\ At(c, "check")
  /\ LET tx == requests[c].tx
     IN  IF tx.nonce = trie[tx.from].nonce + 1
         THEN Asks(c, requests[c].route, "add", tx, requests[c].dirty)
         ELSE Answered(c)
  /\ UNCHANGED <<vars, lookup, saved, announced, accepted, evicted, paid>>

\* ... and after the await adds it, or refuses it.
TxEntered(c) ==
  /\ At(c, "add")
  /\ LET r == requests[c]
     IN  /\ IF Admits(r.tx) THEN Asks(c, r.route, "publish", r.tx, r.dirty)
                            ELSE Answered(c)
         /\ pool' = Entered(r.tx)
         /\ evicted' = evicted \cup (Range(pool) \ Range(pool'))
  /\ UNCHANGED <<stateVars, jobs, headVars, lost, adding, lookup, saved, announced,
                 accepted, paid>>

\* broadcastTx() has published: the client gets the hash, and the address of a
\* faucet request starts to cool down.
TxPublished(c) ==
  /\ At(c, "publish")
  /\ Answered(c)
  /\ accepted' = accepted \cup {requests[c].tx}
  /\ paid' = IF requests[c].route = "faucet" THEN paid \cup {requests[c].tx.to} ELSE paid
  /\ UNCHANGED <<vars, lookup, saved, announced, evicted>>

\* ... or throws: the client gets an error for a transaction that is in the pool.
PublishFails(c) ==
  /\ At(c, "publish")
  /\ Answered(c)
  /\ UNCHANGED <<vars, lookup, saved, announced, accepted, evicted, paid>>

\* A transaction of the gossip goes into the pool the same way.
TxGossiped ==
  /\ \E tx \in Sent : TxSubmitted(tx) \/ TxAdded(tx)
  /\ evicted' = evicted \cup (Range(pool) \ Range(pool'))
  /\ UNCHANGED <<requests, lookup, saved, announced, accepted, paid>>

-----------------------------------------------------------------------------
(* GET /v1/tx/:hash.                                                       *)

\* The read of the store is back, without a transaction that a client was told of:
\* one that it finds is answered at once.
LookupMisses ==
  /\ lookup = NoRequest
  /\ \E tx \in accepted :
       /\ getTransaction(tx) = {}
       /\ lookup' = [tx |-> tx, seen |-> getHeight]
  /\ UNCHANGED <<vars, requests, saved, announced, accepted, evicted, paid>>

\* It would be answered 404 now.
NotFound == lookup # NoRequest /\ ~Contains(pool, lookup.tx)

\* ... and is answered "pending" or 404.
LookupAnswered ==
  /\ lookup # NoRequest
  /\ lookup' = NoRequest
  /\ UNCHANGED <<vars, requests, saved, announced, accepted, evicted, paid>>

-----------------------------------------------------------------------------
(* The commit, seen by readers.                                            *)

\* The block is announced when the head is stored (mutation of BlockSaved).
BlockSaved_Announces(j) ==
  /\ In(j, "commit", "saving")
  /\ saved < Len(SaveSteps)
  /\ saved' = saved + 1
  /\ announced' = IF saved = 1 THEN announced \cup {jobs[j].block} ELSE announced
  /\ UNCHANGED <<vars, requests, lookup, accepted, evicted, paid>>

\* A step is done over (mutation of BlockSaved).
BlockSaved_Again(j) ==
  /\ In(j, "commit", "saving")
  /\ saved' = saved + 1
  /\ UNCHANGED <<vars, requests, lookup, announced, accepted, evicted, paid>>

\* The next step of saveBlock() and saveReceipts() is done.
BlockSaved(j) ==
  /\ In(j, "commit", "saving")
  /\ saved < Len(SaveSteps)
  /\ saved' = saved + 1
  /\ UNCHANGED <<vars, requests, lookup, announced, accepted, evicted, paid>>

\* The rest of commitBlock(), down to the event on the WebSocket.
BlockAnnounced(j) ==
  /\ saved = Len(SaveSteps)
  /\ CommitSaved(j)
  /\ saved' = 0
  /\ announced' = announced \cup {jobs[j].block}
  /\ UNCHANGED <<requests, lookup, accepted, evicted, paid>>

\* What NodeState does but for the mempool, the end of a commit, and the reading of
\* the validators by startRound(), which no request sees.
Execution(j) ==
  /\ \/ TxExecuted(j) \/ TxLost(j) \/ Writing(j)
     \/ ProposeStarts(j) \/ ProposeExecuted(j) \/ ProposePublished(j)
     \/ BlockArrives(j) \/ VerifyStarts(j) \/ VerifyExecuted(j)
     \/ CommitStarts(j) \/ CommitExecuted(j) \/ StateCommitted(j)
  /\ UNCHANGED apiVars

ApiInit ==
  /\ Init
  /\ requests = [c \in Clients |-> NoRequest]
  /\ lookup = NoRequest
  /\ saved = 0
  /\ announced = {} /\ accepted = {} /\ evicted = {} /\ paid = {}

ApiNext ==
  \/ \E c \in Clients :
       \/ SendTx(c) \/ AskFaucet(c) \/ NonceRead(c) \/ TxChecked(c)
       \/ TxEntered(c) \/ TxPublished(c) \/ PublishFails(c)
  \/ TxGossiped \/ LookupMisses \/ LookupAnswered
  \/ \E j \in Jobs : Execution(j) \/ BlockSaved(j) \/ BlockAnnounced(j)

ApiSpec == ApiInit /\ [][ApiNext]_<<vars, apiVars>>

-----------------------------------------------------------------------------
(* Properties.                                                             *)

ApiTypeOK ==
  /\ TypeOK
  /\ \A c \in Clients : requests[c] \in Request \cup {NoRequest}
  /\ lookup \in Lookup \cup {NoRequest}
  /\ saved \in 0..Len(SaveSteps)
  /\ announced \subseteq Blocks
  /\ accepted \cup evicted \subseteq Txs
  /\ paid \subseteq Payees

\* As long as the process lives, a transaction that a client was told is accepted is
\* in the pool or in a stored block, unless a dearer one took its place: between the
\* saving of its block and the cleaning of the pool there is no gap.  A lookup can
\* miss it all the same, since it reads the store first (api/index.ts:468) and then
\* the pool (482), but only when its block is committed between the two reads.
AcceptedIsFound ==
  /\ \A tx \in accepted \ evicted : Contains(pool, tx) \/ getTransaction(tx) # {}
  /\ NotFound /\ lookup.tx \in accepted \ evicted =>
       \E h \in (lookup.seen + 1)..getHeight : Contains(chain[h].block.txs, lookup.tx)

\* Whoever is told of a committed block can ask for all of it: by height and by
\* hash, as the head, in a page of the list, its transactions, and the receipts
\* of those that were executed.
AnnouncedIsServed ==
  \A b \in announced :
    /\ getHeight >= b.height /\ getHead >= b.height
    /\ BlockAt(b.height) = {b} /\ BlockOf(b) = {b}
    /\ b.height \in Listed(getHead, 1, getHead - b.height)
    /\ \A i \in DOMAIN b.txs :
         /\ getTransaction(b.txs[i]) # {}
         /\ \A h \in TxBlock(b.txs[i]) :
              h >= b.height /\ Contains(Entries(1)[h].block.txs, b.txs[i])
    /\ \A e \in Range(Entries(1)), i \in DOMAIN b.txs :
         e.block = b /\ Contains(e.receipts, b.txs[i]) => HasReceipt(b.txs[i])

\* Whoever reads the list page by page misses no block, though blocks are committed
\* between two pages and shift the later ones; with a head that rests, nothing
\* comes twice (api/index.ts:280-293).
PagesMissNothing ==
  \A head \in getHead..(MaxHeight + 3), limit \in 1..2, k \in 0..(MaxHeight + 3) :
    \A later \in head..(MaxHeight + 4) :
      LET page == Listed(head, limit, k * limit)
          next == Listed(later, limit, (k + 1) * limit)
      IN  page # {} =>
            /\ k = 0 => Max(page) = head
            /\ Min(page) > 1 => next # {} /\ Max(next) >= Min(page) - 1
            /\ later = head => page \cap next = {}

\* Nothing runs but this request: no execution is under way, the pool is empty.
Alone(c) ==
  /\ \A j \in Jobs : jobs[j] = Idle
  /\ pool = <<>> /\ adding = {}
  /\ \A d \in Clients \ {c} : requests[d] = NoRequest

\* "Optional test token distribution" (README.md:17), "this might fail" only
\* under "high concurrency" (api/index.ts:972-973): the mempool takes the payout of a
\* faucet request that nothing else runs beside.  The code signs it with the account's
\* nonce, and the mempool takes the next one only (mempool/index.ts:29).
FaucetPays ==
  \A c \in Clients :
    At(c, "check") /\ requests[c].route = "faucet" /\ Alone(c)
      => requests[c].tx.nonce = trie[Self].nonce + 1

=============================================================================
