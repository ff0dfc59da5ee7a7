----------------------------- MODULE BlockStore -----------------------------
(***************************************************************************)
(* What a node keeps of its chain when it stops: the LevelDB tables of     *)
(* src/src/storage/block_store.ts, how commitBlock() fills them, and how   *)
(* start() reads them again.                                               *)
(*                                                                         *)
(* saveBlock() and saveReceipts() make one put after the other, each       *)
(* awaited.  A put can fail, which ends the commit, and the process can    *)
(* stop between any two puts.  A put that is done is on the disk.          *)
(*                                                                         *)
(* Which block is committed is for BFTConsensus to say: here it is any     *)
(* block of the next height, so that a height can be tried again with      *)
(* another block, by a later round or after a restart.                     *)
(***************************************************************************)
EXTENDS Integers, Sequences, FiniteSets

CONSTANTS
  Txs,          \* the transactions, by their hash
  From(_),      \* the sender of a transaction
  To(_),        \* its receiver: every transaction here has one
  Payloads,     \* the transactions of a block: some sequences over Txs
  Rounds,       \* the rounds a block may be proposed in
  MaxHeight,    \* bound: no block of a greater height
  MaxCrashes,   \* bound: how often the process stops
  MaxFailed     \* bound: how many puts fail

ASSUME StoreAssumption ==
  /\ Payloads \subseteq Seq(Txs)
  /\ {MaxHeight, MaxCrashes, MaxFailed} \subseteq Nat

VARIABLES
  disk,      \* the tables, each a function from the keys it has to values
  up,        \* the process is running
  height,    \* this.height
  state,     \* the blocks that the state in memory has executed, in order
  saving,    \* the block that commitBlock() is saving, or NoBlock
  writes,    \* the puts it has still to make
  crashes,
  failed

memory == <<height, state, saving, writes>>
vars == <<disk, up, memory, crashes, failed>>

-----------------------------------------------------------------------------
Blocks  == [height : 1..MaxHeight, round : Rounds, txs : Payloads]
NoBlock == [height |-> 0]

\* The key prefixes "block:", "index:blockHash:", "index:tx:", "index:addr:",
\* "receipt:", "meta:logsBloom:" (with "logs:" and "meta:blockGasUsed:" before
\* it), and "meta:head".  A block is its own hash.
Tables == {"block", "hash", "tx", "addr", "receipt", "bloom", "head"}

Entry(table, key, value) == [table |-> table, key |-> key, value |-> value]

\* put(): the value of the key is new or replaced.
Stored(tables, w) ==
  [tables EXCEPT ![w.table] =
     [k \in DOMAIN @ \cup {w.key} |-> IF k = w.key THEN w.value ELSE @[k]]]

Has(table, key) == key \in DOMAIN disk[table]

HeadKey == "head"
Head0   == [height |-> 0]
DiskHead == IF Has("head", HeadKey) THEN disk["head"][HeadKey] ELSE Head0

\* Three puts for each transaction, in the order of the block.
TxEntries(b) ==
  [i \in 1..(3 * Len(b.txs)) |->
     LET tx == b.txs[(i + 2) \div 3]
     IN  CASE i % 3 = 1 -> Entry("tx", tx, b.height)
           [] i % 3 = 2 -> Entry("addr", <<From(tx), tx>>, b.height)
           [] OTHER     -> Entry("addr", <<To(tx), tx>>, b.height)]

\* The head first (mutation of SaveBlock).
SaveBlock_HeadFirst(b) ==
  <<Entry("head", HeadKey, b), Entry("block", b.height, b),
    Entry("hash", b, b.height)>> \o TxEntries(b)

\* saveBlock().
SaveBlock(b) ==
  <<Entry("block", b.height, b), Entry("hash", b, b.height)>> \o
  TxEntries(b) \o <<Entry("head", HeadKey, b)>>

\* The transactions that a commit has executed: those of the block, but for
\* some (a worker may have been too slow).
Executed(b) ==
  {[i \in DOMAIN pick |-> b.txs[pick[i]]] :
     pick \in UNION {{p \in [1..n -> DOMAIN b.txs] :
                        \A i, k \in 1..n : i < k => p[i] < p[k]} :
                     n \in 0..Len(b.txs)}}

\* saveReceipts().
SaveReceipts(b, executed) ==
  [i \in DOMAIN executed |->
     Entry("receipt", executed[i], [height |-> b.height, block |-> b])] \o
  <<Entry("bloom", b.height, b)>>

-----------------------------------------------------------------------------
(* commitBlock(), from the execution on.                                   *)

Idle == up /\ saving = NoBlock

\* The receipts are saved before the block (mutation of CommitStarts).
CommitStarts_ReceiptsFirst ==
  /\ Idle
  /\ \E b \in Blocks :
       /\ b.height = height + 1
       /\ state' = Append(state, b)
       /\ saving' = b
       /\ writes' = SaveReceipts(b, b.txs) \o SaveBlock(b)
  /\ UNCHANGED <<disk, up, height, crashes, failed>>

\* The block is executed and the state committed; then it is saved.
CommitStarts ==
  /\ Idle
  /\ \E b \in Blocks :
       /\ b.height = height + 1
       /\ state' = Append(state, b)
       /\ saving' = b
       /\ \E executed \in Executed(b) :
            writes' = SaveBlock(b) \o SaveReceipts(b, executed)
  /\ UNCHANGED <<disk, up, height, crashes, failed>>

PutDone ==
  /\ up
  /\ writes # <<>>
  /\ disk' = Stored(disk, Head(writes))
  /\ writes' = Tail(writes)
  /\ UNCHANGED <<up, height, state, saving, crashes, failed>>

\* The height moves although nothing is saved (mutation of PutFails).
PutFails_Moves ==
  /\ up
  /\ writes # <<>>
  /\ failed < MaxFailed
  /\ failed' = failed + 1
  /\ saving' = NoBlock
  /\ writes' = <<>>
  /\ height' = saving.height
  /\ UNCHANGED <<disk, up, state, crashes>>

\* "FATAL: Failed to commit block": there is no checkpoint left to revert to,
\* so the state stays, and the next round of the same height starts.
PutFails ==
  /\ up
  /\ writes # <<>>
  /\ failed < MaxFailed
  /\ failed' = failed + 1
  /\ saving' = NoBlock
  /\ writes' = <<>>
  /\ UNCHANGED <<disk, up, height, state, crashes>>

\* The height moves and the receipts are written later (mutation of
\* CommitDone).
CommitDone_Early ==
  /\ up
  /\ saving # NoBlock
  /\ DiskHead = saving
  /\ height' = saving.height
  /\ saving' = NoBlock
  /\ writes' = <<>>
  /\ UNCHANGED <<disk, up, state, crashes, failed>>

\* The height counts the executions (mutation of CommitDone).
CommitDone_Counts ==
  /\ up
  /\ saving # NoBlock
  /\ writes = <<>>
  /\ height' = Len(state)
  /\ saving' = NoBlock
  /\ UNCHANGED <<disk, up, state, writes, crashes, failed>>

CommitDone ==
  /\ up
  /\ saving # NoBlock
  /\ writes = <<>>
  /\ height' = saving.height
  /\ saving' = NoBlock
  /\ UNCHANGED <<disk, up, state, writes, crashes, failed>>

-----------------------------------------------------------------------------
(* The process stops, and starts again.                                    *)

Crash ==
  /\ up
  /\ crashes < MaxCrashes
  /\ crashes' = crashes + 1
  /\ up' = FALSE
  /\ height' = 0
  /\ state' = <<>>
  /\ saving' = NoBlock
  /\ writes' = <<>>
  /\ UNCHANGED <<disk, failed>>

\* The process begins again at the height after the last block that it finds
\* (mutation of Restart).
Restart_LastBlock ==
  /\ ~up
  /\ up' = TRUE
  /\ height' = Cardinality(DOMAIN disk["block"])
  /\ UNCHANGED <<disk, state, saving, writes, crashes, failed>>

\* The head is not read (mutation of Restart).
Restart_FromZero ==
  /\ ~up
  /\ up' = TRUE
  /\ UNCHANGED <<disk, memory, crashes, failed>>

\* start() takes the height from the head.  The trie is opened without a root,
\* and index.ts seeds the genesis in it: no block is executed.
Restart ==
  /\ ~up
  /\ up' = TRUE
  /\ height' = DiskHead.height
  /\ UNCHANGED <<disk, state, saving, writes, crashes, failed>>

Init ==
  /\ disk = [t \in Tables |-> <<>>]
  /\ up = TRUE
  /\ height = 0
  /\ state = <<>>
  /\ saving = NoBlock
  /\ writes = <<>>
  /\ crashes = 0
  /\ failed = 0

Next ==
  \/ CommitStarts
  \/ PutDone
  \/ PutFails
  \/ CommitDone
  \/ Crash
  \/ Restart

Spec == Init /\ [][Next]_vars

-----------------------------------------------------------------------------
(* Properties.                                                             *)

\* Type invariant.
TypeOK ==
  /\ DOMAIN disk = Tables
  /\ \A k \in DOMAIN disk["block"] : disk["block"][k] \in Blocks /\ k \in 1..MaxHeight
  /\ \A k \in DOMAIN disk["hash"] : k \in Blocks /\ disk["hash"][k] \in 1..MaxHeight
  /\ \A k \in DOMAIN disk["tx"] : k \in Txs /\ disk["tx"][k] \in 1..MaxHeight
  /\ \A k \in DOMAIN disk["addr"] : disk["addr"][k] \in 1..MaxHeight
  /\ \A k \in DOMAIN disk["receipt"] :
        k \in Txs /\ disk["receipt"][k] \in [height : 1..MaxHeight, block : Blocks]
  /\ DOMAIN disk["bloom"] \subseteq 1..MaxHeight
  /\ DiskHead \in Blocks \cup {Head0}
  /\ up \in BOOLEAN
  /\ height \in 0..MaxHeight
  /\ state \in Seq(Blocks)
  /\ saving \in Blocks \cup {NoBlock}
  /\ crashes \in 0..MaxCrashes /\ failed \in 0..MaxFailed

\* Every height up to the head has a block, whenever the process has stopped
\* and whatever has failed: handleSyncRequest() and the API walk them all
\* (block_store.ts:20 before 41).
NoGaps == \A h \in 1..DiskHead.height : Has("block", h)

\* The node is never ahead of its disk: a height that it has reported, voted
\* at or built on is there again after a restart (bft.ts:840 before 846).
NeverAhead == height <= DiskHead.height

\* What get...() finds of a transaction: getTransactionLocation() and the
\* index of each of its addresses.
Located(tx, h) ==
  /\ Has("tx", tx) /\ disk["tx"][tx] >= h
  /\ \A a \in {From(tx), To(tx)} :
        Has("addr", <<a, tx>>) /\ disk["addr"][<<a, tx>>] >= h

\* As long as no put fails, crashes do no harm to a saved block: every block up
\* to the head is found by its hash, its transactions are indexed at its height
\* or above, and the head names the last of them.
HeadServed ==
  failed = 0 /\ DiskHead # Head0 =>
    /\ disk["block"][DiskHead.height] = DiskHead
    /\ \A h \in 1..DiskHead.height :
         LET b == disk["block"][h]
         IN  /\ Has("hash", b) /\ disk["hash"][b] = h
             /\ \A i \in DOMAIN b.txs : Located(b.txs[i], h)

\* A block without receipts is one whose saving a crash or a failed put has
\* interrupted: nothing saves them later, but no more than those are missing.
ReceiptsMissing ==
  Cardinality({h \in 1..DiskHead.height : ~Has("bloom", h)})
    <= crashes + failed + (IF saving # NoBlock THEN 1 ELSE 0)

\* A receipt names a block of the chain that has the transaction, unless a put
\* has failed: it is written only when the head is.
ReceiptNamesBlock ==
  failed = 0 =>
    \A tx \in DOMAIN disk["receipt"] :
      LET r == disk["receipt"][tx]
      IN  /\ r.height <= DiskHead.height
          /\ disk["block"][r.height] = r.block
          /\ \E i \in DOMAIN r.block.txs : r.block.txs[i] = tx

\* The head on the disk never goes back.
HeadGrows == [][DiskHead'.height >= DiskHead.height]_vars

\* The state that the node works with is the one of the blocks up to its
\* height, after a restart too: "Loaded blockchain state" (bft.ts:126).
StateOfHead ==
  Idle => state = [h \in 1..height |-> disk["block"][h]]

=============================================================================
