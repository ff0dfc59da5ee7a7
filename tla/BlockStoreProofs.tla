-------------------------- MODULE BlockStoreProofs --------------------------
(***************************************************************************)
(* For every set of transactions and every bound: the type invariant of    *)
(* BlockStore, that the disk has every block up to its head, that the node *)
(* is never ahead of its disk, that the head never goes back, and what can *)
(* be read of the chain after crashes: blocks up to the head are found by  *)
(* hash and transaction, receipts name blocks of the chain, and no more    *)
(* receipts are missing than crashes and failures have interrupted.        *)
(*                                                                         *)
(* What makes them inductive is the order of the puts: bodies and indexes, *)
(* then the head, then the receipts and, last of all, the bloom.  The head *)
(* is still to be written or names the height of the block that is being   *)
(* saved, and when it is to be written, the block is on the disk or comes  *)
(* before it.                                                              *)
(***************************************************************************)
EXTENDS BlockStore, SequenceTheorems, FiniteSetTheorems, TLAPS

-----------------------------------------------------------------------------
(* The puts of a block.                                                    *)

Heights   == 1..MaxHeight
AddrKeys  == {<<From(tx), tx>> : tx \in Txs} \cup {<<To(tx), tx>> : tx \in Txs}
HeadPuts  == [table : {"head"}, key : {HeadKey}, value : Blocks]
OtherPuts ==
  [table : {"block"}, key : Heights, value : Blocks] \cup
  [table : {"hash"}, key : Blocks, value : Heights] \cup
  [table : {"tx"}, key : Txs, value : Heights] \cup
  [table : {"addr"}, key : AddrKeys, value : Heights] \cup
  [table : {"receipt"}, key : Txs, value : [height : Heights, block : Blocks]] \cup
  [table : {"bloom"}, key : Heights, value : Blocks]
Puts == HeadPuts \cup OtherPuts

\* Every index entry of a block is a put, and none is the head's.
LEMMA TxEntriesArePuts ==
  ASSUME NEW b \in Blocks
  PROVE  TxEntries(b) \in Seq(OtherPuts)
<1>1. Len(b.txs) \in Nat /\ b.txs \in Seq(Txs) /\ b.height \in Heights
  BY StoreAssumption DEF Blocks, Heights
<1> DEFINE Put(i) ==
      LET tx == b.txs[(i + 2) \div 3]
      IN  CASE i % 3 = 1 -> Entry("tx", tx, b.height)
            [] i % 3 = 2 -> Entry("addr", <<From(tx), tx>>, b.height)
            [] OTHER     -> Entry("addr", <<To(tx), tx>>, b.height)
<1>2. ASSUME NEW i \in 1..(3 * Len(b.txs))
      PROVE  Put(i) \in OtherPuts
  <2> DEFINE k == (i + 2) \div 3
  <2>1. k \in 1..Len(b.txs)
    BY <1>1
  <2>2. b.txs[k] \in Txs
    BY <1>1, <2>1
  <2>3. Entry("tx", b.txs[k], b.height) \in OtherPuts
    BY <1>1, <2>2 DEF Entry, OtherPuts
  <2>4. /\ Entry("addr", <<From(b.txs[k]), b.txs[k]>>, b.height) \in OtherPuts
        /\ Entry("addr", <<To(b.txs[k]), b.txs[k]>>, b.height) \in OtherPuts
    BY <1>1, <2>2 DEF Entry, OtherPuts, AddrKeys
  <2> QED BY <2>3, <2>4
<1>3. TxEntries(b) = [i \in 1..(3 * Len(b.txs)) |-> Put(i)]
  BY DEF TxEntries
<1>4. 3 * Len(b.txs) \in Nat
  BY <1>1
<1> HIDE DEF Put
<1> QED BY <1>2, <1>3, <1>4

LEMMA ReceiptsArePuts ==
  ASSUME NEW b \in Blocks, NEW executed \in Executed(b)
  PROVE  SaveReceipts(b, executed) \in Seq(OtherPuts)
<1>1. b.txs \in Seq(Txs) /\ b.height \in Heights
  BY StoreAssumption DEF Blocks, Heights
<1>2. executed \in Seq(Txs)
  BY <1>1 DEF Executed
<1>3. \A i \in 1..Len(executed) :
         Entry("receipt", executed[i], [height |-> b.height, block |-> b])
           \in OtherPuts
  BY <1>1, <1>2 DEF Entry, OtherPuts
<1>4. [i \in DOMAIN executed |->
         Entry("receipt", executed[i], [height |-> b.height, block |-> b])]
        \in Seq(OtherPuts)
  BY <1>2, <1>3
<1>5. <<Entry("bloom", b.height, b)>> \in Seq(OtherPuts)
  BY <1>1 DEF Entry, OtherPuts
<1> QED BY <1>4, <1>5 DEF SaveReceipts

LEMMA OthersAreNotHead ==
  \A w \in OtherPuts : w.table # "head"
BY DEF OtherPuts

\* All the puts of a block: its body is the first, the head is one of them,
\* and no other one writes the head.
LEMMA PlanOfABlock ==
  ASSUME NEW b \in Blocks, NEW executed \in Executed(b)
  PROVE  LET plan == SaveBlock(b) \o SaveReceipts(b, executed)
         IN  /\ plan \in Seq(Puts)
             /\ plan # <<>>
             /\ plan[1] = Entry("block", b.height, b)
             /\ \E i \in DOMAIN plan : plan[i] = Entry("head", HeadKey, b)
             /\ \A i \in DOMAIN plan : plan[i].table = "head" =>
                  plan[i] = Entry("head", HeadKey, b) /\ i # 1
<1> DEFINE first == <<Entry("block", b.height, b), Entry("hash", b, b.height)>>
           head  == <<Entry("head", HeadKey, b)>>
           rest  == SaveReceipts(b, executed)
           body  == first \o TxEntries(b)
           plan  == (body \o head) \o rest
<1>1. SaveBlock(b) \o rest = plan
  BY DEF SaveBlock
<1>2. first \in Seq(OtherPuts) /\ Len(first) = 2
  BY StoreAssumption DEF Blocks, Heights, Entry, OtherPuts
<1>3. body \in Seq(OtherPuts) /\ Len(body) >= 2
  BY <1>2, TxEntriesArePuts
<1>4. body[1] = Entry("block", b.height, b)
  BY <1>2, TxEntriesArePuts
<1>5. head \in Seq(HeadPuts) /\ Len(head) = 1 /\ head[1] = Entry("head", HeadKey, b)
  BY DEF Entry, HeadPuts
<1>6. rest \in Seq(OtherPuts)
  BY ReceiptsArePuts
<1> HIDE DEF first, head, rest, body
<1>7. plan \in Seq(Puts) /\ Len(plan) = Len(body) + 1 + Len(rest)
  <2>1. body \in Seq(Puts) /\ head \in Seq(Puts) /\ rest \in Seq(Puts)
    <3>1. OtherPuts \subseteq Puts /\ HeadPuts \subseteq Puts
      BY DEF Puts
    <3> HIDE DEF OtherPuts, HeadPuts, Puts
    <3> QED BY <1>3, <1>5, <1>6, <3>1, SeqMonotonic
  <2>2. body \o head \in Seq(Puts) /\ Len(body \o head) = Len(body) + Len(head)
    BY <2>1, ConcatProperties
  <2>3. plan \in Seq(Puts) /\ Len(plan) = Len(body \o head) + Len(rest)
    BY <2>1, <2>2, ConcatProperties
  <2> QED BY <1>5, <2>2, <2>3
<1>8. \A i \in DOMAIN plan :
         plan[i] = IF i <= Len(body) THEN body[i]
                   ELSE IF i = Len(body) + 1 THEN head[1]
                   ELSE rest[i - (Len(body) + 1)]
  BY <1>3, <1>5, <1>6, <1>7
<1>9. \A i \in DOMAIN plan : plan[i].table = "head" => i = Len(body) + 1
  <2> SUFFICES ASSUME NEW i \in DOMAIN plan, i # Len(body) + 1
               PROVE  plan[i] \in OtherPuts
    BY OthersAreNotHead
  <2> QED BY <1>3, <1>6, <1>7, <1>8
<1>10. Len(body) + 1 \in DOMAIN plan /\ 1 \in DOMAIN plan
  BY <1>3, <1>6, <1>7
<1>11. plan[1] = Entry("block", b.height, b)
  BY <1>3, <1>4, <1>8, <1>10
<1>12. plan[Len(body) + 1] = Entry("head", HeadKey, b)
  BY <1>3, <1>5, <1>8, <1>10
<1>13. plan # <<>>
  BY <1>7, <1>10
<1> HIDE DEF plan
<1> QED BY <1>1, <1>3, <1>7, <1>9, <1>10, <1>11, <1>12, <1>13 DEF rest

-----------------------------------------------------------------------------
(* One put.                                                                *)

\* A put adds its key to its table or replaces the value; all else stays.
LEMMA PutChangesOneKey ==
  ASSUME DOMAIN disk = Tables, NEW w, w.table \in Tables,
         disk' = Stored(disk, w)
  PROVE  /\ DOMAIN disk' = Tables
         /\ \A t \in Tables : t # w.table => disk'[t] = disk[t]
         /\ DOMAIN disk'[w.table] = DOMAIN disk[w.table] \cup {w.key}
         /\ \A k \in DOMAIN disk'[w.table] :
              disk'[w.table][k] =
                IF k = w.key THEN w.value ELSE disk[w.table][k]
BY DEF Stored

\* A put keeps the types of the tables.
LEMMA PutKeepsTypes ==
  ASSUME TypeOK, NEW w \in Puts, disk' = Stored(disk, w)
  PROVE  /\ DOMAIN disk' = Tables
         /\ \A k \in DOMAIN disk'["block"] :
              disk'["block"][k] \in Blocks /\ k \in Heights
         /\ \A k \in DOMAIN disk'["hash"] :
              k \in Blocks /\ disk'["hash"][k] \in Heights
         /\ \A k \in DOMAIN disk'["tx"] : k \in Txs /\ disk'["tx"][k] \in Heights
         /\ \A k \in DOMAIN disk'["addr"] : disk'["addr"][k] \in Heights
         /\ \A k \in DOMAIN disk'["receipt"] :
              /\ k \in Txs
              /\ disk'["receipt"][k] \in [height : Heights, block : Blocks]
         /\ DOMAIN disk'["bloom"] \subseteq Heights
         /\ DiskHead' \in Blocks \cup {Head0}
<1>1. w.table \in Tables
  BY DEF Puts, HeadPuts, OtherPuts, Tables
<1>2. /\ DOMAIN disk' = Tables
      /\ \A t \in Tables : t # w.table => disk'[t] = disk[t]
      /\ DOMAIN disk'[w.table] = DOMAIN disk[w.table] \cup {w.key}
      /\ \A k \in DOMAIN disk'[w.table] :
           disk'[w.table][k] = IF k = w.key THEN w.value ELSE disk[w.table][k]
  BY <1>1, PutChangesOneKey DEF TypeOK
<1>3. \A k \in DOMAIN disk'["block"] : disk'["block"][k] \in Blocks /\ k \in Heights
  BY <1>2 DEF TypeOK, Puts, HeadPuts, OtherPuts, Tables, Heights
<1>4. \A k \in DOMAIN disk'["hash"] : k \in Blocks /\ disk'["hash"][k] \in Heights
  BY <1>2 DEF TypeOK, Puts, HeadPuts, OtherPuts, Tables, Heights
<1>5. \A k \in DOMAIN disk'["tx"] : k \in Txs /\ disk'["tx"][k] \in Heights
  BY <1>2 DEF TypeOK, Puts, HeadPuts, OtherPuts, Tables, Heights
<1>6. \A k \in DOMAIN disk'["addr"] : disk'["addr"][k] \in Heights
  BY <1>2 DEF TypeOK, Puts, HeadPuts, OtherPuts, Tables, Heights
<1>7. \A k \in DOMAIN disk'["receipt"] :
        k \in Txs /\ disk'["receipt"][k] \in [height : Heights, block : Blocks]
  BY <1>2 DEF TypeOK, Puts, HeadPuts, OtherPuts, Tables, Heights
<1>8. DOMAIN disk'["bloom"] \subseteq Heights
  BY <1>2 DEF TypeOK, Puts, HeadPuts, OtherPuts, Tables, Heights
<1>9. DiskHead' \in Blocks \cup {Head0}
  BY <1>2 DEF TypeOK, Puts, HeadPuts, OtherPuts, Tables, DiskHead, Has
<1> QED BY <1>2, <1>3, <1>4, <1>5, <1>6, <1>7, <1>8, <1>9

-----------------------------------------------------------------------------
(* The inductive invariant.                                                *)

HeadToCome == \E i \in DOMAIN writes : writes[i].table = "head"

\* The body of the block being saved is on the disk, or is the next put.
BodyFirst(h) ==
  Has("block", h) \/ (writes[1].table = "block" /\ writes[1].key = h)

PutsInOrder ==
  /\ writes \in Seq(Puts)
  /\ writes # <<>> => saving # NoBlock
  /\ saving # NoBlock =>
       /\ up
       /\ saving.height = height + 1
       /\ DiskHead.height >= saving.height \/ HeadToCome
  /\ \A i \in DOMAIN writes : writes[i].table = "head" =>
       /\ writes[i].value = saving
       /\ BodyFirst(saving.height)
       /\ i = 1 => Has("block", saving.height)

\* At most one height is on the disk and not yet the node's.
HeadNear == up => DiskHead.height <= height + 1

Inv == TypeOK /\ PutsInOrder /\ HeadNear /\ NoGaps /\ NeverAhead

LEMMA HeadsAreNaturals ==
  ASSUME TypeOK
  PROVE  /\ DiskHead.height \in 0..MaxHeight
         /\ height \in 0..MaxHeight
         /\ MaxHeight \in Nat
         /\ \A b \in Blocks : b.height \in 1..MaxHeight /\ b # NoBlock
BY StoreAssumption DEF TypeOK, Head0, Blocks, NoBlock

LEMMA InitInv == Init => Inv
<1> SUFFICES ASSUME Init PROVE Inv
  OBVIOUS
<1>1. DiskHead = Head0
  BY DEF Init, DiskHead, Has, Tables
<1>2. MaxHeight \in Nat /\ MaxCrashes \in Nat /\ MaxFailed \in Nat
  BY StoreAssumption
<1>3. TypeOK
  BY <1>1, <1>2 DEF Init, TypeOK, Tables
<1>4. PutsInOrder /\ HeadNear /\ NoGaps /\ NeverAhead
  BY <1>1 DEF Init, PutsInOrder, HeadNear, NoGaps, NeverAhead, Head0
<1> QED BY <1>3, <1>4 DEF Inv

LEMMA CommitStartsInv ==
  ASSUME Inv, CommitStarts
  PROVE  Inv'
<1>1. PICK b \in Blocks :
        /\ b.height = height + 1
        /\ state' = Append(state, b)
        /\ saving' = b
        /\ \E executed \in Executed(b) :
             writes' = SaveBlock(b) \o SaveReceipts(b, executed)
  BY DEF CommitStarts
<1>2. /\ writes' \in Seq(Puts)
      /\ writes' # <<>>
      /\ writes'[1] = Entry("block", b.height, b)
      /\ \E i \in DOMAIN writes' : writes'[i] = Entry("head", HeadKey, b)
      /\ \A i \in DOMAIN writes' : writes'[i].table = "head" =>
           writes'[i] = Entry("head", HeadKey, b) /\ i # 1
  BY <1>1, PlanOfABlock, ZenonT(40)
<1>3. up /\ UNCHANGED <<disk, up, height, crashes, failed>>
  BY DEF CommitStarts, Idle
<1>4. DiskHead' = DiskHead
  BY <1>3 DEF DiskHead, Has
<1>5. TypeOK'
  BY <1>1, <1>3, <1>4 DEF Inv, TypeOK
<1>6. PutsInOrder'
  <2>1. HeadToCome'
    BY <1>2 DEF HeadToCome, Entry
  <2>2. BodyFirst(saving.height)'
    BY <1>1, <1>2 DEF BodyFirst, Entry
  <2>3. \A i \in DOMAIN writes' : writes'[i].table = "head" =>
           writes'[i].value = saving' /\ i # 1
    BY <1>1, <1>2, SMTT(30) DEF Entry
  <2> QED BY <1>1, <1>2, <1>3, <2>1, <2>2, <2>3, HeadsAreNaturals
          DEF Inv, PutsInOrder
<1>7. HeadNear' /\ NoGaps' /\ NeverAhead'
  BY <1>3, <1>4 DEF Inv, HeadNear, NoGaps, NeverAhead, Has
<1> QED BY <1>5, <1>6, <1>7 DEF Inv

LEMMA PutDoneInv ==
  ASSUME Inv, PutDone
  PROVE  Inv' /\ DiskHead'.height >= DiskHead.height
<1> DEFINE w == Head(writes)
<1>1. /\ writes \in Seq(Puts) /\ writes # <<>> /\ w \in Puts /\ w = writes[1]
      /\ writes' \in Seq(Puts)
      /\ Len(writes) \in Nat \ {0} /\ Len(writes') = Len(writes) - 1
      /\ \A i \in DOMAIN writes' : i + 1 \in DOMAIN writes /\ writes'[i] = writes[i + 1]
  BY DEF Inv, PutsInOrder, PutDone
<1>2. /\ disk' = Stored(disk, w)
      /\ UNCHANGED <<up, height, state, saving, crashes, failed>>
  BY DEF PutDone
<1> HIDE DEF w
<1>3. w.table \in Tables
  BY <1>1 DEF Puts, HeadPuts, OtherPuts, Tables
<1>4. /\ DOMAIN disk' = Tables
      /\ \A t \in Tables : t # w.table => disk'[t] = disk[t]
      /\ DOMAIN disk'[w.table] = DOMAIN disk[w.table] \cup {w.key}
      /\ \A k \in DOMAIN disk'[w.table] :
           disk'[w.table][k] = IF k = w.key THEN w.value ELSE disk[w.table][k]
  BY <1>2, <1>3, PutChangesOneKey DEF Inv, TypeOK
<1>5. TypeOK'
  BY <1>1, <1>2, PutKeepsTypes DEF Inv, TypeOK, Heights
<1>6. \A h \in 1..MaxHeight : Has("block", h) => Has("block", h)'
  BY <1>3, <1>4 DEF Has, Tables
<1>7. saving \in Blocks /\ up /\ saving.height = height + 1
  BY <1>1 DEF Inv, TypeOK, PutsInOrder
<1>8. CASE w.table = "head"
  <2>1. w.key = HeadKey /\ w.value = saving
    <3>1. w.key = HeadKey
      BY <1>1, <1>8 DEF Puts, HeadPuts, OtherPuts
    <3>2. 1 \in DOMAIN writes
      BY <1>1
    <3> QED BY <1>1, <1>8, <3>1, <3>2 DEF Inv, PutsInOrder
  <2>2. DiskHead' = saving
    BY <1>4, <1>8, <2>1 DEF DiskHead, Has
  <2>3. Has("block", saving.height)
    <3>1. 1 \in DOMAIN writes
      BY <1>1
    <3> QED BY <1>1, <1>8, <3>1 DEF Inv, PutsInOrder
  <2>4. DiskHead'.height = height + 1
    BY <1>7, <2>2
  <2>5. NoGaps' /\ NeverAhead' /\ HeadNear'
    <3>1. \A h \in 1..(height + 1) : Has("block", h)
      BY <1>7, <2>3, HeadsAreNaturals DEF Inv, NoGaps, NeverAhead
    <3> QED BY <1>2, <1>6, <1>7, <2>4, <3>1, HeadsAreNaturals
            DEF Inv, NoGaps, NeverAhead, HeadNear, Blocks
  <2>6. PutsInOrder'
    <3>1. DiskHead'.height >= saving'.height
      BY <1>2, <1>7, <2>2, HeadsAreNaturals DEF Inv
    <3>2. Has("block", saving.height)'
      BY <1>2, <1>6, <1>7, <2>3, HeadsAreNaturals DEF Inv, Has
    <3>3. \A i \in DOMAIN writes' : writes'[i].table = "head" =>
             writes'[i].value = saving'
      BY <1>1, <1>2 DEF Inv, PutsInOrder
    <3> QED BY <1>1, <1>2, <1>7, <3>1, <3>2, <3>3, HeadsAreNaturals
            DEF Inv, PutsInOrder, BodyFirst, Has
  <2>7. DiskHead'.height >= DiskHead.height
    BY <1>7, <2>4, HeadsAreNaturals DEF Inv, HeadNear
  <2> QED BY <1>5, <2>5, <2>6, <2>7 DEF Inv
<1>9. CASE w.table # "head"
  <2>1. DiskHead' = DiskHead
    BY <1>3, <1>4, <1>9 DEF DiskHead, Has, Tables
  <2>2. NoGaps' /\ NeverAhead' /\ HeadNear'
    BY <1>2, <1>6, <2>1, HeadsAreNaturals DEF Inv, NoGaps, NeverAhead, HeadNear
  <2>3. HeadToCome => HeadToCome'
    <3> SUFFICES ASSUME NEW i \in DOMAIN writes, writes[i].table = "head"
                 PROVE  HeadToCome'
      BY DEF HeadToCome
    <3>1. i # 1 /\ i \in 1..Len(writes) /\ DOMAIN writes' = 1..Len(writes')
      BY <1>1, <1>9
    <3>2. i - 1 \in DOMAIN writes' /\ writes'[i - 1] = writes[(i - 1) + 1]
      BY <1>1, <3>1
    <3>3. writes'[i - 1].table = "head"
      BY <3>1, <3>2
    <3> QED BY <3>2, <3>3 DEF HeadToCome
  <2>4. ASSUME NEW i \in DOMAIN writes', writes'[i].table = "head"
        PROVE  writes'[i].value = saving' /\ Has("block", saving.height)'
    <3>1. i + 1 \in DOMAIN writes /\ writes[i + 1].table = "head"
      BY <1>1, <2>4
    <3>2. writes[i + 1].value = saving /\ BodyFirst(saving.height)
      BY <3>1 DEF Inv, PutsInOrder
    <3>3. CASE Has("block", saving.height)
      BY <1>1, <1>2, <1>6, <1>7, <2>4, <3>2, <3>3, HeadsAreNaturals DEF Inv
    <3>4. CASE w.table = "block" /\ w.key = saving.height
      BY <1>1, <1>2, <1>4, <2>4, <3>2, <3>4 DEF Has
    <3> QED BY <1>1, <3>2, <3>3, <3>4 DEF BodyFirst
  <2>5. PutsInOrder'
    BY <1>1, <1>2, <1>7, <2>1, <2>3, <2>4, HeadsAreNaturals
       DEF Inv, PutsInOrder, BodyFirst, Has
  <2> QED BY <1>5, <2>1, <2>2, <2>5, HeadsAreNaturals DEF Inv
<1> QED BY <1>8, <1>9

LEMMA PutFailsInv ==
  ASSUME Inv, PutFails
  PROVE  Inv'
<1>1. /\ failed < MaxFailed /\ failed' = failed + 1
      /\ saving' = NoBlock /\ writes' = <<>>
      /\ UNCHANGED <<disk, up, height, state, crashes>>
  BY DEF PutFails
<1>2. DiskHead' = DiskHead
  BY <1>1 DEF DiskHead, Has
<1>3. TypeOK'
  BY <1>1, <1>2, StoreAssumption DEF Inv, TypeOK
<1> QED BY <1>1, <1>2, <1>3
        DEF Inv, PutsInOrder, HeadNear, NoGaps, NeverAhead, Has

LEMMA CommitDoneInv ==
  ASSUME Inv, CommitDone
  PROVE  Inv'
<1>1. /\ saving # NoBlock /\ writes = <<>>
      /\ height' = saving.height /\ saving' = NoBlock
      /\ UNCHANGED <<disk, up, state, writes, crashes, failed>>
  BY DEF CommitDone
<1>2. DiskHead' = DiskHead
  BY <1>1 DEF DiskHead, Has
<1>3. saving \in Blocks /\ saving.height = height + 1 /\ DiskHead.height >= saving.height
  BY <1>1 DEF Inv, TypeOK, PutsInOrder, HeadToCome
<1>4. TypeOK'
  BY <1>1, <1>2, <1>3, HeadsAreNaturals DEF Inv, TypeOK
<1>5. HeadNear' /\ NeverAhead' /\ NoGaps'
  BY <1>1, <1>2, <1>3, HeadsAreNaturals DEF Inv, HeadNear, NoGaps, NeverAhead, Has
<1>6. PutsInOrder'
  BY <1>1 DEF Inv, PutsInOrder
<1> QED BY <1>4, <1>5, <1>6 DEF Inv

LEMMA CrashInv ==
  ASSUME Inv, Crash
  PROVE  Inv'
<1>1. /\ crashes < MaxCrashes /\ crashes' = crashes + 1
      /\ up' = FALSE /\ height' = 0 /\ state' = <<>>
      /\ saving' = NoBlock /\ writes' = <<>>
      /\ UNCHANGED <<disk, failed>>
  BY DEF Crash
<1>2. DiskHead' = DiskHead
  BY <1>1 DEF DiskHead, Has
<1>3. TypeOK'
  <2>1. height' \in 0..MaxHeight /\ crashes' \in 0..MaxCrashes
    BY <1>1, StoreAssumption, HeadsAreNaturals DEF Inv, TypeOK
  <2>2. state' \in Seq(Blocks) /\ saving' \in Blocks \cup {NoBlock}
    BY <1>1
  <2> QED BY <1>1, <1>2, <2>1, <2>2 DEF Inv, TypeOK
<1>4. HeadNear' /\ NeverAhead' /\ NoGaps'
  BY <1>1, <1>2, HeadsAreNaturals DEF Inv, HeadNear, NoGaps, NeverAhead, Has
<1>5. PutsInOrder'
  BY <1>1 DEF PutsInOrder
<1> QED BY <1>3, <1>4, <1>5 DEF Inv

LEMMA RestartInv ==
  ASSUME Inv, Restart
  PROVE  Inv'
<1>1. /\ ~up /\ up' = TRUE /\ height' = DiskHead.height
      /\ UNCHANGED <<disk, state, saving, writes, crashes, failed>>
  BY DEF Restart
<1>2. DiskHead' = DiskHead
  BY <1>1 DEF DiskHead, Has
<1>3. saving = NoBlock /\ writes = <<>>
  BY <1>1 DEF Inv, PutsInOrder
<1>4. TypeOK'
  BY <1>1, <1>2, HeadsAreNaturals DEF Inv, TypeOK
<1>5. HeadNear' /\ NeverAhead' /\ NoGaps'
  BY <1>1, <1>2, HeadsAreNaturals DEF Inv, HeadNear, NoGaps, NeverAhead, Has
<1>6. PutsInOrder'
  BY <1>1, <1>3 DEF Inv, PutsInOrder
<1> QED BY <1>4, <1>5, <1>6 DEF Inv

\* Every step keeps the invariant, and none moves the head back.
LEMMA StepInv ==
  ASSUME Inv, [Next]_vars
  PROVE  Inv' /\ DiskHead'.height >= DiskHead.height
<1>1. CASE PutDone
  BY <1>1, PutDoneInv
<1>2. ASSUME CommitStarts \/ PutFails \/ CommitDone \/ Crash \/ Restart
      PROVE  Inv' /\ DiskHead'.height >= DiskHead.height
  <2>1. Inv'
    BY <1>2, CommitStartsInv, PutFailsInv, CommitDoneInv, CrashInv, RestartInv
  <2>2. UNCHANGED disk
    BY <1>2 DEF CommitStarts, PutFails, CommitDone, Crash, Restart
  <2>3. DiskHead' = DiskHead
    BY <2>2 DEF DiskHead, Has
  <2> QED BY <2>1, <2>3, HeadsAreNaturals DEF Inv
<1>3. CASE UNCHANGED vars
  <2>1. DiskHead' = DiskHead
    BY <1>3 DEF vars, memory, DiskHead, Has
  <2>2. Inv'
    BY <1>3, <2>1 DEF vars, memory, Inv, TypeOK, PutsInOrder, HeadToCome, BodyFirst,
                      HeadNear, NoGaps, NeverAhead, Has
  <2> QED BY <2>1, <2>2, HeadsAreNaturals DEF Inv
<1> QED BY <1>1, <1>2, <1>3 DEF Next

LEMMA Invariant == Spec => []Inv
<1>1. Inv /\ [Next]_vars => Inv'
  BY StepInv
<1> QED BY <1>1, InitInv, PTL DEF Spec

-----------------------------------------------------------------------------
(* The theorems.                                                           *)

\* Every variable keeps its type, for any transactions, payloads and bounds:
\* what block_store.ts writes under a key is what it reads from it.
THEOREM StoreTypeCorrect == Spec => []TypeOK
BY Invariant, PTL DEF Inv

\* The disk has a block at every height up to its head, whatever crashes and
\* failed puts have interrupted (block_store.ts:20 before 41).
THEOREM ChainWithoutGaps == Spec => []NoGaps
BY Invariant, PTL DEF Inv

\* What the node takes for its height is on the disk (bft.ts:840 before 846).
THEOREM NodeNeverAhead == Spec => []NeverAhead
BY Invariant, PTL DEF Inv

\* No put, failure, crash or restart moves the head on the disk back
\* (bft.ts:707, 793 and 124).
THEOREM HeadNeverBack == Spec => HeadGrows
<1>1. Inv /\ [Next]_vars => [DiskHead'.height >= DiskHead.height]_vars
  BY StepInv
<1> QED BY <1>1, Invariant, PTL DEF Spec, HeadGrows

-----------------------------------------------------------------------------
(* The puts of a block, again.                                             *)

Late == {"receipt", "bloom"}

\* An entry that a block may have.
Fits(e, b) ==
  /\ e.table = "block" => e.key = b.height /\ e.value = b
  /\ e.table = "hash" => e.key = b /\ e.value = b.height
  /\ e.table \in {"tx", "addr"} => e.value = b.height
  /\ e.table = "receipt" =>
       /\ e.value = [height |-> b.height, block |-> b]
       /\ \E i \in DOMAIN b.txs : b.txs[i] = e.key
  /\ e.table = "bloom" => e.key = b.height

\* The entries that a block must have when it is the head.
Indexes(b) ==
  {Entry("block", b.height, b), Entry("hash", b, b.height)}
  \cup {Entry("tx", b.txs[i], b.height) : i \in DOMAIN b.txs}
  \cup {Entry("addr", <<From(b.txs[i]), b.txs[i]>>, b.height) : i \in DOMAIN b.txs}
  \cup {Entry("addr", <<To(b.txs[i]), b.txs[i]>>, b.height) : i \in DOMAIN b.txs}

\* The puts are in order: what comes after the head is late, and stays so.
InOrder(s) ==
  \A i, j \in DOMAIN s : i < j /\ s[i].table \in Late \cup {"head"} => s[j].table \in Late

\* Three places for each transaction.
LEMMA Thirds ==
  \A i \in Nat \ {0} :
    /\ (3 * i - 2 + 2) \div 3 = i /\ (3 * i - 2) % 3 = 1
    /\ (3 * i - 1 + 2) \div 3 = i /\ (3 * i - 1) % 3 = 2
    /\ (3 * i + 2) \div 3 = i /\ (3 * i) % 3 = 0
<1> SUFFICES ASSUME NEW i \in Nat \ {0}
             PROVE  /\ (3 * i - 2 + 2) \div 3 = i /\ (3 * i - 2) % 3 = 1
                    /\ (3 * i - 1 + 2) \div 3 = i /\ (3 * i - 1) % 3 = 2
                    /\ (3 * i + 2) \div 3 = i /\ (3 * i) % 3 = 0
  OBVIOUS
<1>1. (3 * i - 2 + 2) \div 3 = i
  OBVIOUS
<1>2. (3 * i - 1 + 2) \div 3 = i
  OBVIOUS
<1>3. (3 * i + 2) \div 3 = i
  OBVIOUS
<1>4. (3 * i - 2) % 3 = 1
  OBVIOUS
<1>5. (3 * i - 1) % 3 = 2
  OBVIOUS
<1>6. (3 * i) % 3 = 0
  OBVIOUS
<1> QED
  BY <1>1, <1>2, <1>3, <1>4, <1>5, <1>6

\* The index entries of the transactions are there, and nothing else.
LEMMA TxEntriesComplete ==
  ASSUME NEW b \in Blocks
  PROVE  LET s == TxEntries(b)
         IN  /\ s \in Seq(OtherPuts) /\ Len(s) = 3 * Len(b.txs)
             /\ \A i \in DOMAIN s : Fits(s[i], b) /\ s[i].table \in {"tx", "addr"}
             /\ \A i \in DOMAIN b.txs :
                  /\ s[3 * i - 2] = Entry("tx", b.txs[i], b.height)
                  /\ s[3 * i - 1] = Entry("addr", <<From(b.txs[i]), b.txs[i]>>, b.height)
                  /\ s[3 * i] = Entry("addr", <<To(b.txs[i]), b.txs[i]>>, b.height)
                  /\ {3 * i - 2, 3 * i - 1, 3 * i} \subseteq DOMAIN s
<1> DEFINE Put(i) ==
      LET tx == b.txs[(i + 2) \div 3]
      IN  CASE i % 3 = 1 -> Entry("tx", tx, b.height)
            [] i % 3 = 2 -> Entry("addr", <<From(tx), tx>>, b.height)
            [] OTHER     -> Entry("addr", <<To(tx), tx>>, b.height)
           s == TxEntries(b)
<1>1. Len(b.txs) \in Nat /\ DOMAIN b.txs = 1..Len(b.txs)
  BY StoreAssumption DEF Blocks
<1>2. s = [i \in 1..(3 * Len(b.txs)) |-> Put(i)]
  BY DEF TxEntries
<1>3. s \in Seq(OtherPuts)
  BY TxEntriesArePuts
<1>4. DOMAIN s = 1..(3 * Len(b.txs)) /\ 3 * Len(b.txs) \in Nat
  BY <1>1, <1>2
<1>5. Len(s) = 3 * Len(b.txs)
  BY <1>3, <1>4
<1>6. ASSUME NEW i \in DOMAIN s
      PROVE  Fits(s[i], b) /\ s[i].table \in {"tx", "addr"}
  <2>1. s[i] = Put(i)
    BY <1>2, <1>4
  <2>2. Put(i).table \in {"tx", "addr"} /\ Put(i).value = b.height
    BY DEF Entry
  <2> HIDE DEF Put
  <2> QED
    BY <2>1, <2>2 DEF Fits
<1>7. ASSUME NEW i \in DOMAIN b.txs
      PROVE  /\ s[3 * i - 2] = Entry("tx", b.txs[i], b.height)
             /\ s[3 * i - 1] = Entry("addr", <<From(b.txs[i]), b.txs[i]>>, b.height)
             /\ s[3 * i] = Entry("addr", <<To(b.txs[i]), b.txs[i]>>, b.height)
             /\ {3 * i - 2, 3 * i - 1, 3 * i} \subseteq DOMAIN s
  <2>0. i \in Nat \ {0} /\ {3 * i - 2, 3 * i - 1, 3 * i} \subseteq DOMAIN s
    BY <1>1, <1>4
  <2>1. /\ (3 * i - 2 + 2) \div 3 = i /\ (3 * i - 2) % 3 = 1
        /\ (3 * i - 1 + 2) \div 3 = i /\ (3 * i - 1) % 3 = 2
        /\ (3 * i + 2) \div 3 = i /\ (3 * i) % 3 = 0
    BY <2>0, Thirds
  <2>2. /\ Put(3 * i - 2) = Entry("tx", b.txs[i], b.height)
        /\ Put(3 * i - 1) = Entry("addr", <<From(b.txs[i]), b.txs[i]>>, b.height)
        /\ Put(3 * i) = Entry("addr", <<To(b.txs[i]), b.txs[i]>>, b.height)
    BY <2>1
  <2> HIDE DEF Put
  <2> QED
    BY <1>2, <1>4, <2>0, <2>2
<1> QED
  BY <1>3, <1>5, <1>6, <1>7

\* The receipts are of transactions of the block.
LEMMA ReceiptsFit ==
  ASSUME NEW b \in Blocks, NEW executed \in Executed(b)
  PROVE  LET s == SaveReceipts(b, executed)
         IN  /\ s \in Seq(OtherPuts) /\ Len(s) >= 1
             /\ \A i \in DOMAIN s : Fits(s[i], b) /\ s[i].table \in Late
             /\ s[Len(s)] = Entry("bloom", b.height, b)
<1> DEFINE first == [i \in DOMAIN executed |->
                       Entry("receipt", executed[i], [height |-> b.height, block |-> b])]
           last  == <<Entry("bloom", b.height, b)>>
           s     == SaveReceipts(b, executed)
<1>1. b.txs \in Seq(Txs) /\ b.height \in Heights
  BY StoreAssumption DEF Blocks, Heights
<1>2. executed \in Seq(Txs) /\ \A i \in DOMAIN executed :
                                  \E k \in DOMAIN b.txs : b.txs[k] = executed[i]
  BY <1>1 DEF Executed
<1>3. first \in Seq(OtherPuts) /\ DOMAIN first = DOMAIN executed
  <2>1. \A i \in 1..Len(executed) :
           Entry("receipt", executed[i], [height |-> b.height, block |-> b]) \in OtherPuts
    BY <1>1, <1>2 DEF Entry, OtherPuts
  <2> QED
    BY <1>2, <2>1
<1>4. last \in Seq(OtherPuts) /\ Len(last) = 1 /\ last[1] = Entry("bloom", b.height, b)
  BY <1>1 DEF Entry, OtherPuts
<1>5. s = first \o last
  BY DEF SaveReceipts
<1>6. \A i \in DOMAIN first : Fits(first[i], b) /\ first[i].table \in Late
  BY <1>2 DEF Fits, Entry, Late
<1>7. Fits(last[1], b) /\ last[1].table \in Late
  BY DEF Fits, Entry, Late
<1> HIDE DEF first, last
<1>8. /\ s \in Seq(OtherPuts) /\ Len(s) = Len(first) + 1
      /\ \A i \in DOMAIN s : s[i] = IF i <= Len(first) THEN first[i] ELSE last[1]
  <2>1. /\ s \in Seq(OtherPuts) /\ Len(s) = Len(first) + Len(last)
        /\ \A i \in 1..Len(s) :
             s[i] = IF i <= Len(first) THEN first[i] ELSE last[i - Len(first)]
    <3> HIDE DEF OtherPuts
    <3> QED
      BY <1>3, <1>4, <1>5, ConcatProperties
  <2>2. \A i \in 1..Len(s) : i > Len(first) => i - Len(first) = 1
    BY <1>3, <1>4, <2>1
  <2> QED
    BY <1>3, <1>4, <2>1, <2>2
<1>9. Len(first) \in Nat
  BY <1>3
<1> HIDE DEF s
<1>10. \A i \in DOMAIN s : i <= Len(first) => i \in DOMAIN first
  BY <1>3, <1>8, <1>9
<1>11. Len(s) \in DOMAIN s /\ s[Len(s)] = last[1]
  BY <1>8, <1>9
<1> QED
  BY <1>4, <1>6, <1>7, <1>8, <1>9, <1>10, <1>11 DEF s

\* All of them together.
LEMMA PlanParts ==
  ASSUME NEW b \in Blocks, NEW executed \in Executed(b)
  PROVE  LET plan == SaveBlock(b) \o SaveReceipts(b, executed)
         IN  /\ plan \in Seq(Puts) /\ plan # <<>>
             /\ \A i \in DOMAIN plan : Fits(plan[i], b)
             /\ \A e \in Indexes(b) : \E i \in DOMAIN plan : plan[i] = e
             /\ \E i \in DOMAIN plan : plan[i].table = "head"
             /\ InOrder(plan)
             /\ plan[Len(plan)].table = "bloom"
<1> DEFINE first == <<Entry("block", b.height, b), Entry("hash", b, b.height)>>
           mid   == TxEntries(b)
           head  == <<Entry("head", HeadKey, b)>>
           rest  == SaveReceipts(b, executed)
           plan  == ((first \o mid) \o head) \o rest
           m     == 2 + Len(mid)
<1>1. SaveBlock(b) \o rest = plan
  BY DEF SaveBlock
<1>2. /\ first \in Seq(OtherPuts) /\ Len(first) = 2
      /\ first[1] = Entry("block", b.height, b) /\ first[2] = Entry("hash", b, b.height)
  BY StoreAssumption DEF Blocks, Heights, Entry, OtherPuts
<1>3. mid \in Seq(OtherPuts)
  BY TxEntriesComplete
<1>4. head \in Seq(HeadPuts) /\ Len(head) = 1 /\ head[1] = Entry("head", HeadKey, b)
  BY DEF Entry, HeadPuts
<1>5. rest \in Seq(OtherPuts) /\ Len(rest) >= 1 /\ rest[Len(rest)].table = "bloom"
  <2>1. /\ rest \in Seq(OtherPuts) /\ Len(rest) >= 1
        /\ rest[Len(rest)] = Entry("bloom", b.height, b)
    BY ReceiptsFit
  <2> HIDE DEF rest
  <2> QED
    BY <2>1 DEF Entry
<1>6. /\ \A i \in DOMAIN mid : Fits(mid[i], b) /\ mid[i].table \in {"tx", "addr"}
      /\ \A i \in DOMAIN rest : Fits(rest[i], b) /\ rest[i].table \in Late
  BY TxEntriesComplete, ReceiptsFit
<1>7. \A i \in DOMAIN b.txs :
        /\ \E k \in DOMAIN mid : mid[k] = Entry("tx", b.txs[i], b.height)
        /\ \E k \in DOMAIN mid :
             mid[k] = Entry("addr", <<From(b.txs[i]), b.txs[i]>>, b.height)
        /\ \E k \in DOMAIN mid :
             mid[k] = Entry("addr", <<To(b.txs[i]), b.txs[i]>>, b.height)
  BY TxEntriesComplete
<1> HIDE DEF first, mid, head, rest
<1>8. /\ first \in Seq(Puts) /\ mid \in Seq(Puts) /\ head \in Seq(Puts) /\ rest \in Seq(Puts)
  <2>1. OtherPuts \subseteq Puts /\ HeadPuts \subseteq Puts
    BY DEF Puts
  <2> HIDE DEF OtherPuts, HeadPuts, Puts
  <2> QED
    BY <1>2, <1>3, <1>4, <1>5, <2>1, SeqMonotonic
<1>9. /\ m \in Nat /\ Len(rest) \in Nat /\ Len(rest) >= 1
      /\ plan \in Seq(Puts) /\ Len(plan) = m + 1 + Len(rest)
      /\ DOMAIN plan = 1..(m + 1 + Len(rest))
      /\ \A i \in DOMAIN plan :
           plan[i] = IF i <= 2 THEN first[i]
                     ELSE IF i <= m THEN mid[i - 2]
                     ELSE IF i = m + 1 THEN head[1]
                     ELSE rest[i - (m + 1)]
  <2> DEFINE x == first \o mid
             y == x \o head
  <2> HIDE DEF Puts
  <2>1. m \in Nat /\ Len(rest) \in Nat
    BY <1>3, <1>5
  <2>2. /\ x \in Seq(Puts) /\ Len(x) = Len(first) + Len(mid)
        /\ \A i \in 1..Len(first) + Len(mid) :
             x[i] = IF i <= Len(first) THEN first[i] ELSE mid[i - Len(first)]
    BY <1>8, ConcatProperties
  <2> HIDE DEF x
  <2>3. /\ y \in Seq(Puts) /\ Len(y) = Len(x) + Len(head)
        /\ \A i \in 1..Len(x) + Len(head) :
             y[i] = IF i <= Len(x) THEN x[i] ELSE head[i - Len(x)]
    <3>1. x \in Seq(Puts)
      BY <2>2
    <3> QED
      BY <1>8, <3>1, ConcatProperties, Zenon
  <2>4. plan = y \o rest
    BY DEF x
  <2> HIDE DEF y
  <2>5. /\ y \o rest \in Seq(Puts) /\ Len(y \o rest) = Len(y) + Len(rest)
        /\ \A i \in 1..Len(y) + Len(rest) :
             (y \o rest)[i] = IF i <= Len(y) THEN y[i] ELSE rest[i - Len(y)]
    <3>1. y \in Seq(Puts)
      BY <2>3
    <3> QED
      BY <1>8, <3>1, ConcatProperties, Zenon
  <2> HIDE DEF plan
  <2>6. /\ plan \in Seq(Puts) /\ Len(plan) = Len(y) + Len(rest)
        /\ \A i \in 1..Len(y) + Len(rest) :
             plan[i] = IF i <= Len(y) THEN y[i] ELSE rest[i - Len(y)]
    BY <2>4, <2>5, Zenon
  <2>7. Len(x) = m /\ Len(y) = m + 1 /\ Len(plan) = m + 1 + Len(rest)
    BY <1>2, <1>4, <2>1, <2>2, <2>3, <2>6
  <2>8. DOMAIN plan = 1..(m + 1 + Len(rest))
    BY <2>6, <2>7
  <2> HIDE DEF m
  <2>9. ASSUME NEW i \in DOMAIN plan
        PROVE  plan[i] = IF i <= 2 THEN first[i]
                         ELSE IF i <= m THEN mid[i - 2]
                         ELSE IF i = m + 1 THEN head[1]
                         ELSE rest[i - (m + 1)]
    <3>1. CASE i <= m
      <4>1. plan[i] = y[i]
        BY <2>1, <2>6, <2>7, <2>8, <3>1
      <4>2. y[i] = x[i]
        BY <2>1, <2>3, <2>7, <2>8, <1>4, <3>1
      <4>3. x[i] = IF i <= 2 THEN first[i] ELSE mid[i - 2]
        BY <1>2, <2>1, <2>2, <2>7, <2>8, <3>1
      <4> QED
        BY <2>1, <2>8, <3>1, <4>1, <4>2, <4>3
    <3>2. CASE i = m + 1
      <4>1. y[i] = head[i - m] /\ i - m = 1
        BY <1>4, <2>1, <2>3, <2>7, <3>2
      <4> QED
        BY <1>3, <2>1, <2>6, <2>7, <2>8, <3>2, <4>1 DEF m
    <3>3. CASE i > m + 1
      BY <1>3, <2>1, <2>6, <2>7, <2>8, <3>3 DEF m
    <3> QED
      BY <2>1, <2>8, <3>1, <3>2, <3>3
  <2> QED
    BY <1>5, <2>1, <2>6, <2>7, <2>8, <2>9
<1> HIDE DEF plan
<1>10. m >= 2 /\ DOMAIN mid = 1..(m - 2) /\ DOMAIN rest = 1..Len(rest)
  BY <1>3, <1>5
<1> HIDE DEF m
<1>11. \A i \in DOMAIN plan :
        \/ i = 1 /\ plan[i] = first[1] /\ i <= m
        \/ i = 2 /\ plan[i] = first[2] /\ i <= m
        \/ \E k \in DOMAIN mid : plan[i] = mid[k] /\ i <= m
        \/ i = m + 1 /\ plan[i] = head[1]
        \/ \E k \in DOMAIN rest : plan[i] = rest[k] /\ i > m + 1
  <2> SUFFICES ASSUME NEW i \in DOMAIN plan
               PROVE  \/ i = 1 /\ plan[i] = first[1] /\ i <= m
                      \/ i = 2 /\ plan[i] = first[2] /\ i <= m
                      \/ \E k \in DOMAIN mid : plan[i] = mid[k] /\ i <= m
                      \/ i = m + 1 /\ plan[i] = head[1]
                      \/ \E k \in DOMAIN rest : plan[i] = rest[k] /\ i > m + 1
    OBVIOUS
  <2>1. CASE i <= 2
    BY <1>9, <1>10, <2>1
  <2>2. CASE i > 2 /\ i <= m
    <3>1. i - 2 \in DOMAIN mid /\ plan[i] = mid[i - 2]
      BY <1>9, <1>10, <2>2
    <3> QED
      BY <2>2, <3>1
  <2>3. CASE i = m + 1
    BY <1>9, <1>10, <2>3
  <2>4. CASE i > m + 1
    <3>1. i - (m + 1) \in DOMAIN rest /\ plan[i] = rest[i - (m + 1)]
      BY <1>9, <1>10, <2>4
    <3> QED
      BY <2>4, <3>1
  <2> QED
    BY <1>9, <1>10, <2>1, <2>2, <2>3, <2>4
<1>12. /\ 1 \in DOMAIN plan /\ plan[1] = first[1]
       /\ 2 \in DOMAIN plan /\ plan[2] = first[2]
       /\ m + 1 \in DOMAIN plan /\ plan[m + 1] = head[1]
       /\ \A k \in DOMAIN mid : k + 2 \in DOMAIN plan /\ plan[k + 2] = mid[k]
       /\ plan[Len(plan)] = rest[Len(rest)] /\ plan # <<>>
  <2>1. /\ 1 \in DOMAIN plan /\ 2 \in DOMAIN plan /\ m + 1 \in DOMAIN plan
        /\ Len(plan) \in DOMAIN plan
    BY <1>9, <1>10
  <2>2. plan[1] = first[1] /\ plan[2] = first[2] /\ plan[m + 1] = head[1]
    BY <1>9, <1>10, <2>1
  <2>3. plan[Len(plan)] = rest[Len(rest)]
    BY <1>9, <1>10, <2>1
  <2>4. ASSUME NEW k \in DOMAIN mid
        PROVE  k + 2 \in DOMAIN plan /\ plan[k + 2] = mid[k]
    <3>1. k + 2 \in DOMAIN plan /\ k + 2 > 2 /\ k + 2 <= m /\ (k + 2) - 2 = k
      BY <1>9, <1>10
    <3> QED
      BY <1>9, <3>1
  <2> QED
    BY <2>1, <2>2, <2>3, <2>4
<1>13. /\ first[1].table = "block" /\ first[2].table = "hash" /\ head[1].table = "head"
       /\ Fits(first[1], b) /\ Fits(first[2], b) /\ Fits(head[1], b)
  BY <1>2, <1>4 DEF Entry, Fits
<1>14. \A i \in DOMAIN plan : Fits(plan[i], b)
  BY <1>6, <1>11, <1>13
<1>15. InOrder(plan)
  <2>1. \A i \in DOMAIN plan :
          /\ plan[i].table \in Late => i > m + 1
          /\ i > m + 1 => plan[i].table \in Late
          /\ plan[i].table = "head" => i = m + 1
    <3> SUFFICES ASSUME NEW i \in DOMAIN plan
                 PROVE  /\ plan[i].table \in Late => i > m + 1
                        /\ i > m + 1 => plan[i].table \in Late
                        /\ plan[i].table = "head" => i = m + 1
      OBVIOUS
    <3>1. i \in Nat /\ m \in Nat
      BY <1>9
    <3> QED
      BY <1>6, <1>11, <1>13, <3>1 DEF Late
  <2>2. \A i \in DOMAIN plan : i \in Nat
    BY <1>9
  <2> QED
    BY <1>9, <2>1, <2>2 DEF InOrder
<1>16. \A e \in Indexes(b) : \E i \in DOMAIN plan : plan[i] = e
  <2>1. \A k \in DOMAIN mid : \E i \in DOMAIN plan : plan[i] = mid[k]
    BY <1>12
  <2>2. ASSUME NEW i \in DOMAIN b.txs
        PROVE  /\ \E k \in DOMAIN plan : plan[k] = Entry("tx", b.txs[i], b.height)
               /\ \E k \in DOMAIN plan :
                    plan[k] = Entry("addr", <<From(b.txs[i]), b.txs[i]>>, b.height)
               /\ \E k \in DOMAIN plan :
                    plan[k] = Entry("addr", <<To(b.txs[i]), b.txs[i]>>, b.height)
    BY <1>7, <2>1, Zenon
  <2> SUFFICES ASSUME NEW e \in Indexes(b)
               PROVE  \E i \in DOMAIN plan : plan[i] = e
    OBVIOUS
  <2>3. \/ e \in {Entry("block", b.height, b), Entry("hash", b, b.height)}
        \/ \E i \in DOMAIN b.txs :
             \/ e = Entry("tx", b.txs[i], b.height)
             \/ e = Entry("addr", <<From(b.txs[i]), b.txs[i]>>, b.height)
             \/ e = Entry("addr", <<To(b.txs[i]), b.txs[i]>>, b.height)
    BY Zenon DEF Indexes
  <2>4. CASE e \in {Entry("block", b.height, b), Entry("hash", b, b.height)}
    BY <1>2, <1>12, <2>4, Zenon
  <2> QED
    BY <2>2, <2>3, <2>4, Zenon
<1>17. \E i \in DOMAIN plan : plan[i].table = "head"
  BY <1>12, <1>13
<1> QED
  BY <1>1, <1>5, <1>9, <1>12, <1>14, <1>15, <1>16, <1>17 DEF rest

-----------------------------------------------------------------------------
(* The inductive invariant, on top of Inv.                                 *)

OnDisk(e) == Has(e.table, e.key) /\ disk[e.table][e.key] = e.value

\* What is still to be written is of the block being saved, in order, up to its
\* bloom; what its indexes need is on the disk or comes; and only receipts and
\* the bloom come after the head.
SavingInOrder ==
  saving # NoBlock =>
    /\ \A i \in DOMAIN writes : Fits(writes[i], saving)
    /\ InOrder(writes)
    /\ writes # <<>> => writes[Len(writes)].table = "bloom"
    /\ HeadToCome \/ \A i \in DOMAIN writes : writes[i].table \in Late
    /\ \A e \in Indexes(saving) : OnDisk(e) \/ \E i \in DOMAIN writes : writes[i] = e

\* What a table has is of the height that its key says, or of the next one at
\* most.
Keyed ==
  /\ \A h \in DOMAIN disk["block"] : disk["block"][h].height = h
  /\ \A b \in DOMAIN disk["hash"] : disk["hash"][b] = b.height
  /\ \A k \in DOMAIN disk["tx"] : disk["tx"][k] <= DiskHead.height + 1
  /\ \A k \in DOMAIN disk["addr"] : disk["addr"][k] <= DiskHead.height + 1

\* Unless a put has failed, a head on the disk is the node's own, or the one of
\* the block that it is saving.
HeadIsOwn ==
  failed = 0 /\ up =>
    IF saving # NoBlock /\ ~HeadToCome THEN DiskHead = saving
                                       ELSE DiskHead.height = height

\* The heights without a bloom, but for one that it is on its way to.
Missing == {h \in 1..DiskHead.height : ~Has("bloom", h)}
OnItsWay == IF saving # NoBlock /\ writes # <<>> THEN {saving.height} ELSE {}
FewMissing == Cardinality(Missing \ OnItsWay) <= crashes + failed

ReadInv ==
  Inv /\ SavingInOrder /\ Keyed /\ HeadIsOwn /\ HeadServed /\ ReceiptNamesBlock /\ FewMissing

\* An index entry fixes the value that a put of the block has for its key.
LEMMA IndexValues ==
  ASSUME NEW b \in Blocks, NEW e \in Indexes(b)
  PROVE  /\ e.table \in {"block", "hash", "tx", "addr"}
         /\ \A w : Fits(w, b) /\ w.table = e.table /\ w.key = e.key => w.value = e.value
<1>1. \/ e = Entry("block", b.height, b)
      \/ e = Entry("hash", b, b.height)
      \/ e.table \in {"tx", "addr"} /\ e.value = b.height
  BY DEF Indexes, Entry
<1> QED
  BY <1>1 DEF Fits, Entry

LEMMA InitRead == Init => ReadInv
<1> SUFFICES ASSUME Init PROVE ReadInv
  OBVIOUS
<1>1. DiskHead = Head0
  BY DEF Init, DiskHead, Has, Tables
<1>2. /\ saving = NoBlock /\ height = 0 /\ failed = 0 /\ crashes = 0
      /\ \A t \in Tables : DOMAIN disk[t] = {}
  BY DEF Init
<1>3. SavingInOrder /\ HeadIsOwn /\ HeadServed
  BY <1>1, <1>2 DEF SavingInOrder, HeadIsOwn, HeadServed, Head0
<1>4. Keyed /\ ReceiptNamesBlock
  BY <1>2 DEF Keyed, ReceiptNamesBlock, Tables
<1>5. FewMissing
  <2>1. Missing \ OnItsWay = {}
    BY <1>1 DEF Missing, Head0
  <2> QED
    BY <1>2, <2>1, FS_EmptySet DEF FewMissing
<1> QED
  BY <1>3, <1>4, <1>5, InitInv DEF ReadInv

\* What is read of the disk stays as long as nothing is put.
LEMMA DiskUnchanged ==
  ASSUME ReadInv, UNCHANGED disk, failed' = 0 => failed = 0
  PROVE  /\ DiskHead' = DiskHead /\ Missing' = Missing
         /\ Keyed' /\ HeadServed' /\ ReceiptNamesBlock'
<1>1. DiskHead' = DiskHead
  BY DEF DiskHead, Has
<1>2. Keyed'
  BY <1>1 DEF ReadInv, Keyed
<1>3. HeadServed'
  BY <1>1 DEF ReadInv, HeadServed, Has, Located
<1>4. ReceiptNamesBlock'
  BY <1>1 DEF ReadInv, ReceiptNamesBlock
<1>5. Missing' = Missing
  BY <1>1 DEF Missing, Has
<1> QED
  BY <1>1, <1>2, <1>3, <1>4, <1>5

\* The missing ones can be counted.
LEMMA Countable ==
  ASSUME Inv
  PROVE  /\ IsFiniteSet(Missing)
         /\ \A S : IsFiniteSet(Missing \ S) /\ Cardinality(Missing \ S) \in Nat
         /\ \A S : Cardinality(Missing \ S) <= Cardinality(Missing)
         /\ Cardinality(Missing) \in Nat
         /\ crashes \in Nat /\ failed \in Nat
<1>1. DiskHead.height \in Int
  BY HeadsAreNaturals DEF Inv
<1>2. IsFiniteSet(1..DiskHead.height)
  BY <1>1, FS_Interval
<1>3. IsFiniteSet(Missing)
  <2>1. Missing \in SUBSET (1..DiskHead.height)
    BY DEF Missing
  <2> QED
    BY <1>2, <2>1, FS_Subset
<1>4. \A S : Missing \ S \in SUBSET Missing
  OBVIOUS
<1>5. \A S : IsFiniteSet(Missing \ S) /\ Cardinality(Missing \ S) <= Cardinality(Missing)
  BY <1>3, <1>4, FS_Subset
<1>6. crashes \in Nat /\ failed \in Nat
  BY StoreAssumption DEF Inv, TypeOK
<1> QED
  BY <1>3, <1>5, <1>6, FS_CardinalityType

LEMMA OneOnItsWay ==
  ASSUME Inv
  PROVE  Cardinality(Missing) <= Cardinality(Missing \ OnItsWay) + 1
<1>1. IsFiniteSet(Missing) /\ Cardinality(Missing) \in Nat
  BY Countable
<1>2. CASE OnItsWay = {saving.height}
  <2>1. Cardinality(Missing \ {saving.height}) =
          IF saving.height \in Missing THEN Cardinality(Missing) - 1 ELSE Cardinality(Missing)
    BY <1>1, FS_RemoveElement
  <2> QED
    BY <1>1, <1>2, <2>1
<1>3. CASE OnItsWay = {}
  <2>1. Missing \ OnItsWay = Missing
    BY <1>3
  <2> QED
    BY <1>1, <2>1
<1> QED
  BY <1>2, <1>3 DEF OnItsWay

LEMMA CommitStartsRead ==
  ASSUME ReadInv, CommitStarts
  PROVE  ReadInv'
<1>1. PICK b \in Blocks :
        /\ b.height = height + 1
        /\ saving' = b
        /\ \E executed \in Executed(b) :
             writes' = SaveBlock(b) \o SaveReceipts(b, executed)
  BY DEF CommitStarts
<1>2. /\ writes' # <<>>
      /\ \A i \in DOMAIN writes' : Fits(writes'[i], b)
      /\ \A e \in Indexes(b) : \E i \in DOMAIN writes' : writes'[i] = e
      /\ \E i \in DOMAIN writes' : writes'[i].table = "head"
      /\ InOrder(writes')
      /\ writes'[Len(writes')].table = "bloom"
  <2>1. PICK executed \in Executed(b) : writes' = SaveBlock(b) \o SaveReceipts(b, executed)
    BY <1>1
  <2> DEFINE plan == SaveBlock(b) \o SaveReceipts(b, executed)
  <2>2. /\ plan # <<>>
        /\ \A i \in DOMAIN plan : Fits(plan[i], b)
        /\ \A e \in Indexes(b) : \E i \in DOMAIN plan : plan[i] = e
        /\ \E i \in DOMAIN plan : plan[i].table = "head"
        /\ InOrder(plan)
        /\ plan[Len(plan)].table = "bloom"
    BY PlanParts, Zenon
  <2>3. writes' = plan
    BY <2>1
  <2> HIDE DEF plan
  <2> QED
    BY <2>2, <2>3
<1>3. up /\ saving = NoBlock /\ UNCHANGED <<disk, up, height, crashes, failed>>
  BY DEF CommitStarts, Idle
<1>4. /\ DiskHead' = DiskHead /\ Missing' = Missing
      /\ Keyed' /\ HeadServed' /\ ReceiptNamesBlock'
  BY <1>3, DiskUnchanged
<1>5. Inv'
  BY CommitStartsInv DEF ReadInv
<1>6. HeadToCome'
  BY <1>2 DEF HeadToCome
<1>7. SavingInOrder'
  BY <1>1, <1>2, <1>6 DEF SavingInOrder
<1>8. HeadIsOwn'
  BY <1>3, <1>4, <1>6 DEF ReadInv, HeadIsOwn
<1>9. FewMissing'
  <2>1. OnItsWay = {} /\ Missing \ {} = Missing
    BY <1>3 DEF OnItsWay
  <2>2. Cardinality(Missing) <= crashes + failed
    BY <2>1 DEF ReadInv, FewMissing
  <2>3. /\ Cardinality(Missing \ OnItsWay') <= Cardinality(Missing)
        /\ Cardinality(Missing \ OnItsWay') \in Nat
        /\ Cardinality(Missing) \in Nat /\ crashes \in Nat /\ failed \in Nat
    BY Countable DEF ReadInv
  <2> QED
    BY <1>3, <1>4, <2>2, <2>3 DEF FewMissing
<1> QED
  BY <1>4, <1>5, <1>7, <1>8, <1>9 DEF ReadInv

LEMMA PutFailsRead ==
  ASSUME ReadInv, PutFails
  PROVE  ReadInv'
<1>1. /\ failed' = failed + 1
      /\ saving' = NoBlock /\ writes' = <<>>
      /\ UNCHANGED <<disk, up, height, state, crashes>>
  BY DEF PutFails
<1>2. failed \in Nat /\ failed' # 0
  BY <1>1, Countable DEF ReadInv
<1>3. /\ DiskHead' = DiskHead /\ Missing' = Missing
      /\ Keyed' /\ HeadServed' /\ ReceiptNamesBlock'
  BY <1>1, <1>2, DiskUnchanged
<1>4. Inv'
  BY PutFailsInv DEF ReadInv
<1>5. SavingInOrder' /\ HeadIsOwn'
  BY <1>1, <1>2 DEF SavingInOrder, HeadIsOwn
<1>6. FewMissing'
  <2>1. OnItsWay' = {} /\ Missing \ {} = Missing
    BY <1>1 DEF OnItsWay
  <2>2. Cardinality(Missing) <= Cardinality(Missing \ OnItsWay) + 1
    BY OneOnItsWay DEF ReadInv
  <2>3. /\ Cardinality(Missing \ OnItsWay) \in Nat
        /\ Cardinality(Missing) \in Nat /\ crashes \in Nat /\ failed \in Nat
    BY Countable DEF ReadInv
  <2> QED
    BY <1>1, <1>3, <2>1, <2>2, <2>3 DEF ReadInv, FewMissing
<1> QED
  BY <1>3, <1>4, <1>5, <1>6 DEF ReadInv

LEMMA CommitDoneRead ==
  ASSUME ReadInv, CommitDone
  PROVE  ReadInv'
<1>1. /\ up /\ saving # NoBlock /\ writes = <<>>
      /\ height' = saving.height /\ saving' = NoBlock
      /\ UNCHANGED <<disk, up, state, writes, crashes, failed>>
  BY DEF CommitDone
<1>2. /\ DiskHead' = DiskHead /\ Missing' = Missing
      /\ Keyed' /\ HeadServed' /\ ReceiptNamesBlock'
  BY <1>1, DiskUnchanged
<1>3. Inv'
  BY CommitDoneInv DEF ReadInv
<1>4. SavingInOrder'
  BY <1>1 DEF SavingInOrder
<1>5. HeadIsOwn'
  <2>1. ~HeadToCome
    BY <1>1 DEF HeadToCome
  <2> QED
    BY <1>1, <1>2, <2>1 DEF ReadInv, HeadIsOwn
<1>6. FewMissing'
  BY <1>1, <1>2 DEF ReadInv, FewMissing, OnItsWay
<1> QED
  BY <1>2, <1>3, <1>4, <1>5, <1>6 DEF ReadInv

LEMMA CrashRead ==
  ASSUME ReadInv, Crash
  PROVE  ReadInv'
<1>1. /\ crashes' = crashes + 1 /\ up' = FALSE
      /\ saving' = NoBlock /\ writes' = <<>>
      /\ UNCHANGED <<disk, failed>>
  BY DEF Crash
<1>2. /\ DiskHead' = DiskHead /\ Missing' = Missing
      /\ Keyed' /\ HeadServed' /\ ReceiptNamesBlock'
  BY <1>1, DiskUnchanged
<1>3. Inv'
  BY CrashInv DEF ReadInv
<1>4. SavingInOrder' /\ HeadIsOwn'
  BY <1>1 DEF SavingInOrder, HeadIsOwn
<1>5. FewMissing'
  <2>1. OnItsWay' = {} /\ Missing \ {} = Missing
    BY <1>1 DEF OnItsWay
  <2>2. Cardinality(Missing) <= Cardinality(Missing \ OnItsWay) + 1
    BY OneOnItsWay DEF ReadInv
  <2>3. /\ Cardinality(Missing \ OnItsWay) \in Nat
        /\ Cardinality(Missing) \in Nat /\ crashes \in Nat /\ failed \in Nat
    BY Countable DEF ReadInv
  <2> QED
    BY <1>1, <1>2, <2>1, <2>2, <2>3 DEF ReadInv, FewMissing
<1> QED
  BY <1>2, <1>3, <1>4, <1>5 DEF ReadInv

LEMMA RestartRead ==
  ASSUME ReadInv, Restart
  PROVE  ReadInv'
<1>1. /\ ~up /\ height' = DiskHead.height
      /\ UNCHANGED <<disk, state, saving, writes, crashes, failed>>
  BY DEF Restart
<1>2. /\ DiskHead' = DiskHead /\ Missing' = Missing
      /\ Keyed' /\ HeadServed' /\ ReceiptNamesBlock'
  BY <1>1, DiskUnchanged
<1>3. Inv'
  BY RestartInv DEF ReadInv
<1>4. saving = NoBlock
  BY <1>1 DEF ReadInv, Inv, PutsInOrder
<1>5. SavingInOrder' /\ HeadIsOwn'
  BY <1>1, <1>2, <1>4 DEF SavingInOrder, HeadIsOwn
<1>6. FewMissing'
  BY <1>1, <1>2 DEF ReadInv, FewMissing, OnItsWay
<1> QED
  BY <1>2, <1>3, <1>5, <1>6 DEF ReadInv

-----------------------------------------------------------------------------
(* One put.                                                                *)

\* The first of the puts goes, the others move up.
LEMMA PutFacts ==
  ASSUME ReadInv, PutDone, NEW w, w = writes[1]
  PROVE  /\ w \in Puts /\ w.table \in Tables /\ Fits(w, saving)
         /\ saving \in Blocks /\ saving # NoBlock /\ up /\ saving.height = height + 1
         /\ Len(writes) \in Nat \ {0} /\ DOMAIN writes = 1..Len(writes)
         /\ Len(writes') = Len(writes) - 1 /\ DOMAIN writes' = 1..Len(writes')
         /\ \A i \in DOMAIN writes' : i + 1 \in DOMAIN writes /\ writes'[i] = writes[i + 1]
         /\ DOMAIN disk' = Tables
         /\ \A t \in Tables : t # w.table => disk'[t] = disk[t]
         /\ DOMAIN disk'[w.table] = DOMAIN disk[w.table] \cup {w.key}
         /\ \A k \in DOMAIN disk'[w.table] :
              disk'[w.table][k] = IF k = w.key THEN w.value ELSE disk[w.table][k]
         /\ UNCHANGED <<up, height, state, saving, crashes, failed>>
<1>1. /\ writes \in Seq(Puts) /\ writes # <<>> /\ w \in Puts
      /\ writes' \in Seq(Puts)
      /\ Len(writes) \in Nat \ {0} /\ Len(writes') = Len(writes) - 1
      /\ \A i \in DOMAIN writes' : i + 1 \in DOMAIN writes /\ writes'[i] = writes[i + 1]
  BY DEF ReadInv, Inv, PutsInOrder, PutDone
<1>2. DOMAIN writes = 1..Len(writes) /\ DOMAIN writes' = 1..Len(writes')
  BY <1>1
<1>3. /\ disk' = Stored(disk, w)
      /\ UNCHANGED <<up, height, state, saving, crashes, failed>>
  BY <1>1 DEF PutDone
<1>4. w.table \in Tables
  BY <1>1 DEF Puts, HeadPuts, OtherPuts, Tables
<1>5. /\ DOMAIN disk' = Tables
      /\ \A t \in Tables : t # w.table => disk'[t] = disk[t]
      /\ DOMAIN disk'[w.table] = DOMAIN disk[w.table] \cup {w.key}
      /\ \A k \in DOMAIN disk'[w.table] :
           disk'[w.table][k] = IF k = w.key THEN w.value ELSE disk[w.table][k]
  BY <1>3, <1>4, PutChangesOneKey DEF ReadInv, Inv, TypeOK
<1>6. saving \in Blocks /\ saving # NoBlock /\ up /\ saving.height = height + 1
  BY <1>1 DEF ReadInv, Inv, TypeOK, PutsInOrder
<1>7. Fits(w, saving)
  <2>1. 1 \in DOMAIN writes
    BY <1>1, <1>2
  <2> QED
    BY <1>6, <2>1 DEF ReadInv, SavingInOrder
<1> HIDE DEF Puts
<1> QED
  BY <1>1, <1>2, <1>3, <1>4, <1>5, <1>6, <1>7

\* A receipt or a bloom is written when the head is, and only then.
LEMMA LatePuts ==
  ASSUME ReadInv, PutDone, NEW w, w = writes[1]
  PROVE  /\ w.table \in Late <=> ~HeadToCome
         /\ w.table = "head" => ~HeadToCome'
         /\ w.table = "head" => \A i \in DOMAIN writes' : writes'[i].table \in Late
         /\ w.table # "head" => (HeadToCome' <=> HeadToCome)
<1>1. /\ Len(writes) \in Nat \ {0} /\ DOMAIN writes = 1..Len(writes)
      /\ Len(writes') = Len(writes) - 1 /\ DOMAIN writes' = 1..Len(writes')
      /\ \A i \in DOMAIN writes' : i + 1 \in DOMAIN writes /\ writes'[i] = writes[i + 1]
      /\ saving # NoBlock
  BY PutFacts
<1>2. InOrder(writes) /\ (HeadToCome \/ \A i \in DOMAIN writes : writes[i].table \in Late)
  BY <1>1 DEF ReadInv, SavingInOrder
<1>3. 1 \in DOMAIN writes
  BY <1>1
<1>4. w.table \in Late <=> ~HeadToCome
  <2>1. ASSUME w.table \in Late, HeadToCome
        PROVE  FALSE
    <3>1. PICK i \in DOMAIN writes : writes[i].table = "head"
      BY <2>1 DEF HeadToCome
    <3>2. i # 1
      BY <2>1, <3>1 DEF Late
    <3>3. 1 < i
      BY <1>1, <3>2
    <3>4. writes[i].table \in Late
      BY <1>2, <1>3, <2>1, <3>3 DEF InOrder
    <3> QED
      BY <3>1, <3>4 DEF Late
  <2>2. ASSUME ~HeadToCome
        PROVE  w.table \in Late
    BY <1>2, <1>3, <2>2
  <2> QED
    BY <2>1, <2>2
<1>5. ASSUME w.table = "head", NEW i \in DOMAIN writes'
      PROVE  writes'[i].table \in Late
  <2>1. i + 1 \in DOMAIN writes /\ writes'[i] = writes[i + 1] /\ 1 < i + 1
    BY <1>1
  <2> QED
    BY <1>2, <1>3, <1>5, <2>1 DEF InOrder
<1>6. w.table = "head" => ~HeadToCome'
  BY <1>5 DEF HeadToCome, Late
<1>7. ASSUME w.table # "head"
      PROVE  HeadToCome' <=> HeadToCome
  <2>1. ASSUME HeadToCome'
        PROVE  HeadToCome
    <3>1. PICK i \in DOMAIN writes' : writes'[i].table = "head"
      BY <2>1 DEF HeadToCome
    <3> QED
      BY <1>1, <3>1 DEF HeadToCome
  <2>2. ASSUME HeadToCome
        PROVE  HeadToCome'
    <3>1. PICK i \in DOMAIN writes : writes[i].table = "head"
      BY <2>2 DEF HeadToCome
    <3>2. i # 1
      BY <1>7, <3>1
    <3>3. i - 1 \in DOMAIN writes' /\ (i - 1) + 1 = i
      BY <1>1, <3>2
    <3>4. writes'[i - 1].table = "head"
      BY <1>1, <3>1, <3>3
    <3> QED
      BY <3>3, <3>4 DEF HeadToCome
  <2> QED
    BY <2>1, <2>2
<1> QED
  BY <1>4, <1>5, <1>6, <1>7

LEMMA PutDoneOrder ==
  ASSUME ReadInv, PutDone
  PROVE  SavingInOrder'
<1> DEFINE w == writes[1]
<1>1. /\ w.table \in Tables /\ Fits(w, saving)
      /\ saving \in Blocks /\ saving # NoBlock
      /\ Len(writes) \in Nat \ {0} /\ DOMAIN writes = 1..Len(writes)
      /\ Len(writes') = Len(writes) - 1 /\ DOMAIN writes' = 1..Len(writes')
      /\ \A i \in DOMAIN writes' : i + 1 \in DOMAIN writes /\ writes'[i] = writes[i + 1]
      /\ DOMAIN disk' = Tables
      /\ \A t \in Tables : t # w.table => disk'[t] = disk[t]
      /\ DOMAIN disk'[w.table] = DOMAIN disk[w.table] \cup {w.key}
      /\ \A k \in DOMAIN disk'[w.table] :
           disk'[w.table][k] = IF k = w.key THEN w.value ELSE disk[w.table][k]
      /\ saving' = saving
  BY PutFacts
<1>2. /\ \A i \in DOMAIN writes : Fits(writes[i], saving)
      /\ InOrder(writes)
      /\ writes[Len(writes)].table = "bloom"
      /\ HeadToCome \/ \A i \in DOMAIN writes : writes[i].table \in Late
      /\ \A e \in Indexes(saving) : OnDisk(e) \/ \E i \in DOMAIN writes : writes[i] = e
  BY <1>1 DEF ReadInv, SavingInOrder
<1>3. /\ w.table = "head" => \A i \in DOMAIN writes' : writes'[i].table \in Late
      /\ w.table # "head" => (HeadToCome' <=> HeadToCome)
  BY LatePuts
<1>4. \A i \in DOMAIN writes' : Fits(writes'[i], saving)
  BY <1>1, <1>2
<1>5. InOrder(writes')
  <2> SUFFICES ASSUME NEW i \in DOMAIN writes', NEW j \in DOMAIN writes',
                      i < j, writes'[i].table \in Late \cup {"head"}
               PROVE  writes'[j].table \in Late
    BY DEF InOrder
  <2>1. i + 1 \in DOMAIN writes /\ j + 1 \in DOMAIN writes /\ i + 1 < j + 1
    BY <1>1
  <2> QED
    BY <1>1, <1>2, <2>1 DEF InOrder
<1>6. writes' # <<>> => writes'[Len(writes')].table = "bloom"
  <2> SUFFICES ASSUME Len(writes') # 0
               PROVE  writes'[Len(writes')].table = "bloom"
    BY <1>1
  <2>1. Len(writes') \in DOMAIN writes' /\ Len(writes') + 1 = Len(writes)
    BY <1>1
  <2> QED
    BY <1>1, <1>2, <2>1
<1>7. HeadToCome' \/ \A i \in DOMAIN writes' : writes'[i].table \in Late
  <2>1. CASE w.table = "head"
    BY <1>3, <2>1
  <2>2. CASE w.table # "head" /\ HeadToCome
    BY <1>3, <2>2
  <2>3. CASE \A i \in DOMAIN writes : writes[i].table \in Late
    BY <1>1, <2>3
  <2> QED
    BY <1>2, <2>1, <2>2, <2>3
<1>8. ASSUME NEW e \in Indexes(saving)
      PROVE  OnDisk(e)' \/ \E i \in DOMAIN writes' : writes'[i] = e
  <2>1. /\ e.table \in {"block", "hash", "tx", "addr"}
        /\ w.table = e.table /\ w.key = e.key => w.value = e.value
    BY <1>1, IndexValues
  <2>2. e.table \in Tables
    BY <2>1 DEF Tables
  <2>3. CASE OnDisk(e)
    <3>1. CASE w.table = e.table
      BY <1>1, <2>1, <2>3, <3>1 DEF OnDisk, Has
    <3>2. CASE w.table # e.table
      BY <1>1, <2>2, <2>3, <3>2 DEF OnDisk, Has
    <3> QED
      BY <3>1, <3>2
  <2>4. CASE w = e
    BY <1>1, <2>4 DEF OnDisk, Has
  <2>5. ASSUME NEW i \in DOMAIN writes, writes[i] = e, w # e
        PROVE  \E k \in DOMAIN writes' : writes'[k] = e
    <3>1. i - 1 \in DOMAIN writes' /\ (i - 1) + 1 = i
      BY <1>1, <2>5
    <3> QED
      BY <1>1, <2>5, <3>1
  <2> QED
    BY <1>2, <2>3, <2>4, <2>5
<1> QED
  BY <1>1, <1>4, <1>5, <1>6, <1>7, <1>8 DEF SavingInOrder

\* The heights that the next facts compare.
LEMMA PutNumbers ==
  ASSUME ReadInv, PutDone
  PROVE  /\ DiskHead.height \in Nat /\ height \in Nat /\ saving.height \in Nat
         /\ saving.height = height + 1 /\ saving.height <= DiskHead.height + 1
         /\ DiskHead.height <= saving.height
         /\ failed = 0 /\ HeadToCome => saving.height = DiskHead.height + 1
         /\ failed = 0 /\ ~HeadToCome => DiskHead = saving
<1>1. saving \in Blocks /\ saving # NoBlock /\ up /\ saving.height = height + 1
  BY PutFacts
<1>2. DiskHead.height \in Nat /\ height \in Nat /\ saving.height \in Nat
  BY <1>1, HeadsAreNaturals DEF ReadInv, Inv
<1>3. height <= DiskHead.height /\ DiskHead.height <= height + 1
  BY <1>1 DEF ReadInv, Inv, NeverAhead, HeadNear
<1> QED
  BY <1>1, <1>2, <1>3 DEF ReadInv, HeadIsOwn

\* The head is put: every index of the block is there.
LEMMA PutHead ==
  ASSUME ReadInv, PutDone, writes[1].table = "head"
  PROVE  /\ DiskHead' = saving
         /\ Keyed' /\ HeadIsOwn' /\ HeadServed' /\ ReceiptNamesBlock'
<1> DEFINE w == writes[1]
<1>1. /\ w \in Puts /\ saving \in Blocks /\ saving # NoBlock
      /\ 1 \in DOMAIN writes
      /\ DOMAIN disk' = Tables
      /\ \A t \in Tables : t # w.table => disk'[t] = disk[t]
      /\ DOMAIN disk'[w.table] = DOMAIN disk[w.table] \cup {w.key}
      /\ \A k \in DOMAIN disk'[w.table] :
           disk'[w.table][k] = IF k = w.key THEN w.value ELSE disk[w.table][k]
      /\ UNCHANGED <<up, height, state, saving, crashes, failed>>
  BY PutFacts
<1>2. w.key = HeadKey /\ w.value = saving
  BY <1>1 DEF ReadInv, Inv, PutsInOrder, Puts, HeadPuts, OtherPuts
<1>3. DiskHead' = saving
  BY <1>1, <1>2 DEF DiskHead, Has
<1>4. \A t \in {"block", "hash", "tx", "addr", "receipt", "bloom"} : disk'[t] = disk[t]
  BY <1>1 DEF Tables
<1>5. HeadToCome /\ ~HeadToCome'
  BY <1>1, LatePuts DEF HeadToCome
<1>6. /\ DiskHead.height \in Nat /\ saving.height \in Nat
      /\ DiskHead.height <= saving.height
      /\ failed = 0 => saving.height = DiskHead.height + 1
  BY <1>5, PutNumbers
<1>7. Keyed'
  <2>1. \A t \in {"tx", "addr"} : \A k \in DOMAIN disk[t] : disk[t][k] \in Int
    BY HeadsAreNaturals DEF ReadInv, Inv, TypeOK
  <2>2. \A t \in {"tx", "addr"} : \A k \in DOMAIN disk[t] :
           disk[t][k] <= DiskHead.height + 1
    BY DEF ReadInv, Keyed
  <2>3. \A t \in {"tx", "addr"} : \A k \in DOMAIN disk'[t] :
           disk'[t][k] <= DiskHead'.height + 1
    BY <1>3, <1>4, <1>6, <2>1, <2>2
  <2> QED
    BY <1>4, <2>3 DEF ReadInv, Keyed
<1>8. HeadIsOwn'
  BY <1>1, <1>3, <1>5 DEF HeadIsOwn
<1>9. \A e \in Indexes(saving) : OnDisk(e)
  <2> SUFFICES ASSUME NEW e \in Indexes(saving), NEW i \in DOMAIN writes, writes[i] = e
               PROVE  FALSE
    BY <1>1 DEF ReadInv, SavingInOrder
  <2>1. e.table \in {"block", "hash", "tx", "addr"}
    BY <1>1, IndexValues
  <2>2. i # 1
    BY <2>1
  <2>3. 1 < i
    BY <1>1, <2>2 DEF ReadInv, Inv, PutsInOrder
  <2>4. e.table \in Late
    BY <1>1, <2>3 DEF ReadInv, SavingInOrder, InOrder
  <2> QED
    BY <2>1, <2>4 DEF Late
<1>10. /\ Has("block", saving.height) /\ disk["block"][saving.height] = saving
       /\ Has("hash", saving) /\ disk["hash"][saving] = saving.height
       /\ \A i \in DOMAIN saving.txs :
            LET tx == saving.txs[i]
            IN  /\ Has("tx", tx) /\ disk["tx"][tx] = saving.height
                /\ \A a \in {From(tx), To(tx)} :
                     Has("addr", <<a, tx>>) /\ disk["addr"][<<a, tx>>] = saving.height
  <2>1. /\ OnDisk(Entry("block", saving.height, saving))
        /\ OnDisk(Entry("hash", saving, saving.height))
    BY <1>9 DEF Indexes
  <2>2. ASSUME NEW i \in DOMAIN saving.txs
        PROVE  /\ OnDisk(Entry("tx", saving.txs[i], saving.height))
               /\ OnDisk(Entry("addr", <<From(saving.txs[i]), saving.txs[i]>>, saving.height))
               /\ OnDisk(Entry("addr", <<To(saving.txs[i]), saving.txs[i]>>, saving.height))
    BY <1>9 DEF Indexes
  <2> QED
    BY <2>1, <2>2 DEF OnDisk, Entry
<1>11. HeadServed'
  <2> SUFFICES ASSUME failed = 0
               PROVE  /\ disk["block"][saving.height] = saving
                      /\ \A h \in 1..saving.height :
                           LET b == disk["block"][h]
                           IN  /\ Has("hash", b) /\ disk["hash"][b] = h
                               /\ \A i \in DOMAIN b.txs : Located(b.txs[i], h)
    BY <1>1, <1>3, <1>4 DEF HeadServed, Has, Located
  <2>1. ASSUME NEW h \in 1..saving.height
        PROVE  LET b == disk["block"][h]
               IN  /\ Has("hash", b) /\ disk["hash"][b] = h
                   /\ \A i \in DOMAIN b.txs : Located(b.txs[i], h)
    <3>1. CASE h = saving.height
      BY <1>6, <1>10, <3>1 DEF Located
    <3>2. CASE h # saving.height
      <4>1. h \in 1..DiskHead.height /\ DiskHead # Head0
        BY <1>6, <3>2 DEF Head0
      <4> QED
        BY <4>1 DEF ReadInv, HeadServed
    <3> QED
      BY <3>1, <3>2
  <2> QED
    BY <1>10, <2>1
<1>12. ReceiptNamesBlock'
  <2> SUFFICES ASSUME failed = 0, NEW tx \in DOMAIN disk["receipt"]
               PROVE  LET r == disk["receipt"][tx]
                      IN  /\ r.height <= saving.height
                          /\ disk["block"][r.height] = r.block
                          /\ \E i \in DOMAIN r.block.txs : r.block.txs[i] = tx
    BY <1>1, <1>3, <1>4 DEF ReceiptNamesBlock
  <2>1. disk["receipt"][tx].height \in Int
    BY HeadsAreNaturals DEF ReadInv, Inv, TypeOK
  <2> QED
    BY <1>6, <2>1 DEF ReadInv, ReceiptNamesBlock
<1> QED
  BY <1>3, <1>7, <1>8, <1>11, <1>12

\* Another put.
LEMMA PutOther ==
  ASSUME ReadInv, PutDone, writes[1].table # "head"
  PROVE  /\ DiskHead' = DiskHead
         /\ Keyed' /\ HeadIsOwn' /\ HeadServed' /\ ReceiptNamesBlock'
<1> DEFINE w == writes[1]
<1>1. /\ w \in Puts /\ w.table \in Tables /\ Fits(w, saving)
      /\ saving \in Blocks /\ saving # NoBlock
      /\ DOMAIN disk' = Tables
      /\ \A t \in Tables : t # w.table => disk'[t] = disk[t]
      /\ DOMAIN disk'[w.table] = DOMAIN disk[w.table] \cup {w.key}
      /\ \A k \in DOMAIN disk'[w.table] :
           disk'[w.table][k] = IF k = w.key THEN w.value ELSE disk[w.table][k]
      /\ UNCHANGED <<up, height, state, saving, crashes, failed>>
  BY PutFacts
<1>2. DiskHead' = DiskHead
  BY <1>1 DEF DiskHead, Has, Tables
<1>3. /\ HeadToCome' <=> HeadToCome
      /\ w.table \in Late <=> ~HeadToCome
  BY LatePuts
<1>4. /\ DiskHead.height \in Nat /\ saving.height \in Nat
      /\ saving.height <= DiskHead.height + 1
      /\ failed = 0 /\ HeadToCome => saving.height = DiskHead.height + 1
      /\ failed = 0 /\ ~HeadToCome => DiskHead = saving
  BY PutNumbers
<1> HIDE DEF w
<1>5. Keyed'
  <2>1. \A h \in DOMAIN disk'["block"] : disk'["block"][h].height = h
    BY <1>1 DEF ReadInv, Keyed, Fits, Tables
  <2>2. \A b \in DOMAIN disk'["hash"] : disk'["hash"][b] = b.height
    BY <1>1 DEF ReadInv, Keyed, Fits, Tables
  <2>3. \A k \in DOMAIN disk'["tx"] : disk'["tx"][k] <= DiskHead'.height + 1
    BY <1>1, <1>2, <1>4 DEF ReadInv, Keyed, Fits, Tables
  <2>4. \A k \in DOMAIN disk'["addr"] : disk'["addr"][k] <= DiskHead'.height + 1
    BY <1>1, <1>2, <1>4 DEF ReadInv, Keyed, Fits, Tables
  <2> QED
    BY <2>1, <2>2, <2>3, <2>4 DEF Keyed
<1>6. HeadIsOwn'
  BY <1>1, <1>2, <1>3 DEF ReadInv, HeadIsOwn
<1>7. ASSUME failed = 0, NEW h \in 1..DiskHead.height
      PROVE  disk'["block"][h] = disk["block"][h]
  <2>1. h \in DOMAIN disk["block"]
    BY <1>7 DEF ReadInv, Inv, NoGaps, Has
  <2>2. CASE w.table = "block"
    <3>1. HeadToCome
      BY <1>3, <2>2 DEF Late
    <3>2. w.key # h
      BY <1>1, <1>4, <1>7, <2>2, <3>1 DEF Fits
    <3> QED
      BY <1>1, <2>1, <2>2, <3>2
  <2>3. CASE w.table # "block"
    BY <1>1, <2>3 DEF Tables
  <2> QED
    BY <2>2, <2>3
<1>8. HeadServed'
  <2> SUFFICES ASSUME failed = 0, DiskHead # Head0
               PROVE  /\ disk'["block"][DiskHead.height] = DiskHead
                      /\ \A h \in 1..DiskHead.height : \A b :
                           b = disk'["block"][h] =>
                             /\ Has("hash", b)' /\ disk'["hash"][b] = h
                             /\ \A i \in DOMAIN b.txs : Located(b.txs[i], h)'
    BY <1>1, <1>2 DEF HeadServed, Located, Has
  <2>1. DiskHead.height \in 1..DiskHead.height
    BY <1>4, HeadsAreNaturals DEF ReadInv, Inv, TypeOK
  <2>2. ASSUME NEW h \in 1..DiskHead.height, NEW b, b = disk["block"][h]
        PROVE  /\ Has("hash", b)' /\ disk'["hash"][b] = h
               /\ \A i \in DOMAIN b.txs : Located(b.txs[i], h)'
    <3>1. Has("hash", b) /\ b.height = h /\ \A i \in DOMAIN b.txs : Located(b.txs[i], h)
      BY <2>2 DEF ReadInv, HeadServed, Keyed, Inv, NoGaps, Has
    <3>2. Has("hash", b)'
      BY <1>1, <3>1 DEF Has, Tables
    <3>3. disk'["hash"][b] = h
      BY <1>5, <3>1, <3>2 DEF Keyed, Has
    <3>4. ASSUME NEW tx, Located(tx, h)
          PROVE  Located(tx, h)'
      <4>1. w.table \in {"tx", "addr"} => w.value = saving.height /\ saving.height >= h
        <5>1. w.table \in {"tx", "addr"} => HeadToCome
          BY <1>3 DEF Late
        <5> QED
          BY <1>1, <1>4, <5>1 DEF Fits
      <4>2. Has("tx", tx)' /\ disk'["tx"][tx] >= h
        <5>1. Has("tx", tx) /\ disk["tx"][tx] >= h
          BY <3>4 DEF Located
        <5> QED
          BY <1>1, <4>1, <5>1 DEF Has, Tables
      <4>3. ASSUME NEW a \in {From(tx), To(tx)}
            PROVE  Has("addr", <<a, tx>>)' /\ disk'["addr"][<<a, tx>>] >= h
        <5>1. Has("addr", <<a, tx>>) /\ disk["addr"][<<a, tx>>] >= h
          BY <3>4 DEF Located
        <5> QED
          BY <1>1, <4>1, <5>1 DEF Has, Tables
      <4> QED
        BY <4>2, <4>3 DEF Located
    <3> QED
      BY <3>1, <3>2, <3>3, <3>4
  <2>3. disk["block"][DiskHead.height] = DiskHead
    BY DEF ReadInv, HeadServed
  <2> QED
    BY <1>7, <2>1, <2>2, <2>3
<1>9. ReceiptNamesBlock'
  <2> SUFFICES ASSUME failed = 0, NEW tx \in DOMAIN disk'["receipt"]
               PROVE  LET r == disk'["receipt"][tx]
                      IN  /\ r.height <= DiskHead.height
                          /\ disk'["block"][r.height] = r.block
                          /\ \E i \in DOMAIN r.block.txs : r.block.txs[i] = tx
    BY <1>1, <1>2 DEF ReceiptNamesBlock
  <2>1. CASE w.table = "receipt" /\ w.key = tx
    <3>1. DiskHead = saving
      BY <1>3, <1>4, <2>1 DEF Late
    <3>2. DiskHead # Head0 /\ saving.height \in 1..DiskHead.height
      BY <1>1, <1>4, <3>1, HeadsAreNaturals DEF ReadInv, Inv, NoBlock, Head0
    <3>3. disk["block"][saving.height] = saving
      BY <3>1, <3>2 DEF ReadInv, HeadServed
    <3>4. disk'["block"][saving.height] = saving
      BY <1>7, <3>2, <3>3
    <3>5. disk'["receipt"][tx] = [height |-> saving.height, block |-> saving]
      BY <1>1, <2>1 DEF Fits
    <3>6. \E i \in DOMAIN saving.txs : saving.txs[i] = tx
      BY <1>1, <2>1 DEF Fits
    <3> QED
      BY <1>4, <3>1, <3>4, <3>5, <3>6
  <2>2. CASE ~(w.table = "receipt" /\ w.key = tx)
    <3>1. tx \in DOMAIN disk["receipt"] /\ disk'["receipt"][tx] = disk["receipt"][tx]
      BY <1>1, <2>2 DEF Tables
    <3> DEFINE r == disk["receipt"][tx]
    <3>2. /\ r.height <= DiskHead.height /\ disk["block"][r.height] = r.block
          /\ \E i \in DOMAIN r.block.txs : r.block.txs[i] = tx
      BY <3>1 DEF ReadInv, ReceiptNamesBlock
    <3>3. r.height \in 1..MaxHeight /\ MaxHeight \in Nat
      BY <3>1, StoreAssumption DEF ReadInv, Inv, TypeOK
    <3>4. r.height \in 1..DiskHead.height
      BY <1>4, <3>2, <3>3
    <3> QED
      BY <1>7, <3>1, <3>2, <3>4
  <2> QED
    BY <2>1, <2>2
<1> QED
  BY <1>2, <1>5, <1>6, <1>8, <1>9

\* A put adds no height to the missing ones but the block's own, and the last
\* of its puts takes that one away.
LEMMA PutMissing ==
  ASSUME ReadInv, PutDone, Inv', DiskHead' \in {DiskHead, saving}
  PROVE  FewMissing'
<1> DEFINE w == writes[1]
<1>1. /\ w.table \in Tables /\ Fits(w, saving)
      /\ saving \in Blocks /\ saving # NoBlock
      /\ Len(writes) \in Nat \ {0} /\ DOMAIN writes = 1..Len(writes)
      /\ Len(writes') = Len(writes) - 1 /\ DOMAIN writes' = 1..Len(writes')
      /\ DOMAIN disk' = Tables
      /\ \A t \in Tables : t # w.table => disk'[t] = disk[t]
      /\ DOMAIN disk'[w.table] = DOMAIN disk[w.table] \cup {w.key}
      /\ UNCHANGED <<up, height, state, saving, crashes, failed>>
  BY PutFacts
<1>2. /\ DiskHead.height \in Nat /\ saving.height \in Nat
      /\ saving.height <= DiskHead.height + 1
  BY PutNumbers
<1>3. OnItsWay = {saving.height}
  <2>1. writes # <<>>
    BY <1>1
  <2> QED
    BY <1>1, <2>1 DEF OnItsWay
<1>4. \A h : Has("bloom", h) => Has("bloom", h)'
  BY <1>1 DEF Has, Tables
<1>5. Missing' \subseteq Missing \cup {saving.height}
  BY <1>2, <1>4 DEF Missing
<1>6. saving.height \in Missing' => saving.height \in OnItsWay'
  <2>1. CASE Len(writes') = 0
    <3>1. w.table = "bloom"
      <4>1. Len(writes) = 1
        <5>1. Len(writes) \in Nat /\ Len(writes') = Len(writes) - 1
          BY <1>1
        <5>2. \A n \in Nat : n - 1 = 0 => n = 1
          OBVIOUS
        <5> QED
          BY <2>1, <5>1, <5>2, Zenon
      <4>2. writes # <<>>
        BY DEF PutDone
      <4> QED
        BY <1>1, <4>1, <4>2 DEF ReadInv, SavingInOrder
    <3>2. saving.height \in DOMAIN disk'["bloom"]
      BY <1>1, <3>1 DEF Fits
    <3> QED
      BY <3>2 DEF Missing, Has
  <2>2. CASE Len(writes') # 0
    <3>1. writes' # <<>> /\ saving' # NoBlock
      BY <1>1, <2>2
    <3> QED
      BY <1>1, <3>1 DEF OnItsWay
  <2> QED
    BY <2>1, <2>2
<1>7. Missing' \ OnItsWay' \in SUBSET (Missing \ OnItsWay)
  BY <1>3, <1>5, <1>6
<1>8. IsFiniteSet(Missing \ OnItsWay) /\ Cardinality(Missing \ OnItsWay) \in Nat
  BY Countable DEF ReadInv
<1>9. /\ Cardinality(Missing' \ OnItsWay') <= Cardinality(Missing \ OnItsWay)
      /\ Cardinality(Missing' \ OnItsWay') \in Nat
  BY <1>7, <1>8, FS_Subset, FS_CardinalityType
<1>10. crashes \in Nat /\ failed \in Nat
  BY Countable DEF ReadInv
<1> QED
  BY <1>1, <1>8, <1>9, <1>10 DEF ReadInv, FewMissing

LEMMA PutDoneRead ==
  ASSUME ReadInv, PutDone
  PROVE  ReadInv'
<1>1. Inv'
  BY PutDoneInv DEF ReadInv
<1>2. SavingInOrder'
  BY PutDoneOrder
<1>3. /\ DiskHead' \in {DiskHead, saving}
      /\ Keyed' /\ HeadIsOwn' /\ HeadServed' /\ ReceiptNamesBlock'
  BY PutHead, PutOther
<1>4. FewMissing'
  BY <1>1, <1>3, PutMissing
<1> QED
  BY <1>1, <1>2, <1>3, <1>4 DEF ReadInv

LEMMA StepRead ==
  ASSUME ReadInv, [Next]_vars
  PROVE  ReadInv'
<1>1. CASE UNCHANGED vars
  <2>1. /\ UNCHANGED <<disk, up, height, state, saving, writes, crashes, failed>>
    BY <1>1 DEF vars, memory
  <2>2. /\ DiskHead' = DiskHead /\ Missing' = Missing
        /\ Keyed' /\ HeadServed' /\ ReceiptNamesBlock'
    BY <2>1, DiskUnchanged
  <2>3. Inv'
    BY <1>1, StepInv DEF ReadInv
  <2>4. HeadToCome' = HeadToCome /\ OnItsWay' = OnItsWay
    BY <2>1 DEF HeadToCome, OnItsWay
  <2>5. SavingInOrder' /\ HeadIsOwn' /\ FewMissing'
    BY <2>1, <2>2, <2>4
       DEF ReadInv, SavingInOrder, HeadIsOwn, FewMissing, OnDisk, Has
  <2> QED
    BY <2>2, <2>3, <2>5 DEF ReadInv
<1>2. CASE Next
  BY <1>2, CommitStartsRead, PutDoneRead, PutFailsRead, CommitDoneRead, CrashRead,
     RestartRead DEF Next
<1> QED
  BY <1>1, <1>2

LEMMA ReadInvariant == Spec => []ReadInv
<1>1. ReadInv /\ [Next]_vars => ReadInv'
  BY StepRead
<1> QED
  BY <1>1, InitRead, PTL DEF Spec

-----------------------------------------------------------------------------
(* The theorems.                                                           *)

\* Crashes do no harm to a saved block, for any transactions and any number of
\* crashes: as long as no put fails, every block up to the head is found by its
\* hash and by its transactions (block_store.ts:16-41).
THEOREM BlocksAreFound == Spec => []HeadServed
<1>1. ReadInv => HeadServed
  BY DEF ReadInv
<1> QED
  BY <1>1, ReadInvariant, PTL

\* As long as no put fails, a receipt that getReceipt() finds names a block of
\* the chain which has the transaction (block_store.ts:41 before 198).
THEOREM ReceiptsAreOfTheChain == Spec => []ReceiptNamesBlock
<1>1. ReadInv => ReceiptNamesBlock
  BY DEF ReadInv
<1> QED
  BY <1>1, ReadInvariant, PTL

\* The blocks whose receipts are missing are no more than the crashes and the
\* failed puts, and the block that is being saved.
THEOREM MissingReceiptsBounded == Spec => []ReceiptsMissing
<1>1. ASSUME ReadInv
      PROVE  ReceiptsMissing
  <2>1. Cardinality(Missing) <= Cardinality(Missing \ OnItsWay) + 1
    BY <1>1, OneOnItsWay DEF ReadInv
  <2>2. /\ Cardinality(Missing) \in Nat /\ Cardinality(Missing \ OnItsWay) \in Nat
        /\ crashes \in Nat /\ failed \in Nat
    BY <1>1, Countable DEF ReadInv
  <2>3. Cardinality(Missing \ OnItsWay) <= crashes + failed
    BY <1>1 DEF ReadInv, FewMissing
  <2>4. saving = NoBlock => Missing \ OnItsWay = Missing
    BY DEF OnItsWay
  <2>5. Cardinality(Missing) <= crashes + failed + (IF saving # NoBlock THEN 1 ELSE 0)
    BY <2>1, <2>2, <2>3, <2>4
  <2> QED
    BY <2>5 DEF ReceiptsMissing, Missing
<1>2. ReadInv => ReceiptsMissing
  BY <1>1
<1> QED
  BY <1>2, ReadInvariant, PTL

=============================================================================
