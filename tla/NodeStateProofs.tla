-------------------------- MODULE NodeStateProofs --------------------------
(***************************************************************************)
(* Proofs about NodeState: the types of its state, the mempool, and, for a *)
(* node that executes one block at a time, what the state is between       *)
(* executions and what a transaction can have done by then.                *)
(***************************************************************************)
EXTENDS NodeState, LedgerProofs

Taken   == INSTANCE FoldTheory WITH Op <- RemoveFirst
Sorted  == INSTANCE FoldTheory WITH Op <- Placed
Grown   == INSTANCE FoldTheory WITH Op <- AddBlock
Told    == INSTANCE FoldTheory WITH Op <- LAMBDA txs, entry : txs \o entry.receipts
Minted  == INSTANCE FoldTheory
             WITH Op <- LAMBDA sum, tx : sum + (IF tx.from = System THEN tx.value ELSE 0)
Burning == INSTANCE FoldTheory
             WITH Op <- LAMBDA sum, e : sum + (TotalFees(e.receipts)
                                                 - ProposerShare(e.receipts))

LEMMA TakenFold == \A txs : Removed(txs) = Taken!Folded(pool, txs)
  BY Zenon DEF Removed, FoldLeft, MapThenFoldSet, Max,
               Taken!Folded, Taken!Iter, Taken!IterDef, Taken!Max

LEMMA SortedFold == ByPrice = Sorted!Folded(<<>>, pool)
  BY Zenon DEF ByPrice, FoldLeft, MapThenFoldSet, Max,
               Sorted!Folded, Sorted!Iter, Sorted!IterDef, Sorted!Max

LEMMA GrownFold == \A c : After(c) = Grown!Folded(Base, c)
  BY Zenon DEF After, FoldLeft, MapThenFoldSet, Max,
               Grown!Folded, Grown!Iter, Grown!IterDef, Grown!Max

\* The transactions of a chain, the rewards among transactions, the fees that a chain
\* has burnt.
ExecutionsOf(c) == FoldLeft(LAMBDA txs, entry : txs \o entry.receipts, <<>>, c)
RewardsOf(txs)  == SumOver(txs, LAMBDA tx : IF tx.from = System THEN tx.value ELSE 0)
BurntBy(c)      == SumOver(c, LAMBDA e : TotalFees(e.receipts) - ProposerShare(e.receipts))

LEMMA ToldFold == \A c : ExecutionsOf(c) = Told!Folded(<<>>, c)
  BY Zenon DEF ExecutionsOf, FoldLeft, MapThenFoldSet, Max,
               Told!Folded, Told!Iter, Told!IterDef, Told!Max

LEMMA MintedFold == \A txs : RewardsOf(txs) = Minted!Folded(0, txs)
  BY Zenon DEF RewardsOf, SumOver, FoldLeft, MapThenFoldSet, Max,
               Minted!Folded, Minted!Iter, Minted!IterDef, Minted!Max

LEMMA BurningFold == \A c : BurntBy(c) = Burning!Folded(0, c)
  BY Zenon DEF BurntBy, SumOver, FoldLeft, MapThenFoldSet, Max,
               Burning!Folded, Burning!Iter, Burning!IterDef, Burning!Max

-----------------------------------------------------------------------------
(* Sequences.                                                              *)

\* A set of numbers has a least one.
LEMMA LeastNumber ==
  ASSUME NEW U, U \subseteq Nat, U # {}
  PROVE  \E n \in U : \A m \in U : n <= m
<1>. DEFINE V == {n \in Nat : \A m \in U : n <= m}
<1>. SUFFICES ASSUME \A n \in U : n \notin V PROVE FALSE
  OBVIOUS
<1>1. 0 \in V
  OBVIOUS
<1>2. \A n \in Nat : n \in V => n + 1 \in V
  <2>. SUFFICES ASSUME NEW n \in Nat, n \in V, NEW m \in U PROVE n + 1 <= m
    OBVIOUS
  <2>1. n # m /\ n <= m /\ m \in Nat
    OBVIOUS
  <2>. QED
    BY <2>1
<1>3. Nat \subseteq V
  <2>. HIDE DEF V
  <2>. QED
    BY <1>1, <1>2, Ran!SetInduction
<1>4. PICK m \in U : m \in Nat
  OBVIOUS
<1>5. m + 1 \in V
  BY <1>3, <1>4
<1>. QED
  BY <1>4, <1>5

LEMMA MinIs ==
  ASSUME NEW s, NEW n \in s, s \subseteq Int, \A m \in s : n <= m
  PROVE  Min(s) = n
<1>. \A m \in s : (\A k \in s : m <= k) => m = n
  OBVIOUS
<1>. QED
  BY DEF Min

\* Taking out the element at a place.
LEMMA RemovedAt ==
  ASSUME NEW S, NEW s \in Seq(S), NEW k \in 1..Len(s)
  PROVE  /\ RemoveAt(s, k) \in Seq(S)
         /\ Len(RemoveAt(s, k)) = Len(s) - 1
         /\ \A i \in 1..(Len(s) - 1) :
              RemoveAt(s, k)[i] = IF i < k THEN s[i] ELSE s[i + 1]
<1>. DEFINE a == SubSeq(s, 1, k - 1)  b == SubSeq(s, k + 1, Len(s))
<1>0. k \in Nat /\ Len(s) \in Nat /\ 1 <= k /\ k <= Len(s)
  OBVIOUS
<1>1. a \in Seq(S) /\ Len(a) = k - 1 /\ \A i \in 1..(k - 1) : a[i] = s[i]
  BY <1>0
<1>2. b \in Seq(S) /\ Len(b) = Len(s) - k
      /\ \A i \in 1..(Len(s) - k) : b[i] = s[k + i]
  BY <1>0
<1>3. RemoveAt(s, k) = a \o b
  BY DEF RemoveAt
<1>. HIDE DEF a, b
<1>4. /\ a \o b \in Seq(S) /\ Len(a \o b) = Len(a) + Len(b)
      /\ \A i \in 1..Len(a) : (a \o b)[i] = a[i]
      /\ \A i \in 1..Len(b) : (a \o b)[Len(a) + i] = b[i]
  <2>1. a \in Seq(S) /\ b \in Seq(S)
    BY <1>1, <1>2
  <2>. QED
    BY <2>1
<1>5. ASSUME NEW i \in 1..(Len(s) - 1)
      PROVE  (a \o b)[i] = IF i < k THEN s[i] ELSE s[i + 1]
  <2>2. CASE i < k
    <3>1. i \in 1..Len(a) /\ i \in 1..(k - 1)
      BY <1>0, <1>1, <2>2
    <3>. QED
      BY <1>1, <1>4, <2>2, <3>1
  <2>3. CASE i >= k
    <3>. DEFINE m == i - (k - 1)
    <3>1. m \in 1..(Len(s) - k) /\ Len(a) + m = i /\ k + m = i + 1
      BY <1>0, <1>1, <2>3
    <3>. HIDE DEF m
    <3>2. (a \o b)[i] = b[m] /\ b[m] = s[i + 1]
      BY <1>2, <1>4, <3>1
    <3>. QED
      BY <1>0, <2>3, <3>2
  <2>4. i < k \/ i >= k
    BY <1>0
  <2>5. ~ (i < k /\ i >= k)
    BY <1>0
  <2>. QED
    BY <2>2, <2>3, <2>4, <2>5
<1>. QED
  BY <1>0, <1>1, <1>2, <1>3, <1>4, <1>5

\* Map.delete(): one element less, and only that one.
LEMMA RemovesFirst ==
  ASSUME NEW S, NEW s \in Seq(S), NEW e
  PROVE  /\ RemoveFirst(s, e) \in Seq(S)
         /\ ~ Contains(s, e) => RemoveFirst(s, e) = s
         /\ Contains(s, e) => Len(RemoveFirst(s, e)) = Len(s) - 1
         /\ \A x : x # e => (Contains(s, x) => Contains(RemoveFirst(s, e), x))
         /\ \A x : Contains(RemoveFirst(s, e), x) => Contains(s, x)
<1>. DEFINE I == {i \in 1..Len(s) : s[i] = e}
<1>1. CASE Contains(s, e)
  <2>1. I # {} /\ I \subseteq Nat
    BY <1>1 DEF Contains
  <2>2. PICK k \in I : \A m \in I : k <= m
    BY <2>1, LeastNumber
  <2>3. Min(I) = k
    <3>. HIDE DEF I
    <3>1. I \subseteq Int /\ k \in I
      BY <2>1, <2>2
    <3>. QED
      BY <2>2, <3>1, MinIs
  <2>4. RemoveFirst(s, e) = RemoveAt(s, k)
    BY <1>1, <2>1, <2>3, Zenon DEF RemoveFirst, SelectInSeq, Contains
  <2>5. k \in 1..Len(s) /\ s[k] = e
    OBVIOUS
  <2>6. /\ RemoveAt(s, k) \in Seq(S)
        /\ Len(RemoveAt(s, k)) = Len(s) - 1
        /\ \A i \in 1..(Len(s) - 1) :
             RemoveAt(s, k)[i] = IF i < k THEN s[i] ELSE s[i + 1]
    BY <2>5, RemovedAt
  <2>. DEFINE r == RemoveAt(s, k)
  <2>. HIDE DEF r
  <2>7. ASSUME NEW x, x # e, Contains(s, x)
        PROVE  Contains(r, x)
    <3>1. PICK i \in 1..Len(s) : s[i] = x
      BY <2>7 DEF Contains
    <3>2. i # k
      BY <2>5, <2>7, <3>1
    <3>3. CASE i < k
      <4>1. i \in 1..(Len(s) - 1)
        BY <2>5, <3>3
      <4>. QED
        BY <2>6, <3>1, <3>3, <4>1 DEF Contains, r
    <3>4. CASE i > k
      <4>1. i - 1 \in 1..(Len(s) - 1) /\ ~ (i - 1 < k) /\ (i - 1) + 1 = i
        BY <2>5, <3>4
      <4>. QED
        BY <2>6, <3>1, <4>1 DEF Contains, r
    <3>. QED
      BY <2>5, <3>2, <3>3, <3>4
  <2>8. ASSUME NEW x, Contains(r, x)
        PROVE  Contains(s, x)
    <3>1. PICK i \in 1..(Len(s) - 1) : r[i] = x
      BY <2>6, <2>8 DEF Contains, r
    <3>2. i \in 1..Len(s) /\ i + 1 \in 1..Len(s)
      OBVIOUS
    <3>. QED
      BY <2>6, <3>1, <3>2 DEF Contains, r
  <2>. QED
    BY <1>1, <2>4, <2>6, <2>7, <2>8 DEF r
<1>2. CASE ~ Contains(s, e)
  <2>1. RemoveFirst(s, e) = s
    BY <1>2, Zenon DEF RemoveFirst, Contains
  <2>. QED
    BY <1>2, <2>1
<1>. QED
  BY <1>1, <1>2

-----------------------------------------------------------------------------
(* The mempool.                                                            *)

\* commitBlock() takes out of the pool what is in the block, and nothing else.
LEMMA RemovesTheBlock ==
  ASSUME NEW S, pool \in Seq(S), NEW txs \in Seq(S)
  PROVE  /\ Removed(txs) \in Seq(S)
         /\ Len(Removed(txs)) <= Len(pool)
         /\ \A x : Contains(pool, x) /\ ~ Contains(Removed(txs), x) => Contains(txs, x)
         /\ \A x : Contains(Removed(txs), x) => Contains(pool, x)
<1>1. /\ Removed(txs) \in Seq(S) /\ Len(Removed(txs)) <= Len(pool)
      /\ \A x : Contains(Removed(txs), x) => Contains(pool, x)
  <2>. DEFINE A == {s \in Seq(S) : /\ Len(s) <= Len(pool)
                                   /\ \A x : Contains(s, x) => Contains(pool, x)}
  <2>1. pool \in A
    OBVIOUS
  <2>2. \A s \in A, e \in S : RemoveFirst(s, e) \in A
    <3>. SUFFICES ASSUME NEW s \in A, NEW e \in S PROVE RemoveFirst(s, e) \in A
      OBVIOUS
    <3>1. /\ RemoveFirst(s, e) \in Seq(S)
          /\ ~ Contains(s, e) => RemoveFirst(s, e) = s
          /\ Contains(s, e) => Len(RemoveFirst(s, e)) = Len(s) - 1
          /\ \A x : Contains(RemoveFirst(s, e), x) => Contains(s, x)
      BY RemovesFirst
    <3>2. Len(RemoveFirst(s, e)) <= Len(pool)
      <4>1. Len(s) \in Nat /\ Len(pool) \in Nat /\ Len(s) <= Len(pool)
        OBVIOUS
      <4>. QED
        BY <3>1, <4>1
    <3>. QED
      BY <3>1, <3>2
  <2>3. Taken!Folded(pool, txs) \in A
    <3>. HIDE DEF A
    <3>. QED
      BY <2>1, <2>2, Taken!FoldType
  <2>. QED
    BY <2>3, TakenFold
<1>2. ASSUME NEW x, Contains(pool, x), ~ Contains(txs, x)
      PROVE  Contains(Removed(txs), x)
  <2>. DEFINE A == {s \in Seq(S) : Contains(s, x)}
  <2>1. pool \in A
    BY <1>2
  <2>2. txs \in Seq(S \ {x})
    <3>1. \A i \in 1..Len(txs) : txs[i] \in S \ {x}
      BY <1>2 DEF Contains
    <3>. QED
      BY <3>1
  <2>3. \A s \in A, e \in S \ {x} : RemoveFirst(s, e) \in A
    BY RemovesFirst
  <2>4. Taken!Folded(pool, txs) \in A
    <3>. HIDE DEF A
    <3>. QED
      BY <2>1, <2>2, <2>3, Taken!FoldType
  <2>. QED
    BY <2>4, TakenFold
<1>. QED
  BY <1>1, <1>2

\* getTransactions() gives transactions of the pool.
LEMMA ByPriceType ==
  ASSUME NEW S, pool \in Seq(S)
  PROVE  ByPrice \in Seq(S)
<1>1. \A s \in Seq(S), x \in S : Placed(s, x) \in Seq(S)
  <2>. SUFFICES ASSUME NEW s \in Seq(S), NEW x \in S PROVE Placed(s, x) \in Seq(S)
    OBVIOUS
  <2>. DEFINE D == {i \in DOMAIN s : s[i].price >= x.price}
              k == Cardinality(D)
  <2>1. IsFiniteSet(1..Len(s)) /\ Cardinality(1..Len(s)) = Len(s)
    <3>1. 1 \in Int /\ Len(s) \in Int /\ Len(s) >= 0
      OBVIOUS
    <3>2. /\ IsFiniteSet(1..Len(s))
          /\ Cardinality(1..Len(s)) = IF 1 > Len(s) THEN 0 ELSE Len(s) - 1 + 1
      BY <3>1, FS_Interval
    <3>. QED
      BY <3>1, <3>2
  <2>2. D \subseteq 1..Len(s)
    OBVIOUS
  <2>. HIDE DEF D
  <2>3. k \in Nat /\ k <= Len(s)
    BY <2>1, <2>2, FS_Subset, FS_CardinalityType
  <2>4. Placed(s, x) = SubSeq(s, 1, (k + 1) - 1) \o <<x>> \o SubSeq(s, k + 1, Len(s))
    BY DEF Placed, InsertAt, D
  <2>. HIDE DEF k
  <2>5. SubSeq(s, 1, (k + 1) - 1) \in Seq(S) /\ SubSeq(s, k + 1, Len(s)) \in Seq(S)
    <3>1. Len(s) \in Nat
      OBVIOUS
    <3>. QED
      BY <2>3, <3>1
  <2>. QED
    BY <2>4, <2>5
<1>2. <<>> \in Seq(S)
  OBVIOUS
<1>3. Sorted!Folded(<<>>, pool) \in Seq(S)
  BY <1>1, <1>2, Sorted!FoldType
<1>. QED
  BY <1>3, SortedFold

\* getLowestFeeTransaction() finds one.
LEMMA LowestIs ==
  ASSUME NEW S, pool \in Seq(S), \A x \in S : x.price \in Nat, pool # <<>>
  PROVE  /\ Contains(pool, Lowest) /\ Lowest \in S
         /\ \A i \in DOMAIN pool : Lowest.price <= pool[i].price
<1>0. DOMAIN pool = 1..Len(pool) /\ Len(pool) \in Nat /\ Len(pool) # 0
      /\ \A i \in 1..Len(pool) : pool[i] \in S
  OBVIOUS
<1>. DEFINE P == {pool[i].price : i \in DOMAIN pool}
<1>1. P \subseteq Nat /\ P # {}
  <2>1. 1 \in DOMAIN pool
    BY <1>0
  <2>. QED
    BY <1>0, <2>1
<1>2. PICK p \in P : \A q \in P : p <= q
  BY <1>1, LeastNumber
<1>. DEFINE I == {i \in DOMAIN pool : pool[i].price = p}
<1>3. I \subseteq Nat /\ I # {}
  BY <1>0, <1>2
<1>4. PICK i \in I : \A k \in I : i <= k
  BY <1>3, LeastNumber
<1>5. /\ i \in DOMAIN pool
      /\ \A k \in DOMAIN pool : pool[i].price <= pool[k].price
      /\ \A k \in 1..(i - 1) : pool[i].price < pool[k].price
  <2>1. i \in 1..Len(pool) /\ pool[i].price = p /\ p \in Nat
    BY <1>0, <1>1, <1>2
  <2>2. \A k \in DOMAIN pool : p <= pool[k].price
    BY <1>2
  <2>3. ASSUME NEW k \in 1..(i - 1) PROVE p < pool[k].price
    <3>1. k \in 1..Len(pool) /\ ~ (i <= k)
      BY <2>1
    <3>2. k \notin I
      BY <1>4, <3>1
    <3>3. pool[k].price # p /\ p <= pool[k].price /\ pool[k].price \in Nat
      BY <1>0, <2>2, <3>1, <3>2
    <3>. QED
      BY <2>1, <3>3
  <2>. QED
    BY <1>0, <2>1, <2>2, <2>3
<1>. DEFINE L(n) == /\ \A k \in DOMAIN pool : pool[n].price <= pool[k].price
                    /\ \A k \in 1..(n - 1) : pool[n].price < pool[k].price
            c == CHOOSE n \in DOMAIN pool : L(n)
<1>6. c \in DOMAIN pool /\ L(c)
  <2>1. \E n \in DOMAIN pool : L(n)
    BY <1>5
  <2>. HIDE DEF L
  <2>. QED
    BY <2>1
<1>7. Lowest = pool[c]
  BY DEF Lowest
<1>. HIDE DEF c
<1>. QED
  BY <1>0, <1>6, <1>7 DEF Contains

-----------------------------------------------------------------------------
(* Types.  The pool holds transactions of a set P; blocks hold coinbases   *)
(* besides.                                                                *)

Coinbases    == {Coinbase(p, h) : p \in {Self, Peer}, h \in Nat}
Held(P)      == P \cup Coinbases
BlocksOf(P)  == [height : Nat, proposer : {Self, Peer}, txs : Seq(Held(P)),
                 root : Tries]
EntriesOf(P) == [block : BlocksOf(P), receipts : Seq(Held(P))]
ActiveOf(P)  == [kind : Kinds, phase : Phases, block : BlocksOf(P) \cup {Idle},
                 todo : Seq(Held(P)), done : Seq(Held(P)), writes : Seq(WriteRecords)]

\* A job has a block, but for a proposal that is still executing.
JobsOf(P) ==
  {Idle} \cup
  {job \in ActiveOf(P) : \/ job.block \in BlocksOf(P)
                         \/ job.kind = "propose" /\ job.phase = "executing"}

ExecutionTypes(P) ==
  /\ trie \in Tries
  /\ stack \in Seq(Tries)
  /\ jobs \in [Jobs -> JobsOf(P)]
  /\ pending \subseteq BlocksOf(P)
  /\ chain \in Seq(EntriesOf(P))
  /\ validators \subseteq Addresses
  /\ slashed \subseteq Addresses
  /\ updating \in BOOLEAN
  /\ lost \in 0..MaxLost

PoolTypes(P) ==
  /\ pool \in Seq(P)
  /\ adding \subseteq P
  /\ Len(pool) <= MaxPool

NodeTypes(P) == ExecutionTypes(P) /\ PoolTypes(P)

LEMMA HeldType ==
  ASSUME NEW P, P \subseteq Transactions
  PROVE  Held(P) \subseteq Transactions /\ Coinbases \subseteq Transactions
<1>1. ASSUME NEW p \in {Self, Peer}, NEW h \in Nat
      PROVE  Coinbase(p, h) \in Transactions
  <2>1. /\ p \in Addresses /\ System \in Addresses /\ BaseGas \in Nat /\ Reward \in Nat
        /\ 0 \in Nat /\ "none" \in Commands
    BY LedgerAssumption, NodeAssumption DEF Commands
  <2>. QED
    BY <2>1 DEF Coinbase, Transactions
<1>. QED
  BY <1>1 DEF Held, Coinbases

LEMMA SeqsGrow ==
  ASSUME NEW S, NEW T, S \subseteq T
  PROVE  Seq(S) \subseteq Seq(T)
<1>. SUFFICES ASSUME NEW s \in Seq(S) PROVE s \in Seq(T)
  OBVIOUS
<1>1. \A i \in 1..Len(s) : s[i] \in T
  OBVIOUS
<1>. QED
  BY <1>1

LEMMA AddBlockType ==
  ASSUME NEW P, P \subseteq Transactions, NEW t \in Tries, NEW e \in EntriesOf(P)
  PROVE  AddBlock(t, e) \in Tries
<1>. DEFINE u == ExecuteAll(t, e.receipts)
<1>1. /\ e.receipts \in Seq(Transactions)
      /\ e.block.proposer \in Addresses
  <2>1. e.receipts \in Seq(Held(P)) /\ e.block.proposer \in {Self, Peer}
    BY DEF EntriesOf, BlocksOf
  <2>2. Seq(Held(P)) \subseteq Seq(Transactions)
    BY HeldType, SeqsGrow
  <2>. QED
    BY <2>1, <2>2, NodeAssumption
<1>2. u \in Tries
  BY <1>1, ExecuteAllType
<1>3. AddBlock(t, e) = FoldLeft(Write, u, ShareWrites(u, e.block.proposer, e.receipts))
  BY DEF AddBlock
<1>. HIDE DEF u
<1>. QED
  BY <1>1, <1>2, <1>3, Shared

LEMMA AfterType ==
  ASSUME NEW P, P \subseteq Transactions, NEW c \in Seq(EntriesOf(P))
  PROVE  After(c) \in Tries
<1>1. \A t \in Tries, e \in EntriesOf(P) : AddBlock(t, e) \in Tries
  BY AddBlockType
<1>2. Base \in Tries
  BY NodeAssumption
<1>3. Grown!Folded(Base, c) \in Tries
  BY <1>1, <1>2, Grown!FoldType
<1>. QED
  BY <1>3, GrownFold

\* A block more.
LEMMA AfterBlock ==
  ASSUME NEW S, NEW c \in Seq(S), NEW e \in S
  PROVE  After(Append(c, e)) = AddBlock(After(c), e)
  BY GrownFold, Grown!FoldAppend

LEMMA AfterNothing == After(<<>>) = Base
  BY GrownFold, Grown!FoldEmpty

\* What the peers send.
LEMMA PeerBlocksType ==
  ASSUME NEW P, Txs \subseteq P, P \subseteq Transactions, chain \in Seq(EntriesOf(P))
  PROVE  PeerBlocks \subseteq BlocksOf(P)
<1>. DEFINE h == Len(chain) + 1
            picks == UNION {{s \in [1..n -> Txs] : IsInjective(s)} : n \in 0..MaxBatch}
            Made(base, s) == ValidTxs(base, <<Coinbase(Peer, h)>> \o s)
            Built(base, s) == [height |-> h, proposer |-> Peer, txs |-> Made(base, s),
                               root |-> ExecuteAll(base, Made(base, s))]
<1>0. MaxBatch \in Nat /\ h \in Nat /\ Genesis \in Tries
  BY NodeAssumption
<1>1. ASSUME NEW base \in {After(chain), Genesis}, NEW s \in picks
      PROVE  Built(base, s) \in BlocksOf(P)
  <2>1. s \in Seq(Held(P))
    <3>1. PICK n \in 0..MaxBatch : s \in [1..n -> Txs]
      OBVIOUS
    <3>2. n \in Nat /\ s \in [1..n -> Held(P)]
      BY <1>0, <3>1 DEF Held
    <3>. QED
      BY <3>2
  <2>2. <<Coinbase(Peer, h)>> \in Seq(Held(P))
    BY <1>0 DEF Held, Coinbases
  <2>. HIDE DEF h, picks
  <2>3. <<Coinbase(Peer, h)>> \o s \in Seq(Held(P))
    BY <2>1, <2>2
  <2>4. base \in Tries
    BY <1>0, AfterType
  <2>5. Made(base, s) \in Seq(Held(P))
    BY <2>3, <2>4, HeldType, ValidTxsOf
  <2>6. Made(base, s) \in Seq(Transactions)
    <3>1. Seq(Held(P)) \subseteq Seq(Transactions)
      BY HeldType, SeqsGrow
    <3>. QED
      BY <2>5, <3>1
  <2>. DEFINE m == Made(base, s)
  <2>. HIDE DEF m
  <2>7. ExecuteAll(base, m) \in Tries
    BY <2>4, <2>6, ExecuteAllType DEF m
  <2>. QED
    BY <1>0, <2>5, <2>7 DEF BlocksOf, m
<1>2. PeerBlocks = {Built(base, s) : base \in {After(chain), Genesis}, s \in picks}
  BY DEF PeerBlocks
<1>. HIDE DEF picks, Built
<1>. QED
  BY <1>1, <1>2

\* What a proposal starts from.
LEMMA PayloadsType ==
  ASSUME NEW P, P \subseteq Transactions, chain \in Seq(EntriesOf(P)), pool \in Seq(P),
         pending \subseteq BlocksOf(P), NEW txs \in Payloads
  PROVE  txs \in Seq(Held(P))
<1>1. CASE txs = <<Coinbase(Self, Len(chain) + 1)>> \o ByPrice
  <2>1. ByPrice \in Seq(Held(P))
    BY ByPriceType, SeqsGrow DEF Held
  <2>2. Coinbase(Self, Len(chain) + 1) \in Held(P)
    <3>1. Len(chain) + 1 \in Nat
      OBVIOUS
    <3>. QED
      BY <3>1 DEF Held, Coinbases
  <2>. QED
    BY <1>1, <2>1, <2>2
<1>2. CASE txs \in {b.txs : b \in pending}
  BY <1>2 DEF BlocksOf
<1>. QED
  BY <1>1, <1>2 DEF Payloads

\* A job that is under way.
LEMMA JobFields ==
  ASSUME NEW P, NEW job \in JobsOf(P), job # Idle
  PROVE  /\ job \in ActiveOf(P)
         /\ job.kind \in Kinds /\ job.phase \in Phases
         /\ job.todo \in Seq(Held(P)) /\ job.done \in Seq(Held(P))
         /\ job.writes \in Seq(WriteRecords)
         /\ (job.kind = "propose" /\ job.phase = "executing") \/ job.block \in BlocksOf(P)
         /\ job = [kind |-> job.kind, phase |-> job.phase, block |-> job.block,
                   todo |-> job.todo, done |-> job.done, writes |-> job.writes]
  BY DEF JobsOf, ActiveOf

LEMMA StartedType ==
  ASSUME NEW P, NEW kind \in Kinds, NEW phase \in Phases, NEW txs \in Seq(Held(P)), NEW b,
         b \in BlocksOf(P) \/ (b = Idle /\ kind = "propose" /\ phase = "executing")
  PROVE  Started(kind, phase, b, txs) \in JobsOf(P)
<1>1. <<>> \in Seq(Held(P)) /\ <<>> \in Seq(WriteRecords)
  OBVIOUS
<1>2. Started(kind, phase, b, txs) \in ActiveOf(P)
  BY <1>1 DEF Started, ActiveOf
<1>. QED
  BY <1>2 DEF Started, JobsOf

LEMMA CheckpointTypes ==
  ASSUME trie \in Tries, stack \in Seq(Tries), Checkpoint
  PROVE  trie' \in Tries /\ stack' \in Seq(Tries)
  BY DEF Checkpoint

LEMMA RevertTypes ==
  ASSUME trie \in Tries, stack \in Seq(Tries), NEW n \in Nat, Revert(n)
  PROVE  trie' \in Tries /\ stack' \in Seq(Tries)
<1>. DEFINE kept == IF n > Len(stack) THEN 0 ELSE Len(stack) - n
<1>1. kept \in Nat /\ kept <= Len(stack)
  OBVIOUS
<1>2. /\ trie' = IF kept < Len(stack) THEN stack[kept + 1] ELSE trie
      /\ stack' = SubSeq(stack, 1, kept)
  BY DEF Revert
<1>. HIDE DEF kept
<1>3. stack' \in Seq(Tries)
  BY <1>1, <1>2
<1>4. kept < Len(stack) => stack[kept + 1] \in Tries
  BY <1>1
<1>. QED
  BY <1>2, <1>3, <1>4

LEMMA EnteredTypes ==
  ASSUME NEW P, P \subseteq Transactions, PoolTypes(P), NEW tx \in P, pool' = Entered(tx)
  PROVE  pool' \in Seq(P) /\ Len(pool') <= MaxPool
<1>0. MaxPool \in Nat /\ MaxPool # 0 /\ pool \in Seq(P) /\ Len(pool) <= MaxPool
  BY PoolAssumption DEF PoolTypes
<1>1. CASE ~ Admits(tx)
  BY <1>0, <1>1 DEF Entered
<1>2. CASE Admits(tx) /\ Len(pool) < MaxPool
  <2>1. pool' = Append(pool, tx)
    BY <1>0, <1>2 DEF Entered
  <2>. QED
    BY <1>0, <1>2, <2>1
<1>3. CASE Admits(tx) /\ Len(pool) >= MaxPool
  <2>1. pool' = Append(RemoveFirst(pool, Lowest), tx)
    BY <1>3 DEF Entered
  <2>2. Contains(pool, Lowest)
    <3>1. \A x \in P : x.price \in Nat
      BY DEF Transactions
    <3>2. pool # <<>>
      BY <1>0, <1>3
    <3>. QED
      BY <1>0, <3>1, <3>2, LowestIs
  <2>3. RemoveFirst(pool, Lowest) \in Seq(P)
        /\ Len(RemoveFirst(pool, Lowest)) = Len(pool) - 1
    BY <1>0, <2>2, RemovesFirst
  <2>. QED
    BY <1>0, <2>1, <2>3
<1>. QED
  BY <1>0, <1>1, <1>2, <1>3

-----------------------------------------------------------------------------
(* Each action keeps the types.                                            *)

LEMMA TxExecutedTypes ==
  ASSUME NEW P, P \subseteq Transactions, ExecutionTypes(P), NEW j \in Jobs, TxExecuted(j)
  PROVE  ExecutionTypes(P)'
<1>. DEFINE job == jobs[j]
            tx  == Head(job.todo)
            new == [job EXCEPT
                      !.todo = Tail(@),
                      !.done = IF Valid(trie, tx) THEN Append(@, tx) ELSE @,
                      !.writes = IF Valid(trie, tx) THEN Writes(trie, tx) ELSE <<>>]
<1>1. job \in JobsOf(P) /\ job # Idle /\ job.todo # <<>> /\ job.phase = "executing"
  BY DEF ExecutionTypes, TxExecuted, Executing
<1>2. /\ job.todo \in Seq(Held(P)) /\ job.done \in Seq(Held(P))
      /\ job = [kind |-> job.kind, phase |-> job.phase, block |-> job.block,
                todo |-> job.todo, done |-> job.done, writes |-> job.writes]
      /\ job \in ActiveOf(P)
      /\ (job.kind = "propose" /\ job.phase = "executing") \/ job.block \in BlocksOf(P)
  BY <1>1, JobFields
<1>3. tx \in Held(P) /\ tx \in Transactions /\ Tail(job.todo) \in Seq(Held(P))
  BY <1>1, <1>2, HeldType
<1>4. jobs' = [jobs EXCEPT ![j] = new]
  BY DEF TxExecuted, ExecutionTypes
<1>5. trie \in Tries
  BY DEF ExecutionTypes
<1>. DEFINE d == IF Valid(trie, tx) THEN Append(job.done, tx) ELSE job.done
            w == IF Valid(trie, tx) THEN Writes(trie, tx) ELSE <<>>
<1>6. d \in Seq(Held(P))
  BY <1>2, <1>3
<1>7. w \in Seq(WriteRecords)
  BY <1>3, <1>5, WritesType
<1>8. new = [kind |-> job.kind, phase |-> job.phase, block |-> job.block,
             todo |-> Tail(job.todo), done |-> d, writes |-> w]
  <2>. HIDE DEF job
  <2>1. new = [job EXCEPT !.todo = Tail(job.todo), !.done = d, !.writes = w]
    BY <1>2 DEF ActiveOf
  <2>. HIDE DEF new, d, w
  <2>. QED
    BY <1>2, <2>1
<1>. HIDE DEF d, w, new
<1>9. new \in JobsOf(P)
  BY <1>2, <1>3, <1>6, <1>7, <1>8 DEF JobsOf, ActiveOf
<1>10. jobs' \in [Jobs -> JobsOf(P)]
  BY <1>4, <1>9 DEF ExecutionTypes
<1>. QED
  BY <1>10 DEF ExecutionTypes, TxExecuted, stateVars, headVars, setVars

LEMMA TxLostTypes ==
  ASSUME NEW P, P \subseteq Transactions, ExecutionTypes(P), NEW j \in Jobs, TxLost(j)
  PROVE  ExecutionTypes(P)'
<1>. DEFINE job == jobs[j]
            new == [job EXCEPT !.todo = Tail(@)]
<1>1. job \in JobsOf(P) /\ job # Idle /\ job.todo # <<>>
  BY DEF ExecutionTypes, TxLost, Executing
<1>2. /\ job.todo \in Seq(Held(P)) /\ job \in ActiveOf(P)
      /\ (job.kind = "propose" /\ job.phase = "executing") \/ job.block \in BlocksOf(P)
  BY <1>1, JobFields
<1>3. Tail(job.todo) \in Seq(Held(P))
  BY <1>1, <1>2
<1>4. jobs' = [jobs EXCEPT ![j] = new]
  BY DEF TxLost, ExecutionTypes
<1>5. new \in JobsOf(P)
  BY <1>2, <1>3 DEF JobsOf, ActiveOf
<1>. HIDE DEF new
<1>6. jobs' \in [Jobs -> JobsOf(P)]
  BY <1>4, <1>5 DEF ExecutionTypes
<1>7. lost' \in 0..MaxLost
  BY NodeAssumption DEF TxLost, ExecutionTypes
<1>. QED
  BY <1>6, <1>7 DEF ExecutionTypes, TxLost, stateVars, headVars, setVars

LEMMA WritingTypes ==
  ASSUME NEW P, P \subseteq Transactions, ExecutionTypes(P), NEW j \in Jobs, Writing(j)
  PROVE  ExecutionTypes(P)'
<1>. DEFINE job == jobs[j]
            new == [job EXCEPT !.writes = Tail(@)]
<1>1. job \in JobsOf(P) /\ job # Idle /\ job.writes # <<>>
  BY DEF ExecutionTypes, Writing
<1>2. /\ job.writes \in Seq(WriteRecords) /\ job \in ActiveOf(P)
      /\ (job.kind = "propose" /\ job.phase = "executing") \/ job.block \in BlocksOf(P)
  BY <1>1, JobFields
<1>3. Tail(job.writes) \in Seq(WriteRecords) /\ Head(job.writes) \in WriteRecords
  BY <1>1, <1>2
<1>4. jobs' = [jobs EXCEPT ![j] = new]
  BY DEF Writing, ExecutionTypes
<1>5. new \in JobsOf(P)
  BY <1>2, <1>3 DEF JobsOf, ActiveOf
<1>. HIDE DEF new
<1>6. jobs' \in [Jobs -> JobsOf(P)]
  BY <1>4, <1>5 DEF ExecutionTypes
<1>7. trie' \in Tries
  BY <1>3, WriteType DEF Writing, ExecutionTypes
<1>. QED
  BY <1>6, <1>7 DEF ExecutionTypes, Writing, headVars, setVars

LEMMA ProposeStartsTypes ==
  ASSUME NEW P, P \subseteq Transactions, NodeTypes(P), NEW j \in Jobs, ProposeStarts(j)
  PROVE  ExecutionTypes(P)'
<1>1. PICK txs \in Payloads :
        jobs' = [jobs EXCEPT ![j] = Started("propose", "executing", Idle, txs)]
  BY DEF ProposeStarts
<1>2. txs \in Seq(Held(P))
  BY PayloadsType DEF NodeTypes, ExecutionTypes, PoolTypes
<1>3. Started("propose", "executing", Idle, txs) \in JobsOf(P)
  <2>1. "propose" \in Kinds /\ "executing" \in Phases
    BY DEF Kinds, Phases
  <2>. QED
    BY <1>2, <2>1, StartedType
<1>4. jobs' \in [Jobs -> JobsOf(P)]
  BY <1>1, <1>3 DEF NodeTypes, ExecutionTypes
<1>5. trie' \in Tries /\ stack' \in Seq(Tries)
  BY CheckpointTypes DEF ProposeStarts, NodeTypes, ExecutionTypes
<1>. QED
  BY <1>4, <1>5 DEF NodeTypes, ExecutionTypes, ProposeStarts, headVars, setVars

LEMMA ProposeExecutedTypes ==
  ASSUME NEW P, P \subseteq Transactions, ExecutionTypes(P), NEW j \in Jobs,
         ProposeExecuted(j)
  PROVE  ExecutionTypes(P)'
<1>. DEFINE job == jobs[j]
            b   == [height |-> Len(chain) + 1, proposer |-> Self, txs |-> job.done,
                    root |-> trie]
            new == [job EXCEPT !.phase = "publishing", !.block = b]
<1>1. job \in JobsOf(P) /\ job # Idle
  BY DEF ExecutionTypes, ProposeExecuted, Executed, Executing
<1>2. job.done \in Seq(Held(P)) /\ job \in ActiveOf(P)
  BY <1>1, JobFields
<1>3. b \in BlocksOf(P)
  <2>1. Len(chain) + 1 \in Nat /\ trie \in Tries
    BY DEF ExecutionTypes
  <2>. QED
    BY <1>2, <2>1 DEF BlocksOf
<1>4. jobs' = [jobs EXCEPT ![j] = new]
  BY DEF ProposeExecuted, ExecutionTypes
<1>. HIDE DEF b
<1>5. new \in JobsOf(P)
  BY <1>2, <1>3 DEF JobsOf, ActiveOf, Phases
<1>. HIDE DEF new
<1>6. jobs' \in [Jobs -> JobsOf(P)]
  BY <1>4, <1>5 DEF ExecutionTypes
<1>. QED
  BY <1>6 DEF ExecutionTypes, ProposeExecuted, stateVars, headVars, setVars

LEMMA ProposePublishedTypes ==
  ASSUME NEW P, P \subseteq Transactions, ExecutionTypes(P), NEW j \in Jobs,
         ProposePublished(j)
  PROVE  ExecutionTypes(P)'
<1>. DEFINE job == jobs[j]
            new == IF stack = <<>> THEN Idle
                   ELSE Started("verify", "waiting", job.block, job.block.txs)
<1>1. job \in JobsOf(P) /\ job # Idle /\ job.phase = "publishing"
  BY DEF ExecutionTypes, ProposePublished, In
<1>2. job.block \in BlocksOf(P)
  BY <1>1, JobFields
<1>3. job.block.txs \in Seq(Held(P))
  BY <1>2 DEF BlocksOf
<1>4. jobs' = [jobs EXCEPT ![j] = new]
  BY DEF ProposePublished, ExecutionTypes
<1>5. new \in JobsOf(P)
  <2>1. "verify" \in Kinds /\ "waiting" \in Phases
    BY DEF Kinds, Phases
  <2>2. Started("verify", "waiting", job.block, job.block.txs) \in JobsOf(P)
    BY <1>2, <1>3, <2>1, StartedType
  <2>. QED
    BY <2>2 DEF JobsOf
<1>. HIDE DEF new
<1>6. jobs' \in [Jobs -> JobsOf(P)]
  BY <1>4, <1>5 DEF ExecutionTypes
<1>7. trie' \in Tries /\ stack' \in Seq(Tries)
  BY RevertTypes DEF ProposePublished, ExecutionTypes
<1>. QED
  BY <1>6, <1>7 DEF ExecutionTypes, ProposePublished, headVars, setVars

LEMMA BlockArrivesTypes ==
  ASSUME NEW P, Txs \subseteq P, P \subseteq Transactions, ExecutionTypes(P),
         NEW j \in Jobs, BlockArrives(j)
  PROVE  ExecutionTypes(P)'
<1>1. PICK b \in PeerBlocks :
        jobs' = [jobs EXCEPT ![j] = Started("verify", "waiting", b, b.txs)]
  BY DEF BlockArrives
<1>2. b \in BlocksOf(P)
  BY PeerBlocksType DEF ExecutionTypes
<1>3. Started("verify", "waiting", b, b.txs) \in JobsOf(P)
  <2>1. "verify" \in Kinds /\ "waiting" \in Phases /\ b.txs \in Seq(Held(P))
    BY <1>2 DEF Kinds, Phases, BlocksOf
  <2>. QED
    BY <1>2, <2>1, StartedType
<1>4. jobs' \in [Jobs -> JobsOf(P)]
  BY <1>1, <1>3 DEF ExecutionTypes
<1>. QED
  BY <1>4 DEF ExecutionTypes, BlockArrives, stateVars, headVars, setVars

LEMMA VerifyStartsTypes ==
  ASSUME NEW P, P \subseteq Transactions, ExecutionTypes(P), NEW j \in Jobs, VerifyStarts(j)
  PROVE  ExecutionTypes(P)'
<1>. DEFINE job == jobs[j]
            new == [job EXCEPT !.phase = "executing"]
<1>1. job \in JobsOf(P) /\ job # Idle /\ job.phase = "waiting"
  BY DEF ExecutionTypes, VerifyStarts, In
<1>2. job.block \in BlocksOf(P) /\ job \in ActiveOf(P)
  BY <1>1, JobFields
<1>3. new \in JobsOf(P) /\ Idle \in JobsOf(P)
  BY <1>2 DEF JobsOf, ActiveOf, Phases
<1>4. jobs' = [jobs EXCEPT ![j] = Idle] \/ jobs' = [jobs EXCEPT ![j] = new]
  BY DEF VerifyStarts, ExecutionTypes
<1>. HIDE DEF new
<1>5. jobs' \in [Jobs -> JobsOf(P)]
  BY <1>3, <1>4 DEF ExecutionTypes
<1>6. trie' \in Tries /\ stack' \in Seq(Tries)
  BY CheckpointTypes DEF VerifyStarts, ExecutionTypes, stateVars
<1>. QED
  BY <1>5, <1>6 DEF ExecutionTypes, VerifyStarts, headVars, setVars

LEMMA VerifyExecutedTypes ==
  ASSUME NEW P, P \subseteq Transactions, ExecutionTypes(P), NEW j \in Jobs,
         VerifyExecuted(j)
  PROVE  ExecutionTypes(P)'
<1>1. jobs[j] \in JobsOf(P) /\ jobs[j] # Idle /\ jobs[j].kind = "verify"
  BY DEF ExecutionTypes, VerifyExecuted, Executed, Executing
<1>2. jobs[j].block \in BlocksOf(P)
  BY <1>1, JobFields
<1>3. pending' \subseteq BlocksOf(P)
  BY <1>2 DEF VerifyExecuted, ExecutionTypes
<1>4. jobs' \in [Jobs -> JobsOf(P)]
  BY DEF VerifyExecuted, ExecutionTypes, JobsOf
<1>5. trie' \in Tries /\ stack' \in Seq(Tries)
  BY RevertTypes DEF VerifyExecuted, ExecutionTypes
<1>. QED
  BY <1>3, <1>4, <1>5 DEF ExecutionTypes, VerifyExecuted, setVars

LEMMA CommitStartsTypes ==
  ASSUME NEW P, P \subseteq Transactions, ExecutionTypes(P), NEW j \in Jobs, CommitStarts(j)
  PROVE  ExecutionTypes(P)'
<1>1. PICK b \in pending :
        jobs' = [jobs EXCEPT ![j] = Started("commit", "executing", b, b.txs)]
  BY DEF CommitStarts
<1>2. b \in BlocksOf(P)
  BY DEF ExecutionTypes
<1>3. Started("commit", "executing", b, b.txs) \in JobsOf(P)
  <2>1. "commit" \in Kinds /\ "executing" \in Phases /\ b.txs \in Seq(Held(P))
    BY <1>2 DEF Kinds, Phases, BlocksOf
  <2>. QED
    BY <1>2, <2>1, StartedType
<1>4. jobs' \in [Jobs -> JobsOf(P)]
  BY <1>1, <1>3 DEF ExecutionTypes
<1>5. trie' \in Tries /\ stack' \in Seq(Tries)
  BY CheckpointTypes DEF CommitStarts, ExecutionTypes
<1>. QED
  BY <1>4, <1>5 DEF ExecutionTypes, CommitStarts, headVars, setVars

LEMMA CommitExecutedTypes ==
  ASSUME NEW P, P \subseteq Transactions, ExecutionTypes(P), NEW j \in Jobs,
         CommitExecuted(j)
  PROVE  ExecutionTypes(P)'
<1>. DEFINE job == jobs[j]
            ws  == ShareWrites(trie, job.block.proposer, job.done)
            new == [job EXCEPT !.phase = "sharing", !.writes = ws]
<1>1. job \in JobsOf(P) /\ job # Idle /\ job.kind = "commit"
  BY DEF ExecutionTypes, CommitExecuted, Executed, Executing
<1>2. job.block \in BlocksOf(P) /\ job \in ActiveOf(P) /\ job.done \in Seq(Held(P))
  BY <1>1, JobFields
<1>3. ws \in Seq(WriteRecords)
  <2>1. job.block.proposer \in Addresses /\ trie \in Tries
    BY <1>2, NodeAssumption DEF BlocksOf, ExecutionTypes
  <2>2. job.done \in Seq(Transactions)
    BY <1>2, HeldType, SeqsGrow
  <2>. QED
    BY <2>1, <2>2, Shared
<1>4. jobs' = [jobs EXCEPT ![j] = new]
  BY DEF CommitExecuted, ExecutionTypes
<1>. HIDE DEF ws
<1>5. new \in JobsOf(P)
  BY <1>2, <1>3 DEF JobsOf, ActiveOf, Phases
<1>. HIDE DEF new
<1>6. jobs' \in [Jobs -> JobsOf(P)]
  BY <1>4, <1>5 DEF ExecutionTypes
<1>. QED
  BY <1>6 DEF ExecutionTypes, CommitExecuted, stateVars, headVars, setVars

LEMMA StateCommittedTypes ==
  ASSUME NEW P, P \subseteq Transactions, ExecutionTypes(P), NEW j \in Jobs,
         StateCommitted(j)
  PROVE  ExecutionTypes(P)'
<1>. DEFINE job == jobs[j]
            new == IF stack = <<>> THEN Idle ELSE [job EXCEPT !.phase = "saving"]
<1>1. job \in JobsOf(P) /\ job # Idle /\ job.kind = "commit"
  BY DEF ExecutionTypes, StateCommitted, In
<1>2. job.block \in BlocksOf(P) /\ job \in ActiveOf(P)
  BY <1>1, JobFields
<1>3. [job EXCEPT !.phase = "saving"] \in JobsOf(P) /\ Idle \in JobsOf(P)
  BY <1>2 DEF JobsOf, ActiveOf, Phases
<1>4. jobs' = [jobs EXCEPT ![j] = new]
  BY DEF StateCommitted, ExecutionTypes
<1>5. jobs' \in [Jobs -> JobsOf(P)]
  BY <1>3, <1>4 DEF ExecutionTypes
<1>6. stack' \in Seq(Tries)
  BY DEF StateCommitted, ExecutionTypes, Front
<1>. QED
  BY <1>5, <1>6 DEF ExecutionTypes, StateCommitted, headVars, setVars

LEMMA ValidatorsType ==
  ASSUME trie \in Tries, validators \subseteq Addresses
  PROVE  Validators(ActiveStakers(trie)) \subseteq Addresses
<1>1. trie[Staking].storage \in Storages
  BY LedgerAssumption DEF Tries, Accounts
<1>2. ActiveStakers(trie) \subseteq Addresses
  BY <1>1 DEF ActiveStakers, Storages
<1>. QED
  BY <1>2 DEF Validators

LEMMA CommitSavedTypes ==
  ASSUME NEW P, P \subseteq Transactions, ExecutionTypes(P), NEW j \in Jobs, CommitSaved(j)
  PROVE  ExecutionTypes(P)'
<1>. DEFINE e == [block |-> jobs[j].block, receipts |-> jobs[j].done]
<1>1. jobs[j] \in JobsOf(P) /\ jobs[j] # Idle /\ jobs[j].kind = "commit"
  BY DEF ExecutionTypes, CommitSaved, In
<1>2. e \in EntriesOf(P)
  BY <1>1, JobFields DEF EntriesOf
<1>3. chain' \in Seq(EntriesOf(P))
  <2>. HIDE DEF e
  <2>1. chain' = Append(chain, e)
    BY DEF CommitSaved, e
  <2>. QED
    BY <1>2, <2>1 DEF ExecutionTypes
<1>4. jobs' \in [Jobs -> JobsOf(P)]
  BY DEF CommitSaved, ExecutionTypes, JobsOf
<1>5. validators' \subseteq Addresses
  BY ValidatorsType DEF CommitSaved, ExecutionTypes
<1>. QED
  BY <1>3, <1>4, <1>5 DEF ExecutionTypes, CommitSaved, stateVars

LEMMA ValidatorsTypes ==
  ASSUME NEW P, ExecutionTypes(P), ValidatorsUpdated \/ Slash
  PROVE  ExecutionTypes(P)'
<1>1. CASE ValidatorsUpdated
  BY <1>1, ValidatorsType DEF ValidatorsUpdated, ExecutionTypes, stateVars
<1>2. CASE Slash
  BY <1>2 DEF Slash, ExecutionTypes, stateVars
<1>. QED
  BY <1>1, <1>2

\* The pool: what commitBlock() and add() make of it.
LEMMA PoolTypesKept ==
  ASSUME NEW P, Txs \subseteq P, P \subseteq Transactions, NodeTypes(P), Next
  PROVE  PoolTypes(P)'
<1>1. pool \in Seq(P) /\ adding \subseteq P /\ Len(pool) <= MaxPool
  BY DEF NodeTypes, PoolTypes
<1>2. ASSUME UNCHANGED poolVars PROVE PoolTypes(P)'
  BY <1>1, <1>2 DEF PoolTypes, poolVars
<1>3. ASSUME NEW j \in Jobs, CommitSaved(j) PROVE PoolTypes(P)'
  <2>1. jobs[j] \in JobsOf(P) /\ jobs[j] # Idle /\ jobs[j].kind = "commit"
    BY <1>3 DEF NodeTypes, ExecutionTypes, CommitSaved, In
  <2>2. jobs[j].block.txs \in Seq(Held(P))
    BY <2>1, JobFields DEF BlocksOf
  <2>. DEFINE txs == jobs[j].block.txs
  <2>. HIDE DEF txs
  <2>3. /\ Removed(txs) \in Seq(Held(P)) /\ Len(Removed(txs)) <= Len(pool)
        /\ \A x : Contains(Removed(txs), x) => Contains(pool, x)
    <3>1. pool \in Seq(Held(P))
      BY <1>1, SeqsGrow DEF Held
    <3>2. txs \in Seq(Held(P))
      BY <2>2 DEF txs
    <3>. QED
      BY <3>1, <3>2, RemovesTheBlock
  <2>. DEFINE r == Removed(txs)
  <2>. HIDE DEF r
  <2>4. r \in Seq(P)
    <3>1. ASSUME NEW i \in 1..Len(r) PROVE r[i] \in P
      <4>1. Contains(pool, r[i])
        BY <2>3 DEF Contains, r
      <4>. QED
        BY <1>1, <4>1 DEF Contains
    <3>. QED
      BY <2>3, <3>1 DEF r
  <2>5. pool' = r /\ adding' = adding
    BY <1>3 DEF CommitSaved, r, txs
  <2>6. Len(r) <= MaxPool
    <3>1. Len(r) \in Nat /\ Len(pool) \in Nat /\ MaxPool \in Nat
      BY <1>1, <2>4, PoolAssumption
    <3>. QED
      BY <1>1, <2>3, <3>1 DEF r
  <2>. QED
    BY <1>1, <2>4, <2>5, <2>6 DEF PoolTypes
<1>4. ASSUME NEW tx \in Txs, TxSubmitted(tx) PROVE PoolTypes(P)'
  BY <1>1, <1>4 DEF PoolTypes, TxSubmitted, Submit
<1>5. ASSUME NEW tx \in Txs, TxAdded(tx) PROVE PoolTypes(P)'
  <2>1. tx \in P /\ pool' = Entered(tx) /\ adding' = adding \ {tx}
    BY <1>5 DEF TxAdded, AddResumes
  <2>2. pool' \in Seq(P) /\ Len(pool') <= MaxPool
    BY <2>1, EnteredTypes DEF NodeTypes
  <2>. QED
    BY <1>1, <2>1, <2>2 DEF PoolTypes
<1>. QED
  BY <1>2, <1>3, <1>4, <1>5
     DEF Next, TxExecuted, TxLost, Writing, ProposeStarts, ProposeExecuted,
         ProposePublished, BlockArrives, VerifyStarts, VerifyExecuted, CommitStarts,
         CommitExecuted, StateCommitted, ValidatorsUpdated, Slash

LEMMA PoolStepTypes ==
  ASSUME NEW P, ExecutionTypes(P), UNCHANGED <<stateVars, jobs, headVars, lost>>
  PROVE  ExecutionTypes(P)'
  BY DEF ExecutionTypes, stateVars, headVars, setVars

LEMMA ExecutionTypesKept ==
  ASSUME NEW P, Txs \subseteq P, P \subseteq Transactions, NodeTypes(P), Next
  PROVE  ExecutionTypes(P)'
<1>1. ExecutionTypes(P)
  BY DEF NodeTypes
<1>2. ASSUME NEW j \in Jobs,
             \/ TxExecuted(j) \/ TxLost(j) \/ Writing(j)
             \/ ProposeStarts(j) \/ ProposeExecuted(j) \/ ProposePublished(j)
             \/ BlockArrives(j) \/ VerifyStarts(j) \/ VerifyExecuted(j)
             \/ CommitStarts(j) \/ CommitExecuted(j) \/ StateCommitted(j)
             \/ CommitSaved(j)
      PROVE  ExecutionTypes(P)'
  BY <1>1, <1>2, TxExecutedTypes, TxLostTypes, WritingTypes, ProposeStartsTypes,
     ProposeExecutedTypes, ProposePublishedTypes, BlockArrivesTypes, VerifyStartsTypes,
     VerifyExecutedTypes, CommitStartsTypes, CommitExecutedTypes, StateCommittedTypes,
     CommitSavedTypes
<1>3. CASE ValidatorsUpdated \/ Slash
  BY <1>1, <1>3, ValidatorsTypes
<1>4. ASSUME NEW tx \in Txs, TxSubmitted(tx) \/ TxAdded(tx)
      PROVE  ExecutionTypes(P)'
  BY <1>1, <1>4, PoolStepTypes DEF TxSubmitted, TxAdded
<1>. QED
  BY <1>2, <1>3, <1>4 DEF Next

LEMMA TypesKept ==
  ASSUME NEW P, Txs \subseteq P, P \subseteq Transactions, NodeTypes(P), [Next]_vars
  PROVE  NodeTypes(P)'
<1>1. CASE Next
  BY <1>1, ExecutionTypesKept, PoolTypesKept DEF NodeTypes
<1>2. CASE UNCHANGED vars
  BY <1>2 DEF NodeTypes, ExecutionTypes, PoolTypes, vars, stateVars, headVars, setVars,
              poolVars
<1>. QED
  BY <1>1, <1>2

LEMMA TypesAtStart ==
  ASSUME NEW P, Init
  PROVE  NodeTypes(P)
<1>1. Base \in Tries /\ {Self, Peer} \subseteq Addresses /\ MaxLost \in Nat
  BY NodeAssumption
<1>2. Base[Staking].storage \in Storages
  BY <1>1, LedgerAssumption DEF Tries, Accounts
<1>3. ActiveStakers(Base) \subseteq Addresses
  BY <1>2 DEF ActiveStakers, Storages
<1>4. validators \subseteq Addresses
  BY <1>1, <1>3 DEF Init
<1>5. ExecutionTypes(P)
  <2>1. trie \in Tries /\ stack \in Seq(Tries) /\ chain \in Seq(EntriesOf(P))
    BY <1>1 DEF Init
  <2>2. jobs \in [Jobs -> JobsOf(P)]
    BY DEF Init, JobsOf
  <2>3. /\ pending \subseteq BlocksOf(P) /\ slashed \subseteq Addresses
        /\ updating \in BOOLEAN
    BY DEF Init
  <2>4. lost \in 0..MaxLost
    <3>1. lost = 0
      BY DEF Init
    <3>. QED
      BY <1>1, <3>1
  <2>. QED
    BY <1>4, <2>1, <2>2, <2>3, <2>4 DEF ExecutionTypes
<1>6. PoolTypes(P)
  BY PoolAssumption DEF Init, PoolInit, PoolTypes
<1>. QED
  BY <1>5, <1>6 DEF NodeTypes

LEMMA TypesImply ==
  ASSUME NEW P, P \subseteq Transactions, NodeTypes(P), pool \in Seq(Txs), adding \subseteq Txs
  PROVE  TypeOK
<1>1. Seq(Held(P)) \subseteq Seq(Transactions)
  BY HeldType, SeqsGrow
<1>2. BlocksOf(P) \subseteq Blocks
  BY <1>1 DEF BlocksOf, Blocks
<1>3. \A j \in Jobs : jobs[j] # Idle => jobs[j] \in Active
  <2>. SUFFICES ASSUME NEW j \in Jobs, jobs[j] # Idle PROVE jobs[j] \in Active
    OBVIOUS
  <2>1. jobs[j] \in ActiveOf(P)
    BY DEF NodeTypes, ExecutionTypes, JobsOf
  <2>. QED
    BY <1>1, <1>2, <2>1 DEF ActiveOf, Active
<1>4. \A i \in DOMAIN chain :
        chain[i] \in [block : Blocks, receipts : Seq(Transactions)]
  <2>1. \A i \in DOMAIN chain : chain[i] \in EntriesOf(P)
    BY DEF NodeTypes, ExecutionTypes
  <2>2. EntriesOf(P) \subseteq [block : Blocks, receipts : Seq(Transactions)]
    BY <1>1, <1>2 DEF EntriesOf
  <2>. QED
    BY <2>1, <2>2
<1>. QED
  BY <1>2, <1>3, <1>4 DEF NodeTypes, ExecutionTypes, TypeOK

\* The accounts, the checkpoints, the executions and the mempool keep their types,
\* for any number of executions at a time: a job that resumes has a block, its
\* writes are writes of the state, and no checkpoint is anything but accounts.
THEOREM NodeTypeCorrect == Spec => []TypeOK
<1>. DEFINE Types == NodeTypes(Txs)
<1>1. Txs \subseteq Transactions
  BY NodeAssumption
<1>2. Init => Types
  BY TypesAtStart
<1>3. Types /\ [Next]_vars => Types'
  BY <1>1, TypesKept
<1>4. Types => TypeOK
  BY <1>1, TypesImply DEF NodeTypes, PoolTypes
<1>. QED
  BY <1>2, <1>3, <1>4, PTL DEF Spec

-----------------------------------------------------------------------------
(* What leaves the pool.                                                   *)

LEMMA DearerStep ==
  ASSUME NodeTypes(Txs), Next, NEW tx \in Txs, Contains(pool, tx), ~ Contains(pool', tx)
  PROVE  \/ /\ chain' # chain
            /\ Contains(Last(chain').block.txs, tx)
         \/ /\ Len(pool) = MaxPool
            /\ Len(pool') = MaxPool
            /\ \E t \in Txs : /\ Contains(pool', t) /\ ~ Contains(pool, t)
                             /\ \A i \in DOMAIN pool : pool[i].price >= tx.price
                             /\ t.price > tx.price
<1>0. /\ pool \in Seq(Txs) /\ adding \subseteq Txs /\ Len(pool) <= MaxPool
      /\ Txs \subseteq Transactions /\ MaxPool \in Nat
      /\ \A x \in Txs : x.price \in Nat
  BY NodeAssumption, PoolAssumption DEF NodeTypes, PoolTypes, Transactions
<1>1. CASE UNCHANGED poolVars
  BY <1>1 DEF poolVars
<1>2. ASSUME NEW j \in Jobs, CommitSaved(j)
      PROVE  chain' # chain /\ Contains(Last(chain').block.txs, tx)
  <2>1. jobs[j] \in JobsOf(Txs) /\ jobs[j] # Idle /\ jobs[j].kind = "commit"
    BY <1>2 DEF NodeTypes, ExecutionTypes, CommitSaved, In
  <2>2. jobs[j].block.txs \in Seq(Held(Txs)) /\ pool \in Seq(Held(Txs))
    BY <1>0, <2>1, JobFields, SeqsGrow DEF BlocksOf, Held
  <2>. DEFINE e == [block |-> jobs[j].block, receipts |-> jobs[j].done]
  <2>3. chain' = Append(chain, e) /\ pool' = Removed(e.block.txs)
    BY <1>2 DEF CommitSaved
  <2>4. e \in EntriesOf(Txs) /\ chain \in Seq(EntriesOf(Txs))
    BY <2>1, JobFields DEF EntriesOf, NodeTypes, ExecutionTypes
  <2>5. Contains(e.block.txs, tx)
    BY <2>2, <2>3, RemovesTheBlock
  <2>. HIDE DEF e
  <2>6. Last(chain') = e /\ chain' # chain
    BY <2>3, <2>4 DEF Last
  <2>. QED
    BY <2>5, <2>6
<1>3. ASSUME NEW t \in Txs, TxSubmitted(t) PROVE FALSE
  BY <1>3 DEF TxSubmitted, Submit
<1>4. ASSUME NEW t \in Txs, TxAdded(t)
      PROVE  /\ Len(pool) = MaxPool /\ Len(pool') = MaxPool
             /\ Contains(pool', t) /\ ~ Contains(pool, t)
             /\ \A i \in DOMAIN pool : pool[i].price >= tx.price
             /\ t.price > tx.price
  <2>1. pool' = Entered(t)
    BY <1>4 DEF TxAdded, AddResumes
  <2>2. Admits(t)
    BY <2>1 DEF Entered
  <2>3. Len(pool) >= MaxPool
    <3>. SUFFICES ASSUME ~ (Len(pool) >= MaxPool) PROVE FALSE
      OBVIOUS
    <3>1. pool' = Append(pool, t)
      BY <2>1, <2>2 DEF Entered
    <3>2. PICK i \in 1..Len(pool) : pool[i] = tx
      BY DEF Contains
    <3>3. i \in 1..Len(pool') /\ pool'[i] = tx
      BY <1>0, <3>1, <3>2
    <3>. QED
      BY <3>3 DEF Contains
  <2>4. pool' = Append(RemoveFirst(pool, Lowest), t)
    BY <2>1, <2>2, <2>3 DEF Entered
  <2>5. /\ Contains(pool, Lowest) /\ Lowest \in Txs
        /\ \A i \in DOMAIN pool : Lowest.price <= pool[i].price
    <3>1. pool # <<>>
      BY DEF Contains
    <3>. QED
      BY <1>0, <3>1, LowestIs
  <2>6. /\ RemoveFirst(pool, Lowest) \in Seq(Txs)
        /\ Len(RemoveFirst(pool, Lowest)) = Len(pool) - 1
        /\ tx # Lowest => Contains(RemoveFirst(pool, Lowest), tx)
    BY <1>0, <2>5, RemovesFirst
  <2>. DEFINE r == RemoveFirst(pool, Lowest)
  <2>. HIDE DEF r
  <2>7. /\ Len(pool') = Len(r) + 1 /\ pool'[Len(r) + 1] = t
        /\ \A i \in 1..Len(r) : pool'[i] = r[i]
    BY <2>4, <2>6 DEF r
  <2>8. tx = Lowest
    <3>. SUFFICES ASSUME tx # Lowest PROVE FALSE
      OBVIOUS
    <3>1. PICK i \in 1..Len(r) : r[i] = tx
      BY <2>6 DEF Contains, r
    <3>2. Len(r) \in Nat
      BY <2>6 DEF r
    <3>3. i \in 1..Len(pool') /\ pool'[i] = tx
      BY <2>7, <3>1, <3>2
    <3>. QED
      BY <3>3 DEF Contains
  <2>9. Contains(pool', t)
    <3>1. Len(r) \in Nat
      BY <2>6 DEF r
    <3>2. Len(r) + 1 \in 1..Len(pool')
      BY <2>7, <3>1
    <3>. QED
      BY <2>7, <3>2 DEF Contains
  <2>10. ~ Contains(pool, t) /\ t.price > Lowest.price
    BY <2>2, <2>3 DEF Admits
  <2>11. Len(pool) = MaxPool /\ Len(pool') = MaxPool
    <3>1. Len(r) = Len(pool) - 1 /\ Len(pool) \in Nat
      BY <1>0, <2>6 DEF r
    <3>. QED
      BY <1>0, <2>3, <2>7, <3>1
  <2>12. \A i \in DOMAIN pool : pool[i].price >= tx.price
    BY <1>0, <2>5, <2>8
  <2>. QED
    BY <2>8, <2>9, <2>10, <2>11, <2>12
<1>. QED
  BY <1>1, <1>2, <1>3, <1>4
     DEF Next, TxExecuted, TxLost, Writing, ProposeStarts, ProposeExecuted,
         ProposePublished, BlockArrives, VerifyStarts, VerifyExecuted, CommitStarts,
         CommitExecuted, StateCommitted, ValidatorsUpdated, Slash

\* A transaction leaves the mempool only in a block of the chain, or for a dearer one
\* when it is among the cheapest of a full pool, whatever add() and commitBlock() do
\* between each other's awaits.
THEOREM OnlyADearerReplaces == Spec => DearerReplaces
<1>. DEFINE Types == NodeTypes(Txs)
            Replaced ==
              \A tx \in Txs :
                Contains(pool, tx) /\ ~ Contains(pool', tx) =>
                  \/ /\ chain' # chain
                     /\ Contains(Last(chain').block.txs, tx)
                  \/ /\ Len(pool) = MaxPool
                     /\ Len(pool') = MaxPool
                     /\ \E t \in Txs : /\ Contains(pool', t) /\ ~ Contains(pool, t)
                                      /\ \A i \in DOMAIN pool : pool[i].price >= tx.price
                                      /\ t.price > tx.price
<1>1. Txs \subseteq Transactions
  BY NodeAssumption
<1>2. Init => Types
  BY TypesAtStart
<1>3. Types /\ [Next]_vars => Types'
  BY <1>1, TypesKept
<1>4. Types /\ Next => Replaced
  BY DearerStep
<1>5. Types /\ [Next]_vars => [Replaced]_vars
  BY <1>4
<1>. QED
  BY <1>2, <1>3, <1>5, PTL DEF Spec, DearerReplaces

-----------------------------------------------------------------------------
(* One execution at a time.  The state is then what the chain has led to   *)
(* and what the execution under way has made of it, and the checkpoint is  *)
(* what the chain has led to.  (Two executions at a time spoil this: the   *)
(* run overlap.)                                                           *)

OneAtATime == \A i, j \in Jobs : i = j

Saved(job) == [block |-> job.block, receipts |-> job.done]

JobState(job, t, st, head) ==
  \/ /\ job.phase = "waiting" /\ job.kind = "verify"
     /\ st = <<>> /\ t = head /\ job.writes = <<>> /\ job.done = <<>>
  \/ /\ job.phase = "executing"
     /\ st = <<head>>
     /\ FoldLeft(Write, t, job.writes) = ExecuteAll(head, job.done)
  \/ /\ job.phase = "publishing" /\ job.kind = "propose"
     /\ st = <<head>> /\ job.writes = <<>>
  \/ /\ job.phase = "sharing" /\ job.kind = "commit"
     /\ st = <<head>>
     /\ FoldLeft(Write, t, job.writes) = AddBlock(head, Saved(job))
  \/ /\ job.phase = "saving" /\ job.kind = "commit"
     /\ st = <<>> /\ t = AddBlock(head, Saved(job)) /\ job.writes = <<>>

StateInv ==
  /\ Quiescent => stack = <<>> /\ trie = After(chain)
  /\ \A j \in Jobs : jobs[j] # Idle => JobState(jobs[j], trie, stack, After(chain))

\* A step of the only job.
LEMMA OneJobStep ==
  ASSUME NEW P, OneAtATime, ExecutionTypes(P), NEW j \in Jobs, NEW job,
         jobs' = [jobs EXCEPT ![j] = job],
         job = Idle => stack' = <<>> /\ trie' = After(chain'),
         job # Idle => JobState(job, trie', stack', After(chain'))
  PROVE  StateInv'
<1>1. jobs'[j] = job /\ \A i \in Jobs : jobs'[i] = job
  BY DEF OneAtATime, ExecutionTypes
<1>2. Quiescent' => job = Idle
  BY <1>1 DEF Quiescent
<1>. QED
  BY <1>1, <1>2 DEF StateInv

LEMMA StateUntouched ==
  ASSUME StateInv, UNCHANGED <<trie, stack, jobs, chain>>
  PROVE  StateInv'
  BY DEF StateInv, Quiescent

\* No execution under way.
LEMMA StateIdle ==
  ASSUME OneAtATime, StateInv, NEW j \in Jobs, jobs[j] = Idle
  PROVE  stack = <<>> /\ trie = After(chain)
  BY DEF OneAtATime, StateInv, Quiescent

LEMMA RevertsToHead ==
  ASSUME NEW head, stack = <<head>>, NEW n \in {1, 2}, Revert(n)
  PROVE  trie' = head /\ stack' = <<>>
<1>. DEFINE kept == IF n > Len(stack) THEN 0 ELSE Len(stack) - n
<1>1. Len(stack) = 1 /\ stack[1] = head
  OBVIOUS
<1>2. kept = 0
  BY <1>1
<1>3. /\ trie' = IF kept < Len(stack) THEN stack[kept + 1] ELSE trie
      /\ stack' = SubSeq(stack, 1, kept)
  BY DEF Revert
<1>. HIDE DEF kept
<1>4. SubSeq(stack, 1, 0) = <<>>
  BY <1>1
<1>. QED
  BY <1>1, <1>2, <1>3, <1>4

\* The job of an action, with what it has made of the state.
LEMMA TheJob ==
  ASSUME NEW P, ExecutionTypes(P), StateInv, NEW j \in Jobs, jobs[j] # Idle
  PROVE  /\ jobs[j] \in ActiveOf(P)
         /\ jobs[j].kind \in Kinds /\ jobs[j].phase \in Phases
         /\ jobs[j].todo \in Seq(Held(P)) /\ jobs[j].done \in Seq(Held(P))
         /\ jobs[j].writes \in Seq(WriteRecords)
         /\ JobState(jobs[j], trie, stack, After(chain))
<1>1. jobs[j] \in JobsOf(P)
  BY DEF ExecutionTypes
<1>. QED
  BY <1>1, JobFields DEF StateInv

LEMMA TxExecutedState ==
  ASSUME NEW P, P \subseteq Transactions, OneAtATime, ExecutionTypes(P), StateInv,
         NEW j \in Jobs, TxExecuted(j)
  PROVE  StateInv'
<1>. DEFINE job  == jobs[j]
            tx   == Head(job.todo)
            head == After(chain)
            d    == IF Valid(trie, tx) THEN Append(job.done, tx) ELSE job.done
            w    == IF Valid(trie, tx) THEN Writes(trie, tx) ELSE <<>>
            new  == [job EXCEPT !.todo = Tail(job.todo), !.done = d, !.writes = w]
<1>1. /\ job # Idle /\ job.phase = "executing" /\ job.writes = <<>> /\ job.todo # <<>>
      /\ trie' = trie /\ stack' = stack /\ chain' = chain
  BY DEF TxExecuted, Executing, stateVars, headVars
<1>2. /\ job \in ActiveOf(P) /\ job.todo \in Seq(Held(P)) /\ job.done \in Seq(Held(P))
      /\ JobState(job, trie, stack, head)
  BY <1>1, TheJob
<1>3. tx \in Held(P) /\ tx \in Transactions /\ trie \in Tries
  BY <1>1, <1>2, HeldType DEF ExecutionTypes
<1>4. stack = <<head>> /\ trie = ExecuteAll(head, job.done)
  BY <1>1, <1>2, WritesDone DEF JobState
<1>5. FoldLeft(Write, trie, w) = ExecuteAll(head, d)
  <2>1. CASE Valid(trie, tx)
    <3>1. w = Writes(trie, tx) /\ d = Append(job.done, tx)
      BY <2>1
    <3>2. ExecuteAll(head, d) = Execute(trie, tx)
      BY <1>2, <1>3, <1>4, <3>1, OneMoreExecuted
    <3>3. FoldLeft(Write, trie, w) = Execute(trie, tx)
      BY <1>3, <2>1, <3>1 DEF Execute
    <3>. QED
      BY <3>2, <3>3
  <2>2. CASE ~ Valid(trie, tx)
    <3>1. w = <<>> /\ d = job.done
      BY <2>2
    <3>. QED
      BY <1>4, <3>1, WritesDone
  <2>. QED
    BY <2>1, <2>2
<1>6. jobs' = [jobs EXCEPT ![j] = new]
  BY DEF TxExecuted, ExecutionTypes
<1>. HIDE DEF d, w
<1>7. /\ new.phase = "executing" /\ new.writes = w /\ new.done = d /\ new # Idle
  BY <1>1, <1>2 DEF ActiveOf, Idle
<1>. HIDE DEF new, head
<1>8. JobState(new, trie', stack', After(chain'))
  BY <1>1, <1>4, <1>5, <1>7 DEF JobState, head
<1>. QED
  BY <1>6, <1>7, <1>8, OneJobStep

LEMMA TxLostState ==
  ASSUME NEW P, OneAtATime, ExecutionTypes(P), StateInv, NEW j \in Jobs, TxLost(j)
  PROVE  StateInv'
<1>. DEFINE job  == jobs[j]
            new  == [job EXCEPT !.todo = Tail(job.todo)]
<1>1. /\ job # Idle /\ job.phase = "executing"
      /\ trie' = trie /\ stack' = stack /\ chain' = chain
  BY DEF TxLost, Executing, stateVars, headVars
<1>2. job \in ActiveOf(P) /\ JobState(job, trie, stack, After(chain))
  BY <1>1, TheJob
<1>3. jobs' = [jobs EXCEPT ![j] = new]
  BY DEF TxLost, ExecutionTypes
<1>4. /\ new.phase = "executing" /\ new.writes = job.writes /\ new.done = job.done
      /\ new # Idle
  BY <1>1, <1>2 DEF ActiveOf, Idle
<1>. HIDE DEF new
<1>5. JobState(new, trie', stack', After(chain'))
  BY <1>1, <1>2, <1>4 DEF JobState
<1>. QED
  BY <1>3, <1>4, <1>5, OneJobStep

LEMMA WritingState ==
  ASSUME NEW P, OneAtATime, ExecutionTypes(P), StateInv, NEW j \in Jobs, Writing(j)
  PROVE  StateInv'
<1>. DEFINE job  == jobs[j]
            new  == [job EXCEPT !.writes = Tail(job.writes)]
<1>1. /\ job # Idle /\ job.writes # <<>> /\ trie' = Write(trie, Head(job.writes))
      /\ stack' = stack /\ chain' = chain
  BY DEF Writing, headVars
<1>2. /\ job \in ActiveOf(P) /\ job.writes \in Seq(WriteRecords)
      /\ JobState(job, trie, stack, After(chain))
  BY <1>1, TheJob
<1>3. jobs' = [jobs EXCEPT ![j] = new]
  BY DEF Writing, ExecutionTypes
<1>4. /\ new.phase = job.phase /\ new.writes = Tail(job.writes) /\ new.done = job.done
      /\ new.kind = job.kind /\ new.block = job.block /\ new # Idle
  BY <1>2 DEF ActiveOf, Idle, Kinds
<1>. HIDE DEF new
<1>5. FoldLeft(Write, trie, job.writes) = FoldLeft(Write, trie', new.writes)
  BY <1>1, <1>2, <1>4, WritesGoOn
<1>6. JobState(new, trie', stack', After(chain'))
  BY <1>1, <1>2, <1>4, <1>5 DEF JobState, Saved
<1>. QED
  BY <1>3, <1>4, <1>6, OneJobStep

\* A job that starts to execute.
LEMMA StartsState ==
  ASSUME NEW P, OneAtATime, ExecutionTypes(P), StateInv, NEW j \in Jobs, NEW job,
         jobs' = [jobs EXCEPT ![j] = job], job # Idle, job.phase = "executing",
         job.writes = <<>>, job.done = <<>>, Checkpoint, chain' = chain,
         stack = <<>>, trie = After(chain)
  PROVE  StateInv'
<1>1. trie' = trie /\ stack' = Append(stack, trie)
  BY DEF Checkpoint
<1>2. stack' = <<After(chain)>>
  BY <1>1
<1>3. FoldLeft(Write, trie', job.writes) = ExecuteAll(After(chain), job.done)
  BY <1>1, WritesDone, NothingExecuted
<1>4. JobState(job, trie', stack', After(chain'))
  BY <1>2, <1>3 DEF JobState
<1>. QED
  BY <1>4, OneJobStep

LEMMA ProposeStartsState ==
  ASSUME NEW P, OneAtATime, ExecutionTypes(P), StateInv, NEW j \in Jobs, ProposeStarts(j)
  PROVE  StateInv'
<1>1. PICK txs \in Payloads :
        jobs' = [jobs EXCEPT ![j] = Started("propose", "executing", Idle, txs)]
  BY DEF ProposeStarts
<1>2. stack = <<>> /\ trie = After(chain)
  BY StateIdle DEF ProposeStarts
<1>. DEFINE job == Started("propose", "executing", Idle, txs)
<1>3. /\ job # Idle /\ job.phase = "executing" /\ job.writes = <<>> /\ job.done = <<>>
  BY DEF Started, Idle
<1>. HIDE DEF job
<1>4. Checkpoint /\ chain' = chain
  BY DEF ProposeStarts, headVars
<1>. QED
  BY <1>1, <1>2, <1>3, <1>4, StartsState DEF job

LEMMA CommitStartsState ==
  ASSUME NEW P, OneAtATime, ExecutionTypes(P), StateInv, NEW j \in Jobs, CommitStarts(j)
  PROVE  StateInv'
<1>1. PICK b \in pending :
        jobs' = [jobs EXCEPT ![j] = Started("commit", "executing", b, b.txs)]
  BY DEF CommitStarts
<1>2. stack = <<>> /\ trie = After(chain)
  BY StateIdle DEF CommitStarts
<1>. DEFINE job == Started("commit", "executing", b, b.txs)
<1>3. /\ job # Idle /\ job.phase = "executing" /\ job.writes = <<>> /\ job.done = <<>>
  BY DEF Started, Idle
<1>. HIDE DEF job
<1>4. Checkpoint /\ chain' = chain
  BY DEF CommitStarts, headVars
<1>. QED
  BY <1>1, <1>2, <1>3, <1>4, StartsState DEF job

LEMMA BlockArrivesState ==
  ASSUME NEW P, OneAtATime, ExecutionTypes(P), StateInv, NEW j \in Jobs, BlockArrives(j)
  PROVE  StateInv'
<1>1. PICK b \in PeerBlocks :
        jobs' = [jobs EXCEPT ![j] = Started("verify", "waiting", b, b.txs)]
  BY DEF BlockArrives
<1>2. stack = <<>> /\ trie = After(chain)
  BY StateIdle DEF BlockArrives
<1>. DEFINE job == Started("verify", "waiting", b, b.txs)
<1>3. /\ job # Idle /\ job.phase = "waiting" /\ job.kind = "verify"
      /\ job.writes = <<>> /\ job.done = <<>>
  BY DEF Started, Idle
<1>. HIDE DEF job
<1>4. trie' = trie /\ stack' = stack /\ chain' = chain
  BY DEF BlockArrives, stateVars, headVars
<1>5. JobState(job, trie', stack', After(chain'))
  BY <1>2, <1>3, <1>4 DEF JobState
<1>. QED
  BY <1>1, <1>3, <1>5, OneJobStep DEF job

LEMMA VerifyStartsState ==
  ASSUME NEW P, OneAtATime, ExecutionTypes(P), StateInv, NEW j \in Jobs, VerifyStarts(j)
  PROVE  StateInv'
<1>. DEFINE job == jobs[j]
            new == [job EXCEPT !.phase = "executing"]
<1>1. job # Idle /\ job.phase = "waiting" /\ chain' = chain
  BY DEF VerifyStarts, In, headVars
<1>2. job \in ActiveOf(P) /\ JobState(job, trie, stack, After(chain))
  BY <1>1, TheJob
<1>3. stack = <<>> /\ trie = After(chain) /\ job.writes = <<>> /\ job.done = <<>>
  BY <1>1, <1>2 DEF JobState
<1>4. CASE jobs' = [jobs EXCEPT ![j] = Idle] /\ UNCHANGED stateVars
  BY <1>1, <1>3, <1>4, OneJobStep DEF stateVars
<1>5. CASE jobs' = [jobs EXCEPT ![j].phase = "executing"] /\ Checkpoint
  <2>1. jobs' = [jobs EXCEPT ![j] = new]
    BY <1>5 DEF ExecutionTypes
  <2>2. /\ new # Idle /\ new.phase = "executing" /\ new.writes = <<>> /\ new.done = <<>>
    BY <1>2, <1>3 DEF ActiveOf, Idle
  <2>. HIDE DEF new
  <2>. QED
    BY <1>1, <1>3, <1>5, <2>1, <2>2, StartsState
<1>. QED
  BY <1>4, <1>5 DEF VerifyStarts

LEMMA ProposeExecutedState ==
  ASSUME NEW P, OneAtATime, ExecutionTypes(P), StateInv, NEW j \in Jobs, ProposeExecuted(j)
  PROVE  StateInv'
<1>. DEFINE job == jobs[j]
            b   == [height |-> Len(chain) + 1, proposer |-> Self, txs |-> job.done,
                    root |-> trie]
            new == [job EXCEPT !.phase = "publishing", !.block = b]
<1>1. /\ job # Idle /\ job.phase = "executing" /\ job.kind = "propose"
      /\ job.writes = <<>> /\ trie' = trie /\ stack' = stack /\ chain' = chain
  BY DEF ProposeExecuted, Executed, Executing, stateVars, headVars
<1>2. job \in ActiveOf(P) /\ JobState(job, trie, stack, After(chain))
  BY <1>1, TheJob
<1>3. stack = <<After(chain)>>
  BY <1>1, <1>2 DEF JobState
<1>4. jobs' = [jobs EXCEPT ![j] = new]
  BY DEF ProposeExecuted, ExecutionTypes
<1>. HIDE DEF b
<1>5. /\ new # Idle /\ new.phase = "publishing" /\ new.kind = "propose"
      /\ new.writes = <<>>
  BY <1>1, <1>2 DEF ActiveOf, Idle
<1>. HIDE DEF new
<1>6. JobState(new, trie', stack', After(chain'))
  BY <1>1, <1>3, <1>5 DEF JobState
<1>. QED
  BY <1>4, <1>5, <1>6, OneJobStep

LEMMA ProposePublishedState ==
  ASSUME NEW P, OneAtATime, ExecutionTypes(P), StateInv, NEW j \in Jobs,
         ProposePublished(j)
  PROVE  StateInv'
<1>. DEFINE job == jobs[j]
            new == Started("verify", "waiting", job.block, job.block.txs)
<1>1. job # Idle /\ job.phase = "publishing" /\ Revert(1) /\ chain' = chain
  BY DEF ProposePublished, In, headVars
<1>2. JobState(job, trie, stack, After(chain))
  BY <1>1, TheJob
<1>3. stack = <<After(chain)>>
  BY <1>1, <1>2 DEF JobState
<1>4. trie' = After(chain) /\ stack' = <<>>
  BY <1>1, <1>3, RevertsToHead
<1>5. jobs' = [jobs EXCEPT ![j] = new]
  BY <1>3 DEF ProposePublished, ExecutionTypes
<1>6. /\ new # Idle /\ new.phase = "waiting" /\ new.kind = "verify"
      /\ new.writes = <<>> /\ new.done = <<>>
  BY DEF Started, Idle
<1>. HIDE DEF new
<1>7. JobState(new, trie', stack', After(chain'))
  BY <1>1, <1>4, <1>6 DEF JobState
<1>. QED
  BY <1>5, <1>6, <1>7, OneJobStep

LEMMA VerifyExecutedState ==
  ASSUME NEW P, OneAtATime, ExecutionTypes(P), StateInv, NEW j \in Jobs, VerifyExecuted(j)
  PROVE  StateInv'
<1>1. /\ jobs[j] # Idle /\ jobs[j].phase = "executing" /\ chain' = chain
      /\ Revert(1) \/ Revert(2)
      /\ jobs' = [jobs EXCEPT ![j] = Idle]
  BY DEF VerifyExecuted, Executed, Executing
<1>2. JobState(jobs[j], trie, stack, After(chain))
  BY <1>1, TheJob
<1>3. stack = <<After(chain)>>
  BY <1>1, <1>2 DEF JobState
<1>4. trie' = After(chain) /\ stack' = <<>>
  BY <1>1, <1>3, RevertsToHead
<1>. QED
  BY <1>1, <1>4, OneJobStep

LEMMA CommitExecutedState ==
  ASSUME NEW P, OneAtATime, ExecutionTypes(P), StateInv, NEW j \in Jobs, CommitExecuted(j)
  PROVE  StateInv'
<1>. DEFINE job == jobs[j]
            ws  == ShareWrites(trie, job.block.proposer, job.done)
            new == [job EXCEPT !.phase = "sharing", !.writes = ws]
<1>1. /\ job # Idle /\ job.phase = "executing" /\ job.kind = "commit"
      /\ job.writes = <<>> /\ trie' = trie /\ stack' = stack /\ chain' = chain
  BY DEF CommitExecuted, Executed, Executing, stateVars, headVars
<1>2. job \in ActiveOf(P) /\ JobState(job, trie, stack, After(chain))
  BY <1>1, TheJob
<1>3. stack = <<After(chain)>> /\ trie = ExecuteAll(After(chain), job.done)
  BY <1>1, <1>2, WritesDone DEF JobState
<1>4. FoldLeft(Write, trie, ws) = AddBlock(After(chain), Saved(job))
  BY <1>3 DEF AddBlock, Saved
<1>5. jobs' = [jobs EXCEPT ![j] = new]
  BY DEF CommitExecuted, ExecutionTypes
<1>. HIDE DEF ws
<1>6. /\ new # Idle /\ new.phase = "sharing" /\ new.kind = "commit"
      /\ new.writes = ws /\ new.block = job.block /\ new.done = job.done
  BY <1>1, <1>2 DEF ActiveOf, Idle
<1>. HIDE DEF new
<1>7. JobState(new, trie', stack', After(chain'))
  BY <1>1, <1>3, <1>4, <1>6 DEF JobState, Saved
<1>. QED
  BY <1>5, <1>6, <1>7, OneJobStep

LEMMA StateCommittedState ==
  ASSUME NEW P, OneAtATime, ExecutionTypes(P), StateInv, NEW j \in Jobs, StateCommitted(j)
  PROVE  StateInv'
<1>. DEFINE job == jobs[j]
            new == [job EXCEPT !.phase = "saving"]
<1>1. /\ job # Idle /\ job.phase = "sharing" /\ job.kind = "commit"
      /\ job.writes = <<>> /\ trie' = trie /\ chain' = chain
  BY DEF StateCommitted, In, headVars
<1>2. job \in ActiveOf(P) /\ JobState(job, trie, stack, After(chain))
  BY <1>1, TheJob
<1>3. stack = <<After(chain)>> /\ trie = AddBlock(After(chain), Saved(job))
  BY <1>1, <1>2, WritesDone DEF JobState
<1>4. stack' = <<>>
  <2>1. stack' = Front(stack)
    BY <1>3 DEF StateCommitted
  <2>2. Front(<<After(chain)>>) = <<>>
    BY DEF Front
  <2>. QED
    BY <1>3, <2>1, <2>2
<1>5. jobs' = [jobs EXCEPT ![j] = new]
  BY <1>3 DEF StateCommitted, ExecutionTypes
<1>6. /\ new # Idle /\ new.phase = "saving" /\ new.kind = "commit"
      /\ new.writes = <<>> /\ new.block = job.block /\ new.done = job.done
  BY <1>1, <1>2 DEF ActiveOf, Idle
<1>. HIDE DEF new
<1>7. JobState(new, trie', stack', After(chain'))
  BY <1>1, <1>3, <1>4, <1>6 DEF JobState, Saved
<1>. QED
  BY <1>5, <1>6, <1>7, OneJobStep

LEMMA CommitSavedState ==
  ASSUME NEW P, OneAtATime, ExecutionTypes(P), StateInv, NEW j \in Jobs, CommitSaved(j)
  PROVE  StateInv'
<1>. DEFINE job == jobs[j]
<1>1. /\ job # Idle /\ job.phase = "saving" /\ job.kind = "commit"
      /\ trie' = trie /\ stack' = stack /\ jobs' = [jobs EXCEPT ![j] = Idle]
      /\ chain' = Append(chain, Saved(job))
  BY DEF CommitSaved, In, stateVars, Saved
<1>2. JobState(job, trie, stack, After(chain))
  BY <1>1, TheJob
<1>3. stack = <<>> /\ trie = AddBlock(After(chain), Saved(job))
  BY <1>1, <1>2 DEF JobState
<1>4. After(chain') = AddBlock(After(chain), Saved(job))
  <2>1. job \in JobsOf(P)
    BY DEF ExecutionTypes
  <2>2. Saved(job) \in EntriesOf(P)
    BY <1>1, <2>1, JobFields DEF EntriesOf, Saved
  <2>3. chain \in Seq(EntriesOf(P))
    BY DEF ExecutionTypes
  <2>. QED
    BY <1>1, <2>2, <2>3, AfterBlock
<1>. QED
  BY <1>1, <1>3, <1>4, OneJobStep

LEMMA StateKept ==
  ASSUME NEW P, P \subseteq Transactions, OneAtATime, ExecutionTypes(P), StateInv, Next
  PROVE  StateInv'
<1>1. ASSUME NEW j \in Jobs,
             \/ TxExecuted(j) \/ TxLost(j) \/ Writing(j)
             \/ ProposeStarts(j) \/ ProposeExecuted(j) \/ ProposePublished(j)
             \/ BlockArrives(j) \/ VerifyStarts(j) \/ VerifyExecuted(j)
             \/ CommitStarts(j) \/ CommitExecuted(j) \/ StateCommitted(j)
             \/ CommitSaved(j)
      PROVE  StateInv'
  BY <1>1, TxExecutedState, TxLostState, WritingState, ProposeStartsState,
     ProposeExecutedState, ProposePublishedState, BlockArrivesState, VerifyStartsState,
     VerifyExecutedState, CommitStartsState, CommitExecutedState, StateCommittedState,
     CommitSavedState
<1>2. CASE ValidatorsUpdated \/ Slash
  BY <1>2, StateUntouched DEF ValidatorsUpdated, Slash, stateVars
<1>3. ASSUME NEW tx \in Txs, TxSubmitted(tx) \/ TxAdded(tx)
      PROVE  StateInv'
  BY <1>3, StateUntouched DEF TxSubmitted, TxAdded, stateVars, headVars
<1>. QED
  BY <1>1, <1>2, <1>3 DEF Next

LEMMA StateAtStart == ASSUME Init PROVE StateInv
  BY AfterNothing DEF Init, StateInv

\* Between executions the state is the one that the stored blocks and their receipts
\* lead to, and no checkpoint is left, if one block is executed at a time.
THEOREM StateFollowsReceipts ==
  ASSUME OneAtATime
  PROVE  Spec => []StateOfReceipts
<1>. DEFINE Inv == NodeTypes(Txs) /\ StateInv
<1>1. Txs \subseteq Transactions
  BY NodeAssumption
<1>2. Init => Inv
  BY TypesAtStart, StateAtStart
<1>3. Inv /\ [Next]_vars => Inv'
  <2>1. ASSUME Inv, UNCHANGED vars PROVE StateInv'
    BY <2>1, StateUntouched DEF vars, stateVars, headVars
  <2>2. ASSUME Inv, Next PROVE StateInv'
    BY <1>1, <2>2, StateKept DEF NodeTypes
  <2>. QED
    BY <1>1, <2>1, <2>2, TypesKept
<1>4. Inv => StateOfReceipts
  BY DEF StateInv, StateOfReceipts
<1>. QED
  BY <1>2, <1>3, <1>4, PTL DEF Spec

\* With a block the validators become those who have a stake in its state and are not
\* banned; between executions startRound() finds the same ones.
THEOREM StakesGiveValidators ==
  ASSUME OneAtATime
  PROVE  Spec => ValidatorsFollowStakes
<1>. DEFINE Inv == NodeTypes(Txs) /\ StateInv
            Followed ==
              LET found == ActiveStakers(After(chain')) \ slashed
              IN  \/ chain' = chain /\ (validators' = validators \/ ~ Quiescent)
                  \/ validators' = found
                  \/ found = {}
<1>1. Txs \subseteq Transactions
  BY NodeAssumption
<1>2. Init => Inv
  BY TypesAtStart, StateAtStart
<1>3. Inv /\ [Next]_vars => Inv'
  <2>1. ASSUME Inv, UNCHANGED vars PROVE StateInv'
    BY <2>1, StateUntouched DEF vars, stateVars, headVars
  <2>2. ASSUME Inv, Next PROVE StateInv'
    BY <1>1, <2>2, StateKept DEF NodeTypes
  <2>. QED
    BY <1>1, <2>1, <2>2, TypesKept
<1>4. ASSUME Inv, Next PROVE Followed
  <2>1. ASSUME NEW j \in Jobs, CommitSaved(j) PROVE Followed
    <3>1. jobs[j] # Idle /\ jobs[j].phase = "saving" /\ ExecutionTypes(Txs)
      BY <1>4, <2>1 DEF CommitSaved, In, NodeTypes
    <3>2. JobState(jobs[j], trie, stack, After(chain))
      BY <1>4, <3>1 DEF StateInv
    <3>3. trie = AddBlock(After(chain), Saved(jobs[j]))
      BY <3>1, <3>2 DEF JobState
    <3>4. jobs[j] \in JobsOf(Txs) /\ chain \in Seq(EntriesOf(Txs)) /\ jobs[j].kind = "commit"
      BY <2>1, <3>1 DEF ExecutionTypes, CommitSaved, In
    <3>5. Saved(jobs[j]) \in EntriesOf(Txs)
      BY <3>1, <3>4, JobFields DEF EntriesOf, Saved
    <3>6. chain' = Append(chain, Saved(jobs[j]))
      BY <2>1 DEF CommitSaved, Saved
    <3>7. After(chain') = trie
      BY <3>3, <3>4, <3>5, <3>6, AfterBlock
    <3>8. validators' = Validators(ActiveStakers(trie))
      BY <2>1 DEF CommitSaved
    <3>. QED
      BY <3>7, <3>8 DEF Validators
  <2>2. CASE ValidatorsUpdated
    <3>1. chain' = chain /\ validators' = Validators(ActiveStakers(trie))
      BY <2>2 DEF ValidatorsUpdated
    <3>2. Quiescent => trie = After(chain')
      BY <1>4, <3>1 DEF StateInv
    <3>. QED
      BY <3>1, <3>2 DEF Validators
  <2>3. CASE UNCHANGED <<chain, validators>>
    BY <2>3
  <2>. QED
    BY <1>4, <2>1, <2>2, <2>3
       DEF Next, TxExecuted, TxLost, Writing, ProposeStarts, ProposeExecuted,
           ProposePublished, BlockArrives, VerifyStarts, VerifyExecuted, CommitStarts,
           CommitExecuted, StateCommitted, Slash, TxSubmitted, TxAdded, headVars, setVars
<1>5. Inv /\ [Next]_vars => [Followed]_vars
  BY <1>4
<1>. QED
  BY <1>2, <1>3, <1>5, PTL DEF Spec, ValidatorsFollowStakes

-----------------------------------------------------------------------------
(* What the chain and the execution under way have executed: the accounts, *)
(* the transactions of the blocks before, those of the block under way,    *)
(* and the fees that the blocks before have burnt.  A set of such          *)
(* histories that is closed under one transaction more and under the end   *)
(* of a block has all that the node goes through.                          *)

Histories(P) ==
  [trie : Tries, past : Seq(Held(P)), done : Seq(Held(P)), burnt : Int]

\* One transaction more.
WithTx(h, tx) ==
  [trie |-> Execute(h.trie, tx), past |-> h.past, done |-> Append(h.done, tx),
   burnt |-> h.burnt]

\* The end of a block of p.
Credited(t, p, n) == [t EXCEPT ![p] = [t[p] EXCEPT !.balance = @ + n]]
WithBlock(h, p) ==
  [trie |-> Credited(h.trie, p, ProposerShare(h.done)), past |-> h.past \o h.done,
   done |-> <<>>, burnt |-> h.burnt + (TotalFees(h.done) - ProposerShare(h.done))]

Closed(P, H) ==
  /\ H \subseteq Histories(P)
  /\ \A h \in H, tx \in Held(P) : Valid(h.trie, tx) => WithTx(h, tx) \in H
  /\ \A h \in H, p \in {Self, Peer} : WithBlock(h, p) \in H

\* The history of a chain, and of a block that is executed on it.
HistoryOf(c, done) ==
  [trie |-> ExecuteAll(After(c), done), past |-> ExecutionsOf(c), done |-> done,
   burnt |-> BurntBy(c)]

HistoryInv(H) ==
  /\ HistoryOf(chain, <<>>) \in H
  /\ \A j \in Jobs : jobs[j] # Idle => HistoryOf(chain, jobs[j].done) \in H

\* What a step can do to the histories.
LEMMA HistorySteps ==
  ASSUME NEW P, P \subseteq Transactions, OneAtATime, ExecutionTypes(P), StateInv, Next
  PROVE  \/ /\ chain' = chain
            /\ \A j \in Jobs : jobs'[j] # Idle =>
                 \/ jobs'[j].done = <<>>
                 \/ jobs[j] # Idle /\ jobs'[j].done = jobs[j].done
                 \/ /\ jobs[j] # Idle
                    /\ \E tx \in Held(P) :
                         /\ jobs'[j].done = Append(jobs[j].done, tx)
                         /\ Valid(ExecuteAll(After(chain), jobs[j].done), tx)
         \/ /\ \A j \in Jobs : jobs'[j] = Idle
            /\ \E j \in Jobs : /\ jobs[j] # Idle /\ jobs[j].kind = "commit"
                               /\ chain' = Append(chain, Saved(jobs[j]))
<1>. DEFINE Same ==
       /\ chain' = chain
       /\ \A j \in Jobs : jobs'[j] # Idle =>
            \/ jobs'[j].done = <<>>
            \/ jobs[j] # Idle /\ jobs'[j].done = jobs[j].done
            \/ /\ jobs[j] # Idle
               /\ \E tx \in Held(P) :
                    /\ jobs'[j].done = Append(jobs[j].done, tx)
                    /\ Valid(ExecuteAll(After(chain), jobs[j].done), tx)
<1>0. jobs \in [Jobs -> JobsOf(P)]
  BY DEF ExecutionTypes
<1>1. ASSUME NEW j \in Jobs, TxExecuted(j) PROVE Same
  <2>. DEFINE job == jobs[j]  tx == Head(job.todo)
  <2>1. /\ job # Idle /\ job.phase = "executing" /\ job.writes = <<>>
        /\ job.todo # <<>> /\ chain' = chain
    BY <1>1 DEF TxExecuted, Executing, headVars
  <2>2. /\ job \in ActiveOf(P) /\ job.todo \in Seq(Held(P))
        /\ JobState(job, trie, stack, After(chain))
    BY <2>1, TheJob
  <2>3. trie = ExecuteAll(After(chain), job.done)
    BY <2>1, <2>2, WritesDone DEF JobState
  <2>4. jobs'[j].done = IF Valid(trie, tx) THEN Append(job.done, tx) ELSE job.done
    BY <1>0, <1>1, <2>2 DEF TxExecuted, ActiveOf
  <2>5. tx \in Held(P)
    BY <2>1, <2>2
  <2>6. \A i \in Jobs : i = j
    BY DEF OneAtATime
  <2>. QED
    BY <2>1, <2>3, <2>4, <2>5, <2>6
<1>2. ASSUME NEW j \in Jobs,
             \/ TxLost(j) \/ Writing(j) \/ ProposeExecuted(j) \/ VerifyStarts(j)
             \/ CommitExecuted(j) \/ StateCommitted(j)
      PROVE  Same
  <2>1. jobs[j] # Idle /\ chain' = chain
    BY <1>2 DEF TxLost, Writing, ProposeExecuted, VerifyStarts, CommitExecuted,
                StateCommitted, Executed, Executing, In, headVars
  <2>2. jobs[j] \in ActiveOf(P)
    BY <2>1, TheJob
  <2>3. jobs'[j] # Idle => jobs'[j].done = jobs[j].done
    BY <1>0, <1>2, <2>2 DEF TxLost, Writing, ProposeExecuted, VerifyStarts,
                            CommitExecuted, StateCommitted, ActiveOf
  <2>4. \A i \in Jobs : i = j
    BY DEF OneAtATime
  <2>. QED
    BY <2>1, <2>3, <2>4
<1>3. ASSUME NEW j \in Jobs,
             \/ ProposeStarts(j) \/ ProposePublished(j) \/ BlockArrives(j)
             \/ VerifyExecuted(j) \/ CommitStarts(j)
      PROVE  Same
  <2>1. chain' = chain
    BY <1>3 DEF ProposeStarts, ProposePublished, BlockArrives, VerifyExecuted,
                CommitStarts, headVars
  <2>2. jobs'[j] # Idle => jobs'[j].done = <<>>
    BY <1>0, <1>3 DEF ProposeStarts, ProposePublished, BlockArrives, VerifyExecuted,
                      CommitStarts, Started
  <2>3. \A i \in Jobs : i = j
    BY DEF OneAtATime
  <2>. QED
    BY <2>1, <2>2, <2>3
<1>4. ASSUME NEW j \in Jobs, CommitSaved(j)
      PROVE  /\ \A i \in Jobs : jobs'[i] = Idle
             /\ \E i \in Jobs : /\ jobs[i] # Idle /\ jobs[i].kind = "commit"
                                /\ chain' = Append(chain, Saved(jobs[i]))
  <2>1. /\ jobs[j] # Idle /\ jobs[j].kind = "commit"
        /\ chain' = Append(chain, Saved(jobs[j])) /\ jobs' = [jobs EXCEPT ![j] = Idle]
    BY <1>4 DEF CommitSaved, In, Saved
  <2>. QED
    BY <1>0, <2>1 DEF OneAtATime
<1>5. ASSUME UNCHANGED <<jobs, chain>> PROVE Same
  BY <1>5
<1>. DEFINE Ended ==
       /\ \A i \in Jobs : jobs'[i] = Idle
       /\ \E i \in Jobs : /\ jobs[i] # Idle /\ jobs[i].kind = "commit"
                          /\ chain' = Append(chain, Saved(jobs[i]))
<1>41. ASSUME NEW j \in Jobs, CommitSaved(j) PROVE Ended
  BY <1>4, <1>41
<1>. HIDE DEF Same, Ended
<1>6. ASSUME NEW j \in Jobs,
             \/ TxExecuted(j) \/ TxLost(j) \/ Writing(j)
             \/ ProposeStarts(j) \/ ProposeExecuted(j) \/ ProposePublished(j)
             \/ BlockArrives(j) \/ VerifyStarts(j) \/ VerifyExecuted(j)
             \/ CommitStarts(j) \/ CommitExecuted(j) \/ StateCommitted(j)
             \/ CommitSaved(j)
      PROVE  Same \/ Ended
  BY <1>1, <1>2, <1>3, <1>41, <1>6
<1>7. ASSUME ValidatorsUpdated \/ Slash PROVE Same
  BY <1>5, <1>7 DEF ValidatorsUpdated, Slash
<1>8. ASSUME NEW tx \in Txs, TxSubmitted(tx) \/ TxAdded(tx) PROVE Same
  BY <1>5, <1>8 DEF TxSubmitted, TxAdded, headVars
<1>9. Same \/ Ended
  BY <1>6, <1>7, <1>8 DEF Next
<1>. QED
  BY <1>9 DEF Same, Ended

LEMMA HistoryGrows ==
  ASSUME NEW P, P \subseteq Transactions, NEW c \in Seq(EntriesOf(P)),
         NEW done \in Seq(Held(P)), NEW tx \in Held(P)
  PROVE  HistoryOf(c, Append(done, tx)) = WithTx(HistoryOf(c, done), tx)
  BY OneMoreExecuted DEF HistoryOf, WithTx

LEMMA HistoryOfBlock ==
  ASSUME NEW P, P \subseteq Transactions, NEW c \in Seq(EntriesOf(P)), NEW e \in EntriesOf(P)
  PROVE  HistoryOf(Append(c, e), <<>>) = WithBlock(HistoryOf(c, e.receipts), e.block.proposer)
<1>. DEFINE t == ExecuteAll(After(c), e.receipts)
<1>1. e.receipts \in Seq(Transactions) /\ e.block.proposer \in Addresses
  <2>1. e.receipts \in Seq(Held(P)) /\ e.block.proposer \in {Self, Peer}
    BY DEF EntriesOf, BlocksOf
  <2>. QED
    BY <2>1, HeldType, SeqsGrow, NodeAssumption
<1>2. t \in Tries
  BY <1>1, AfterType, ExecuteAllType
<1>3. AddBlock(After(c), e) = Credited(t, e.block.proposer, ProposerShare(e.receipts))
  <2>1. AddBlock(After(c), e)
          = FoldLeft(Write, t, ShareWrites(t, e.block.proposer, e.receipts))
    BY DEF AddBlock
  <2>. DEFINE p == e.block.proposer  r == e.receipts
  <2>2. p \in Addresses /\ r \in Seq(Transactions)
    BY <1>1
  <2>. HIDE DEF t, p, r
  <2>3. FoldLeft(Write, t, ShareWrites(t, p, r)) = Credited(t, p, ProposerShare(r))
    BY <1>2, <2>2, Shared DEF Credited
  <2>. QED
    BY <2>1, <2>3 DEF p, r
<1>4. After(Append(c, e)) = AddBlock(After(c), e)
  BY AfterBlock
<1>5. ExecutionsOf(Append(c, e)) = ExecutionsOf(c) \o e.receipts
  BY ToldFold, Told!FoldAppend
<1>6. BurntBy(Append(c, e))
        = BurntBy(c) + (TotalFees(e.receipts) - ProposerShare(e.receipts))
  BY BurningFold, Burning!FoldAppend
<1>7. ExecuteAll(After(Append(c, e)), <<>>) = After(Append(c, e))
  BY NothingExecuted
<1>. QED
  BY <1>3, <1>4, <1>5, <1>6, <1>7 DEF HistoryOf, WithBlock

LEMMA HistoryKept ==
  ASSUME NEW P, P \subseteq Transactions, NEW H, Closed(P, H),
         OneAtATime, ExecutionTypes(P), StateInv, HistoryInv(H), [Next]_vars
  PROVE  HistoryInv(H)'
<1>0. jobs \in [Jobs -> JobsOf(P)] /\ chain \in Seq(EntriesOf(P))
  BY DEF ExecutionTypes
<1>1. ASSUME chain' = chain,
             \A j \in Jobs : jobs'[j] # Idle =>
               \/ jobs'[j].done = <<>>
               \/ jobs[j] # Idle /\ jobs'[j].done = jobs[j].done
               \/ /\ jobs[j] # Idle
                  /\ \E tx \in Held(P) :
                       /\ jobs'[j].done = Append(jobs[j].done, tx)
                       /\ Valid(ExecuteAll(After(chain), jobs[j].done), tx)
      PROVE  HistoryInv(H)'
  <2>1. HistoryOf(chain', <<>>) \in H
    BY <1>1 DEF HistoryInv
  <2>2. ASSUME NEW j \in Jobs, jobs'[j] # Idle
        PROVE  HistoryOf(chain', jobs'[j].done) \in H
    <3>1. CASE jobs'[j].done = <<>>
      BY <1>1, <3>1 DEF HistoryInv
    <3>2. CASE jobs[j] # Idle /\ jobs'[j].done = jobs[j].done
      BY <1>1, <3>2 DEF HistoryInv
    <3>3. ASSUME jobs[j] # Idle, NEW tx \in Held(P),
                 jobs'[j].done = Append(jobs[j].done, tx),
                 Valid(ExecuteAll(After(chain), jobs[j].done), tx)
          PROVE  HistoryOf(chain', jobs'[j].done) \in H
      <4>1. jobs[j].done \in Seq(Held(P))
        BY <1>0, <3>3, JobFields
      <4>. DEFINE h == HistoryOf(chain, jobs[j].done)
      <4>2. h \in H /\ h.trie = ExecuteAll(After(chain), jobs[j].done)
        BY <3>3 DEF HistoryInv, HistoryOf
      <4>3. HistoryOf(chain', jobs'[j].done) = WithTx(h, tx)
        BY <1>0, <1>1, <3>3, <4>1, HistoryGrows
      <4>. HIDE DEF h
      <4>. QED
        BY <3>3, <4>2, <4>3 DEF Closed
    <3>. QED
      BY <1>1, <2>2, <3>1, <3>2, <3>3
  <2>. QED
    BY <2>1, <2>2 DEF HistoryInv
<1>2. ASSUME NEW j \in Jobs, jobs[j] # Idle, jobs[j].kind = "commit",
             chain' = Append(chain, Saved(jobs[j])), \A i \in Jobs : jobs'[i] = Idle
      PROVE  HistoryInv(H)'
  <2>1. jobs[j].block \in BlocksOf(P) /\ jobs[j].done \in Seq(Held(P))
    BY <1>0, <1>2, JobFields
  <2>2. Saved(jobs[j]) \in EntriesOf(P) /\ jobs[j].block.proposer \in {Self, Peer}
    BY <2>1 DEF Saved, EntriesOf, BlocksOf
  <2>3. HistoryOf(chain', <<>>)
          = WithBlock(HistoryOf(chain, jobs[j].done), jobs[j].block.proposer)
    BY <1>0, <1>2, <2>2, HistoryOfBlock DEF Saved
  <2>4. HistoryOf(chain', <<>>) \in H
    BY <1>2, <2>2, <2>3 DEF Closed, HistoryInv
  <2>. QED
    BY <1>2, <2>4 DEF HistoryInv
<1>3. CASE UNCHANGED vars
  BY <1>3 DEF vars, headVars, HistoryInv
<1>. QED
  BY <1>1, <1>2, <1>3, HistorySteps

LEMMA HistoryAtStart ==
  ASSUME Init, NEW H,
         [trie |-> Base, past |-> <<>>, done |-> <<>>, burnt |-> 0] \in H
  PROVE  HistoryInv(H)
<1>1. ExecutionsOf(<<>>) = <<>>
  BY ToldFold, Told!FoldEmpty
<1>2. BurntBy(<<>>) = 0
  BY BurningFold, Burning!FoldEmpty
<1>3. HistoryOf(<<>>, <<>>) = [trie |-> Base, past |-> <<>>, done |-> <<>>, burnt |-> 0]
  BY <1>1, <1>2, AfterNothing, NothingExecuted DEF HistoryOf
<1>. QED
  BY <1>3 DEF Init, HistoryInv

\* What the proposer's share changes.
LEMMA CreditedAccounts ==
  ASSUME NEW t \in Tries, NEW p \in Addresses, NEW n \in Nat
  PROVE  /\ Credited(t, p, n) \in Tries
         /\ \A a \in Addresses :
              /\ Credited(t, p, n)[a].nonce = t[a].nonce
              /\ Credited(t, p, n)[a].storage = t[a].storage
              /\ Credited(t, p, n)[a].balance = t[a].balance + (IF a = p THEN n ELSE 0)
<1>. DEFINE acc == [t[p] EXCEPT !.balance = @ + n]  u == [t EXCEPT ![p] = acc]
<1>1. t[p] \in Accounts
  BY DEF Tries
<1>2. /\ acc \in Accounts /\ acc.nonce = t[p].nonce /\ acc.storage = t[p].storage
      /\ acc.balance = t[p].balance + n
  BY <1>1 DEF Accounts
<1>. HIDE DEF acc
<1>3. u \in Tries /\ u[p] = acc /\ \A a \in Addresses : a # p => u[a] = t[a]
  BY <1>2 DEF Tries
<1>4. Credited(t, p, n) = u
  BY DEF Credited, acc
<1>. HIDE DEF u
<1>5. ASSUME NEW a \in Addresses
      PROVE  /\ u[a].nonce = t[a].nonce /\ u[a].storage = t[a].storage
             /\ u[a].balance = t[a].balance + (IF a = p THEN n ELSE 0)
  <2>1. t[a].balance \in Nat
    BY DEF Tries, Accounts
  <2>2. CASE a = p
    BY <1>2, <1>3, <2>2
  <2>3. CASE a # p
    BY <1>3, <2>1, <2>3
  <2>. QED
    BY <2>2, <2>3
<1>. QED
  BY <1>3, <1>4, <1>5

LEMMA AppendAfter ==
  ASSUME NEW S, NEW s \in Seq(S), NEW d \in Seq(S), NEW x \in S
  PROVE  /\ s \o Append(d, x) = Append(s \o d, x)
         /\ s \o d \in Seq(S) /\ (s \o d) \o <<>> = s \o d
<1>1. /\ s \o d \in Seq(S) /\ (s \o d) \o <<>> = s \o d
  <2>1. s \o d \in Seq(S)
    OBVIOUS
  <2>. QED
    BY <2>1, EmptySeq, ConcatEmptySeq
<1>2. s \o Append(d, x) = Append(s \o d, x)
  <2>1. <<x>> \in Seq(S)
    OBVIOUS
  <2>2. Append(d, x) = d \o <<x>> /\ Append(s \o d, x) = (s \o d) \o <<x>>
    BY <1>1, AppendIsConcat
  <2>3. s \o (d \o <<x>>) = (s \o d) \o <<x>>
    BY <2>1, ConcatAssociative
  <2>. QED
    BY <2>2, <2>3
<1>. QED
  BY <1>1, <1>2

LEMMA PastAndDone ==
  ASSUME NEW P, NEW h, NEW tx \in Held(P),
         h.past \in Seq(Held(P)), h.done \in Seq(Held(P))
  PROVE  /\ h.past \o h.done \in Seq(Held(P))
         /\ h.past \o Append(h.done, tx) = Append(h.past \o h.done, tx)
<1>. DEFINE s == h.past  d == h.done
<1>1. s \in Seq(Held(P)) /\ d \in Seq(Held(P))
  OBVIOUS
<1>. HIDE DEF s, d
<1>2. s \o d \in Seq(Held(P)) /\ s \o Append(d, tx) = Append(s \o d, tx)
  BY <1>1, AppendAfter
<1>. QED
  BY <1>2 DEF s, d

LEMMA HistoryTypes ==
  ASSUME NEW P, P \subseteq Transactions, NEW h \in Histories(P)
  PROVE  /\ h.trie \in Tries /\ h.burnt \in Int
         /\ h.past \in Seq(Held(P)) /\ h.done \in Seq(Held(P))
         /\ h.done \in Seq(Transactions)
         /\ \A tx \in Held(P) : WithTx(h, tx) \in Histories(P)
         /\ \A p \in {Self, Peer} :
              /\ Credited(h.trie, p, ProposerShare(h.done)) \in Tries
              /\ WithBlock(h, p) \in Histories(P)
<1>1. /\ h.trie \in Tries /\ h.burnt \in Int
      /\ h.past \in Seq(Held(P)) /\ h.done \in Seq(Held(P))
  BY DEF Histories
<1>2. h.done \in Seq(Transactions)
  BY <1>1, HeldType, SeqsGrow
<1>3. ASSUME NEW tx \in Held(P) PROVE WithTx(h, tx) \in Histories(P)
  <2>1. tx \in Transactions
    BY HeldType
  <2>2. Execute(h.trie, tx) \in Tries
    BY <1>1, <2>1, ExecuteType
  <2>. QED
    BY <1>1, <2>2 DEF WithTx, Histories
<1>4. ASSUME NEW p \in {Self, Peer}
      PROVE  /\ Credited(h.trie, p, ProposerShare(h.done)) \in Tries
             /\ WithBlock(h, p) \in Histories(P)
  <2>1. Credited(h.trie, p, ProposerShare(h.done)) \in Tries
    <3>1. p \in Addresses /\ ProposerShare(h.done) \in Nat
      BY <1>2, ShareType, NodeAssumption
    <3>. QED
      BY <1>1, <3>1, CreditedAccounts
  <2>2. TotalFees(h.done) \in Nat /\ ProposerShare(h.done) \in Nat
    BY <1>2, FeesType, ShareType
  <2>3. h.burnt + (TotalFees(h.done) - ProposerShare(h.done)) \in Int
    BY <1>1, <2>2
  <2>4. h.past \o h.done \in Seq(Held(P)) /\ <<>> \in Seq(Held(P))
    BY <1>1
  <2>. QED
    BY <2>1, <2>3, <2>4 DEF WithBlock, Histories
<1>. QED
  BY <1>1, <1>2, <1>3, <1>4

\* What a closed set of histories is good for: the inductive invariant, and what it
\* says of the chain.
Within(H) == NodeTypes(Txs) /\ StateInv /\ HistoryInv(H)
NoHistory == [trie |-> Base, past |-> <<>>, done |-> <<>>, burnt |-> 0]

LEMMA WithinAlways ==
  ASSUME OneAtATime, NEW H, Closed(Txs, H), NoHistory \in H
  PROVE  /\ Init => Within(H)
         /\ Within(H) /\ [Next]_vars => Within(H)'
<1>1. Txs \subseteq Transactions
  BY NodeAssumption
<1>2. Init => Within(H)
  BY TypesAtStart, StateAtStart, HistoryAtStart DEF Within, NoHistory
<1>3. Within(H) /\ [Next]_vars => Within(H)'
  <2>. SUFFICES ASSUME Within(H), [Next]_vars PROVE Within(H)'
    OBVIOUS
  <2>0. NodeTypes(Txs) /\ StateInv /\ HistoryInv(H)
    BY DEF Within
  <2>1. NodeTypes(Txs)' /\ HistoryInv(H)'
    BY <1>1, <2>0, TypesKept, HistoryKept DEF NodeTypes
  <2>2. ASSUME UNCHANGED vars PROVE StateInv'
    BY <2>0, <2>2, StateUntouched DEF vars, stateVars, headVars
  <2>3. ASSUME Next PROVE StateInv'
    BY <1>1, <2>0, <2>3, StateKept DEF NodeTypes
  <2>. QED
    BY <2>1, <2>2, <2>3 DEF Within
<1>. QED
  BY <1>2, <1>3

LEMMA WithinOfChain ==
  ASSUME NEW H, Closed(Txs, H), Within(H)
  PROVE  /\ After(chain) \in Tries
         /\ Executions \in Seq(Held(Txs))
         /\ \E h \in H : /\ h.trie = After(chain) /\ h.past = Executions
                        /\ h.done = <<>> /\ h.burnt = BurntBy(chain)
                        /\ h.past \o h.done = Executions
<1>1. Txs \subseteq Transactions
  BY NodeAssumption
<1>. DEFINE h == HistoryOf(chain, <<>>)
<1>2. /\ h.trie = After(chain) /\ h.past = Executions
      /\ h.done = <<>> /\ h.burnt = BurntBy(chain)
  BY NothingExecuted DEF HistoryOf, Executions, ExecutionsOf
<1>3. h \in H /\ H \subseteq Histories(Txs)
  BY DEF Within, HistoryInv, Closed
<1>. HIDE DEF h
<1>4. h.trie \in Tries /\ h.past \in Seq(Held(Txs))
  BY <1>3 DEF Histories
<1>5. Executions \o <<>> = Executions
  BY <1>2, <1>4, ConcatEmptySeq
<1>. QED
  BY <1>2, <1>3, <1>4, <1>5

-----------------------------------------------------------------------------
(* Nonces.                                                                 *)

Uses(txs, a, n)  == {i \in DOMAIN txs : txs[i].from = a /\ txs[i].nonce = n}
Times(txs, a, n) == Cardinality(Uses(txs, a, n))

\* A nonce that is in the past was used at most twice, the account's own at most
\* once, a later one never.
Counted(t, txs) ==
  \A a \in Addresses \ {System}, n \in Nat :
    Times(txs, a, n) <= IF n < t[a].nonce THEN 2 ELSE IF n = t[a].nonce THEN 1 ELSE 0

LEMMA OneMoreUse ==
  ASSUME NEW S, NEW txs \in Seq(S), NEW tx \in S, NEW a, NEW n
  PROVE  /\ Times(txs, a, n) \in Nat
         /\ Times(Append(txs, tx), a, n)
              = Times(txs, a, n) + (IF tx.from = a /\ tx.nonce = n THEN 1 ELSE 0)
<1>. DEFINE u == Uses(txs, a, n)  k == Len(txs) + 1
<1>1. IsFiniteSet(1..Len(txs))
  <2>1. 1 \in Int /\ Len(txs) \in Int
    OBVIOUS
  <2>. QED
    BY <2>1, FS_Interval
<1>2. u \subseteq 1..Len(txs) /\ k \notin u
  BY DEF Uses
<1>3. IsFiniteSet(u) /\ Cardinality(u) \in Nat
  BY <1>1, <1>2, FS_Subset, FS_CardinalityType
<1>4. Uses(Append(txs, tx), a, n)
        = IF tx.from = a /\ tx.nonce = n THEN u \cup {k} ELSE u
  <2>1. /\ DOMAIN Append(txs, tx) = 1..k /\ Append(txs, tx)[k] = tx
        /\ \A i \in 1..Len(txs) : Append(txs, tx)[i] = txs[i]
        /\ 1..k = (1..Len(txs)) \cup {k}
    OBVIOUS
  <2>. QED
    BY <2>1 DEF Uses
<1>. HIDE DEF u, k
<1>5. Cardinality(u \cup {k}) = Cardinality(u) + 1
  BY <1>2, <1>3, FS_AddElement
<1>. QED
  BY <1>3, <1>4, <1>5 DEF Times, u

LEMMA CountedClosed ==
  ASSUME NEW P, P \subseteq Transactions
  PROVE  Closed(P, {h \in Histories(P) : Counted(h.trie, h.past \o h.done)})
<1>. DEFINE H == {h \in Histories(P) : Counted(h.trie, h.past \o h.done)}
<1>1. ASSUME NEW h \in H, NEW tx \in Held(P), Valid(h.trie, tx)
      PROVE  WithTx(h, tx) \in H
  <2>. DEFINE t == h.trie  e == h.past \o h.done  u == Execute(t, tx)
  <2>1. /\ t \in Tries /\ e \in Seq(Held(P)) /\ tx \in Transactions
        /\ WithTx(h, tx) \in Histories(P)
        /\ h.past \in Seq(Held(P)) /\ h.done \in Seq(Held(P))
    <3>1. h.past \in Seq(Held(P)) /\ h.done \in Seq(Held(P))
      BY HistoryTypes
    <3>2. e \in Seq(Held(P))
      BY <3>1
    <3>. QED
      BY <3>1, <3>2, HistoryTypes, HeldType
  <2>2. h.past \o Append(h.done, tx) = Append(e, tx)
    BY <1>1, <2>1, PastAndDone
  <2>3. /\ WithTx(h, tx).trie = u
        /\ WithTx(h, tx).past \o WithTx(h, tx).done = Append(e, tx)
    BY <2>2 DEF WithTx
  <2>4. Counted(t, e)
    OBVIOUS
  <2>. HIDE DEF t, e, u
  <2>5. Counted(u, Append(e, tx))
    <3>. SUFFICES ASSUME NEW a \in Addresses \ {System}, NEW n \in Nat
                  PROVE  Times(Append(e, tx), a, n)
                           <= IF n < u[a].nonce THEN 2 ELSE IF n = u[a].nonce THEN 1 ELSE 0
      BY DEF Counted
    <3>1. /\ Times(e, a, n) \in Nat
          /\ Times(Append(e, tx), a, n)
               = Times(e, a, n) + (IF tx.from = a /\ tx.nonce = n THEN 1 ELSE 0)
      BY <2>1, OneMoreUse
    <3>2. Times(e, a, n)
            <= IF n < t[a].nonce THEN 2 ELSE IF n = t[a].nonce THEN 1 ELSE 0
      BY <2>4 DEF Counted
    <3>3. /\ t[a].nonce \in Nat
          /\ u[a].nonce = t[a].nonce + (IF a = tx.from /\ tx.from # System THEN 1 ELSE 0)
      BY <1>1, <2>1, Executes DEF Tries, Accounts, u, t
    <3>4. a = tx.from => tx.nonce \in {t[a].nonce, t[a].nonce + 1}
      BY <1>1, <2>1, SenderType DEF t
    <3>. QED
      BY <3>1, <3>2, <3>3, <3>4
  <2>. QED
    BY <2>1, <2>3, <2>5
<1>2. ASSUME NEW h \in H, NEW p \in {Self, Peer}
      PROVE  WithBlock(h, p) \in H
  <2>. DEFINE t == h.trie  n == ProposerShare(h.done)  e == h.past \o h.done
  <2>1. /\ t \in Tries /\ n \in Nat /\ e \in Seq(Held(P)) /\ p \in Addresses
        /\ WithBlock(h, p) \in Histories(P)
    <3>1. h.past \in Seq(Held(P)) /\ h.done \in Seq(Held(P)) /\ h.done \in Seq(Transactions)
      BY HistoryTypes
    <3>2. e \in Seq(Held(P)) /\ n \in Nat
      BY <3>1, ShareType
    <3>. QED
      BY <3>1, <3>2, HistoryTypes, NodeAssumption
  <2>2. /\ WithBlock(h, p).trie = Credited(t, p, n)
        /\ WithBlock(h, p).past \o WithBlock(h, p).done = e \o <<>>
    BY DEF WithBlock
  <2>6. e \o <<>> = e
    BY <2>1, ConcatEmptySeq
  <2>3. Counted(t, e)
    OBVIOUS
  <2>. HIDE DEF t, n, e
  <2>4. \A a \in Addresses : Credited(t, p, n)[a].nonce = t[a].nonce
    BY <2>1, CreditedAccounts
  <2>5. Counted(Credited(t, p, n), e)
    BY <2>3, <2>4 DEF Counted
  <2>. QED
    BY <2>1, <2>2, <2>5, <2>6
<1>. QED
  BY <1>1, <1>2 DEF Closed

\* No nonce of an account is executed a third time, by one transaction or by two, if
\* one block is executed at a time.
THEOREM NonceUsedAtMostTwice ==
  ASSUME OneAtATime
  PROVE  Spec => []ExecutedAtMostTwice
<1>. DEFINE H   == {h \in Histories(Txs) : Counted(h.trie, h.past \o h.done)}
            Inv == Within(H)
<1>1. Txs \subseteq Transactions
  BY NodeAssumption
<1>2. NoHistory \in H
  <2>1. Counted(Base, <<>>)
    <3>1. \A a, n : Times(<<>>, a, n) = 0
      BY FS_EmptySet DEF Times, Uses
    <3>. QED
      BY <3>1 DEF Counted
  <2>2. <<>> \o <<>> = <<>>
    OBVIOUS
  <2>3. NoHistory \in Histories(Txs)
    BY NodeAssumption DEF Histories, NoHistory
  <2>4. NoHistory.trie = Base /\ NoHistory.past = <<>> /\ NoHistory.done = <<>>
    BY DEF NoHistory
  <2>5. Counted(NoHistory.trie, NoHistory.past \o NoHistory.done)
    BY <2>1, <2>2, <2>4
  <2>. QED
    BY <2>3, <2>5
<1>3. Closed(Txs, H)
  BY <1>1, CountedClosed
<1>4. ASSUME NEW h \in H PROVE Counted(h.trie, h.past \o h.done)
  OBVIOUS
<1>. HIDE DEF H
<1>5. (Init => Inv) /\ (Inv /\ [Next]_vars => Inv')
  BY <1>2, <1>3, WithinAlways
<1>6. Inv => ExecutedAtMostTwice
  <2>. SUFFICES ASSUME Inv PROVE ExecutedAtMostTwice
    OBVIOUS
  <2>1. /\ Counted(After(chain), Executions)
        /\ After(chain) \in Tries /\ Executions \in Seq(Held(Txs))
    BY <1>3, <1>4, WithinOfChain
  <2>. DEFINE e == Executions
  <2>. HIDE DEF e
  <2>2. ASSUME NEW tx \in Txs PROVE Times(e, tx.from, tx.nonce) <= 2
    <3>1. tx.from \in Addresses \ {System} /\ tx.nonce \in Nat
      BY NodeAssumption DEF Transactions
    <3>2. After(chain)[tx.from].nonce \in Nat
      BY <2>1, <3>1 DEF Tries, Accounts
    <3>3. Times(e, tx.from, tx.nonce)
            <= IF tx.nonce < After(chain)[tx.from].nonce THEN 2
               ELSE IF tx.nonce = After(chain)[tx.from].nonce THEN 1 ELSE 0
      BY <2>1, <3>1 DEF Counted, e
    <3>4. tx \in Held(Txs)
      BY DEF Held
    <3>5. Times(e, tx.from, tx.nonce) \in Nat
      BY <2>1, <3>4, OneMoreUse DEF e
    <3>. QED
      BY <3>3, <3>5
  <2>. QED
    BY <2>2, Zenon DEF ExecutedAtMostTwice, Times, Uses, e
<1>. QED
  BY <1>5, <1>6, PTL DEF Spec

-----------------------------------------------------------------------------
(* The supply.  A set of accounts has a sum only if it is finite.          *)

Balances(t) == [a \in Addresses |-> t[a].balance]

LEMMA SupplyType ==
  ASSUME IsFiniteSet(Addresses), NEW t \in Tries
  PROVE  Balances(t) \in [Addresses -> Int] /\ Supply(t) \in Int
<1>1. Balances(t) \in [Addresses -> Int]
  BY DEF Balances, Tries, Accounts
<1>2. SumFunction(Balances(t)) \in Int
  BY <1>1, SumType
<1>. QED
  BY <1>1, <1>2 DEF Supply, Balances

\* A reward adds to the supply, the fee of a transaction is taken from it.
LEMMA SupplyOfExecuted ==
  ASSUME IsFiniteSet(Addresses), NEW P, P \subseteq Transactions,
         \A tx \in P : tx.from # System,
         NEW t \in Tries, NEW tx \in Held(P), Valid(t, tx)
  PROVE  Supply(Execute(t, tx))
           = Supply(t) + (IF tx.from = System THEN tx.value ELSE 0) - BaseGas * tx.price
<1>1. tx \in Transactions
  BY HeldType
<1>2. /\ tx.from \in Addresses /\ tx.to \in Addresses /\ tx.value \in Nat
      /\ tx.price \in Nat /\ tx.amount \in Nat
  BY <1>1 DEF Transactions
<1>3. BaseGas * tx.price \in Nat
  BY <1>2, LedgerAssumption
<1>4. Unstaked(tx) \in Nat
  BY <1>2 DEF Unstaked
<1>5. tx.from = System => Unstaked(tx) = 0 /\ BaseGas * tx.price = 0
  <2>1. tx.from = System => tx \in Coinbases
    BY DEF Held
  <2>2. tx \in Coinbases => tx.cmd = "none" /\ tx.price = 0
    BY DEF Coinbases, Coinbase
  <2>. QED
    BY <2>1, <2>2, LedgerAssumption DEF Unstaked
<1>. DEFINE u == Execute(t, tx)  f == Balances(t)  h == Balances(u)
            from == tx.from  to == tx.to  spent == 0 - Spent(tx)  gained == Gained(tx)
            g == [f EXCEPT ![from] = @ + spent]
<1>6. u \in Tries
  BY <1>1, ExecuteType
<1>7. f \in [Addresses -> Int] /\ h \in [Addresses -> Int]
  BY <1>6, SupplyType
<1>8. /\ spent \in Int /\ gained \in Int /\ Spent(tx) = 0 - spent
      /\ from \in Addresses /\ to \in Addresses
  BY <1>2, <1>3, <1>4 DEF Spent, Gained
<1>9. \A a \in Addresses :
         h[a] = f[a] + (IF a = from THEN spent ELSE 0) + (IF a = to THEN gained ELSE 0)
  <2>1. \A a \in Addresses :
          h[a] = f[a] - (IF a = from THEN Spent(tx) ELSE 0)
                      + (IF a = to THEN gained ELSE 0)
    BY <1>1, Executes DEF Balances
  <2>. HIDE DEF f, h, from, to, gained, spent
  <2>. QED
    BY <1>7, <1>8, <2>1
<1>10. Supply(t) = SumFunction(f) /\ Supply(u) = SumFunction(h)
  BY DEF Supply, Balances
<1>11. SumFunction(f) \in Int
  BY <1>7, SumType
<1>. HIDE DEF u, f, h, from, to, spent, gained
<1>12. g \in [Addresses -> Int] /\ h = [g EXCEPT ![to] = @ + gained]
  <2>1. g \in [Addresses -> Int]
    BY <1>7, <1>8
  <2>2. \A a \in Addresses : g[a] = f[a] + (IF a = from THEN spent ELSE 0)
    BY <1>7, <1>8
  <2>. HIDE DEF g
  <2>3. \A a \in Addresses : h[a] = g[a] + (IF a = to THEN gained ELSE 0)
    BY <1>9, <2>2
  <2>. QED
    BY <1>7, <1>8, <2>1, <2>3
<1>13. SumFunction(g) = SumFunction(f) + spent
  BY <1>7, <1>8, SumAdd, ZenonT(40)
<1>. HIDE DEF g
<1>14. SumFunction(h) = SumFunction(g) + gained
  BY <1>8, <1>12, SumAdd, ZenonT(40)
<1>15. Supply(u) = Supply(t) + (IF tx.from = System THEN tx.value ELSE 0) - BaseGas * tx.price
  <2>1. SumFunction(h) = SumFunction(f) + (0 - Spent(tx)) + Gained(tx)
    BY <1>13, <1>14 DEF spent, gained
  <2>. DEFINE fee == BaseGas * tx.price  back == Unstaked(tx)
  <2>2. fee \in Nat /\ back \in Nat /\ (tx.from = System => back = 0 /\ fee = 0)
    BY <1>3, <1>4, <1>5
  <2>3. /\ Spent(tx) = IF tx.from = System THEN 0 ELSE tx.value + fee - back
        /\ Gained(tx) = tx.value - back
    BY DEF Spent, Gained
  <2>. HIDE DEF fee, back
  <2>4. Supply(u) = Supply(t) + (IF tx.from = System THEN tx.value ELSE 0) - fee
    BY <1>2, <1>10, <1>11, <2>1, <2>2, <2>3
  <2>. QED
    BY <2>4 DEF fee
<1>. QED
  BY <1>15 DEF u

LEMMA SupplyOfCredited ==
  ASSUME IsFiniteSet(Addresses), NEW t \in Tries, NEW p \in Addresses, NEW n \in Nat
  PROVE  Supply(Credited(t, p, n)) = Supply(t) + n
<1>. DEFINE u == Credited(t, p, n)  f == Balances(t)  h == Balances(u)  c == 0 + n
<1>1. u \in Tries /\ \A a \in Addresses : u[a].balance = t[a].balance + (IF a = p THEN n ELSE 0)
  BY CreditedAccounts
<1>2. f \in [Addresses -> Int] /\ h \in [Addresses -> Int]
  BY <1>1, SupplyType
<1>3. h = [f EXCEPT ![p] = @ + c]
  <2>1. \A a \in Addresses : h[a] = f[a] + (IF a = p THEN c ELSE 0)
    BY <1>1 DEF Balances
  <2>. HIDE DEF f, h
  <2>. QED
    BY <1>2, <2>1
<1>4. Supply(t) = SumFunction(f) /\ Supply(u) = SumFunction(h)
  BY DEF Supply, Balances
<1>5. c = n
  OBVIOUS
<1>51. c \in Int
  OBVIOUS
<1>. HIDE DEF u, f, h, c
<1>6. SumFunction([f EXCEPT ![p] = @ + c]) = SumFunction(f) + c
  <2>1. f \in [Addresses -> Int]
    BY <1>2
  <2>. QED
    BY <2>1, <1>51, SumAdd
<1>. QED
  BY <1>3, <1>4, <1>5, <1>6 DEF u

\* What was minted and burnt accounts for the difference to the supply at the start.
Balanced(h) ==
  Supply(h.trie)
    = Supply(Base) + RewardsOf(h.past \o h.done) - h.burnt - TotalFees(h.done)

LEMMA RewardsType ==
  ASSUME NEW txs \in Seq(Transactions)
  PROVE  RewardsOf(txs) \in Nat
<1>1. \A n \in Nat, tx \in Transactions :
        n + (IF tx.from = System THEN tx.value ELSE 0) \in Nat
  BY DEF Transactions
<1>2. Minted!Folded(0, txs) \in Nat
  BY <1>1, Minted!FoldType
<1>. QED
  BY <1>2, MintedFold

LEMMA OneMoreReward ==
  ASSUME NEW S, NEW txs \in Seq(S), NEW tx \in S
  PROVE  RewardsOf(Append(txs, tx))
           = RewardsOf(txs) + (IF tx.from = System THEN tx.value ELSE 0)
  BY MintedFold, Minted!FoldAppend

LEMMA BalancedClosed ==
  ASSUME IsFiniteSet(Addresses), NEW P, P \subseteq Transactions,
         \A tx \in P : tx.from # System
  PROVE  Closed(P, {h \in Histories(P) : Balanced(h)})
<1>. DEFINE H == {h \in Histories(P) : Balanced(h)}
<1>1. ASSUME NEW h \in H, NEW tx \in Held(P), Valid(h.trie, tx)
      PROVE  WithTx(h, tx) \in H
  <2>. DEFINE t == h.trie  e == h.past \o h.done  u == WithTx(h, tx)
              reward == IF tx.from = System THEN tx.value ELSE 0
              fee == BaseGas * tx.price
  <2>0. h \in Histories(P) /\ Balanced(h)
    BY <1>1
  <2>. HIDE DEF H
  <2>1. /\ t \in Tries /\ h.burnt \in Int /\ tx \in Transactions /\ u \in Histories(P)
        /\ h.past \in Seq(Held(P)) /\ h.done \in Seq(Held(P))
        /\ h.done \in Seq(Transactions)
    BY <2>0, HistoryTypes, HeldType
  <2>2. e \in Seq(Held(P)) /\ h.past \o Append(h.done, tx) = Append(e, tx)
    BY <1>1, <2>1, PastAndDone
  <2>3. /\ u.trie = Execute(t, tx) /\ u.burnt = h.burnt
        /\ u.past \o u.done = Append(e, tx) /\ u.done = Append(h.done, tx)
    BY <2>2 DEF WithTx
  <2>4. Supply(Execute(t, tx)) = Supply(t) + reward - fee
    BY <1>1, <2>1, SupplyOfExecuted
  <2>5. RewardsOf(Append(e, tx)) = RewardsOf(e) + reward
    <3>. HIDE DEF e
    <3>. QED
      BY <2>2, OneMoreReward
  <2>6. TotalFees(Append(h.done, tx)) = TotalFees(h.done) + fee
    BY <2>1, OneMoreFee
  <2>7. /\ Supply(t) \in Int /\ Supply(Base) \in Int
        /\ TotalFees(h.done) \in Nat /\ reward \in Nat /\ fee \in Nat
    <3>1. tx.value \in Nat /\ tx.price \in Nat /\ BaseGas \in Nat
      BY <2>1, LedgerAssumption DEF Transactions
    <3>2. fee \in Nat
      BY <3>1
    <3>. QED
      BY <2>1, <3>1, <3>2, SupplyType, FeesType, NodeAssumption
  <2>8. RewardsOf(e) \in Nat
    <3>1. e \in Seq(Transactions)
      BY <2>2, HeldType, SeqsGrow
    <3>. QED
      BY <3>1, RewardsType
  <2>9. Supply(t) = Supply(Base) + RewardsOf(e) - h.burnt - TotalFees(h.done)
    BY <2>0 DEF Balanced
  <2>. HIDE DEF t, e, u, reward, fee
  <2>10. Balanced(u)
    <3>1. Supply(u.trie)
            = Supply(Base) + (RewardsOf(e) + reward) - h.burnt - (TotalFees(h.done) + fee)
      BY <2>1, <2>3, <2>4, <2>7, <2>8, <2>9
    <3>. QED
      BY <2>3, <2>5, <2>6, <3>1 DEF Balanced
  <2>. QED
    BY <2>1, <2>10 DEF H, u
<1>2. ASSUME NEW h \in H, NEW p \in {Self, Peer}
      PROVE  WithBlock(h, p) \in H
  <2>. DEFINE t == h.trie  e == h.past \o h.done  u == WithBlock(h, p)
              n == ProposerShare(h.done)
  <2>0. h \in Histories(P) /\ Balanced(h)
    BY <1>2
  <2>. HIDE DEF H
  <2>1. /\ t \in Tries /\ h.burnt \in Int /\ u \in Histories(P)
        /\ h.past \in Seq(Held(P)) /\ h.done \in Seq(Held(P))
        /\ h.done \in Seq(Transactions) /\ p \in Addresses
    BY <1>2, <2>0, HistoryTypes, NodeAssumption
  <2>2. n \in Nat /\ TotalFees(h.done) \in Nat
    BY <2>1, ShareType, FeesType
  <2>3. e \in Seq(Held(P)) /\ e \o <<>> = e
    BY <2>1, ConcatEmptySeq
  <2>4. /\ u.trie = Credited(t, p, n) /\ u.burnt = h.burnt + (TotalFees(h.done) - n)
        /\ u.past \o u.done = e /\ u.done = <<>>
    BY <2>3 DEF WithBlock
  <2>5. Supply(Credited(t, p, n)) = Supply(t) + n
    BY <2>1, <2>2, SupplyOfCredited
  <2>6. RewardsOf(e) \in Nat /\ Supply(t) \in Int /\ Supply(Base) \in Int
    <3>1. e \in Seq(Transactions)
      BY <2>3, HeldType, SeqsGrow
    <3>. QED
      BY <2>1, <3>1, RewardsType, SupplyType, NodeAssumption
  <2>7. Supply(t) = Supply(Base) + RewardsOf(e) - h.burnt - TotalFees(h.done)
    BY <2>0 DEF Balanced
  <2>. HIDE DEF t, e, u, n
  <2>8. Balanced(u)
    BY <2>1, <2>2, <2>4, <2>5, <2>6, <2>7, NoFees DEF Balanced
  <2>. QED
    BY <2>1, <2>8 DEF H, u
<1>. QED
  BY <1>1, <1>2 DEF Closed

\* No token appears or is lost but by the rewards and the burnt part of the fees, if
\* one block is executed at a time.
THEOREM SupplyIsAccounted ==
  ASSUME OneAtATime, IsFiniteSet(Addresses)
  PROVE  Spec => []SupplyAccounted
<1>. DEFINE H   == {h \in Histories(Txs) : Balanced(h)}
            Inv == Within(H)
<1>1. Txs \subseteq Transactions /\ \A tx \in Txs : tx.from # System
  BY NodeAssumption
<1>2. NoHistory \in H
  <2>1. NoHistory \in Histories(Txs)
    BY NodeAssumption DEF Histories, NoHistory
  <2>2. /\ NoHistory.trie = Base /\ NoHistory.past \o NoHistory.done = <<>>
        /\ NoHistory.done = <<>> /\ NoHistory.burnt = 0
    BY DEF NoHistory
  <2>3. RewardsOf(<<>>) = 0 /\ TotalFees(<<>>) = 0
    BY MintedFold, Minted!FoldEmpty, NoFees
  <2>4. Supply(Base) \in Int
    BY SupplyType, NodeAssumption
  <2>5. Supply(Base) = Supply(Base) + 0 - 0 - 0
    BY <2>4
  <2>6. Balanced(NoHistory)
    BY <2>2, <2>3, <2>5 DEF Balanced
  <2>. QED
    BY <2>1, <2>6
<1>3. Closed(Txs, H)
  BY <1>1, BalancedClosed
<1>4. ASSUME NEW h \in H PROVE h \in Histories(Txs) /\ Balanced(h)
  OBVIOUS
<1>. HIDE DEF H
<1>5. (Init => Inv) /\ (Inv /\ [Next]_vars => Inv')
  BY <1>2, <1>3, WithinAlways
<1>6. Inv => SupplyAccounted
  <2>. SUFFICES ASSUME Inv, Quiescent
                PROVE  Supply(trie)
                         = Supply(Base) + RewardsOf(Executions) - BurntBy(chain)
    BY DEF SupplyAccounted, RewardsOf, BurntBy
  <2>1. PICK h \in H : /\ h.trie = After(chain) /\ h.done = <<>>
                       /\ h.burnt = BurntBy(chain) /\ h.past \o h.done = Executions
    BY <1>3, WithinOfChain
  <2>2. trie = After(chain)
    BY DEF Within, StateInv
  <2>3. h.burnt \in Int
    BY <1>4 DEF Histories
  <2>4. Executions \in Seq(Transactions)
    BY <1>1, <1>3, WithinOfChain, HeldType, SeqsGrow
  <2>5. RewardsOf(Executions) \in Nat /\ Supply(Base) \in Int
    BY <2>4, RewardsType, SupplyType, NodeAssumption
  <2>6. Balanced(h)
    BY <1>4
  <2>7. Supply(h.trie) = Supply(Base) + RewardsOf(Executions) - h.burnt - 0
    BY <2>1, <2>6, NoFees DEF Balanced
  <2>. QED
    BY <2>1, <2>2, <2>3, <2>5, <2>7
<1>. QED
  BY <1>5, <1>6, PTL DEF Spec

-----------------------------------------------------------------------------
(* The stakes.                                                             *)

Covered(t) == SumFunction(t[Staking].storage.stake) <= t[Staking].balance

LEMMA CoveredByExecuted ==
  ASSUME IsFiniteSet(Addresses), NEW t \in Tries, NEW tx \in Transactions,
         tx.from # Staking, Valid(t, tx), Covered(t)
  PROVE  Covered(Execute(t, tx))
<1>. DEFINE u == Execute(t, tx)  st == t[Staking].storage
            old == st.stake  from == tx.from
            new == NewStake(tx, st)  c == Stored(new) - old[from]
<1>1. st \in Storages /\ t[Staking].balance \in Nat /\ Staking \in Addresses
  BY LedgerAssumption DEF Tries, Accounts
<1>2. from \in Addresses /\ tx.value \in Nat /\ Unstaked(tx) \in Nat
  BY DEF Transactions, Unstaked
<1>3. old \in [Addresses -> Nat]
  BY <1>1 DEF Storages
<1>4. /\ u[Staking].balance = t[Staking].balance + (IF tx.to = Staking THEN Gained(tx) ELSE 0)
      /\ u[Staking].storage = IF tx.to = Staking THEN StakedStorage(tx, st) ELSE st
  <2>1. u[Staking].balance = t[Staking].balance - (IF Staking = from THEN Spent(tx) ELSE 0)
                               + (IF Staking = tx.to THEN Gained(tx) ELSE 0)
    BY <1>1, Executes
  <2>2. t[Staking].balance - 0 = t[Staking].balance
    BY <1>1
  <2>3. u[Staking].storage = IF tx.to = Staking THEN StakedStorage(tx, st) ELSE st
    BY Executes
  <2>. QED
    BY <2>1, <2>2, <2>3
<1>5. CASE tx.to = Staking
  <2>1. /\ new \in Nat
        /\ new = old[from] + (IF tx.cmd = "stake" THEN tx.value ELSE 0) - Unstaked(tx)
    BY <1>5, StakeType
  <2>2. Stored(new) \in Nat /\ Stored(new) <= new
    BY <2>1, StoredType
  <2>3. old[from] \in Nat
    BY <1>2, <1>3
  <2>4. c \in Int /\ c <= Gained(tx) /\ Gained(tx) \in Int
    <3>. DEFINE s == Stored(new)  o == old[from]  back == Unstaked(tx)
    <3>1. /\ s \in Nat /\ s <= new /\ o \in Nat /\ new \in Nat /\ back \in Nat
          /\ new = o + (IF tx.cmd = "stake" THEN tx.value ELSE 0) - back
          /\ c = s - o /\ Gained(tx) = tx.value - back
      BY <1>2, <2>1, <2>2, <2>3 DEF Gained
    <3>. HIDE DEF s, o, back, new, c
    <3>. QED
      BY <1>2, <3>1
  <2>5. StakedStorage(tx, st).stake = [old EXCEPT ![from] = @ + c]
    <3>1. StakedStorage(tx, st).stake = [old EXCEPT ![from] = Stored(new)]
      BY DEF StakedStorage
    <3>2. old[from] + c = Stored(new)
      BY <2>2, <2>3
    <3>. QED
      BY <3>1, <3>2
  <2>6. old \in [Addresses -> Int]
    BY <1>3
  <2>. HIDE DEF c, old, from, st, new
  <2>7. SumFunction([old EXCEPT ![from] = @ + c]) = SumFunction(old) + c
    BY <1>2, <2>4, <2>6, SumAdd
  <2>8. SumFunction(old) \in Int
    BY <2>6, SumType
  <2>9. u[Staking].storage.stake = [old EXCEPT ![from] = @ + c]
    BY <1>4, <1>5, <2>5
  <2>10. u[Staking].balance = t[Staking].balance + Gained(tx)
    BY <1>4, <1>5
  <2>11. SumFunction(old) <= t[Staking].balance
    BY DEF Covered, old, st
  <2>12. SumFunction(u[Staking].storage.stake) <= u[Staking].balance
    BY <1>1, <2>4, <2>7, <2>8, <2>9, <2>10, <2>11
  <2>. QED
    BY <2>12 DEF Covered
<1>6. CASE tx.to # Staking
  <2>1. u[Staking].storage = st /\ u[Staking].balance = t[Staking].balance
    BY <1>1, <1>4, <1>6
  <2>. QED
    BY <2>1 DEF Covered
<1>. QED
  BY <1>5, <1>6

LEMMA CoveredClosed ==
  ASSUME IsFiniteSet(Addresses), NEW P, P \subseteq Transactions,
         \A tx \in P : tx.from # Staking
  PROVE  Closed(P, {h \in Histories(P) : Covered(h.trie)})
<1>. DEFINE H == {h \in Histories(P) : Covered(h.trie)}
<1>1. ASSUME NEW h \in H, NEW tx \in Held(P), Valid(h.trie, tx)
      PROVE  WithTx(h, tx) \in H
  <2>1. h.trie \in Tries /\ tx \in Transactions /\ WithTx(h, tx) \in Histories(P)
    BY HistoryTypes, HeldType
  <2>2. tx.from # Staking
    BY LedgerAssumption DEF Held, Coinbases, Coinbase
  <2>3. Covered(Execute(h.trie, tx))
    BY <1>1, <2>1, <2>2, CoveredByExecuted
  <2>4. WithTx(h, tx).trie = Execute(h.trie, tx)
    BY DEF WithTx
  <2>. QED
    BY <2>1, <2>3, <2>4
<1>2. ASSUME NEW h \in H, NEW p \in {Self, Peer}
      PROVE  WithBlock(h, p) \in H
  <2>. DEFINE t == h.trie  n == ProposerShare(h.done)
  <2>1. t \in Tries /\ WithBlock(h, p) \in Histories(P) /\ h.done \in Seq(Transactions)
    BY HistoryTypes
  <2>2. n \in Nat /\ p \in Addresses /\ Staking \in Addresses /\ p # Staking
    BY <2>1, ShareType, LedgerAssumption, NodeAssumption
  <2>3. WithBlock(h, p).trie = Credited(t, p, n)
    BY DEF WithBlock
  <2>4. Covered(t)
    OBVIOUS
  <2>. HIDE DEF t, n
  <2>5. /\ Credited(t, p, n)[Staking].storage = t[Staking].storage
        /\ Credited(t, p, n)[Staking].balance = t[Staking].balance
    <3>1. t[Staking].balance \in Nat
      BY <2>1, <2>2 DEF Tries, Accounts
    <3>2. /\ Credited(t, p, n)[Staking].storage = t[Staking].storage
          /\ Credited(t, p, n)[Staking].balance
               = t[Staking].balance + (IF Staking = p THEN n ELSE 0)
      BY <2>1, <2>2, CreditedAccounts
    <3>. QED
      BY <2>2, <3>1, <3>2
  <2>6. Covered(Credited(t, p, n))
    BY <2>4, <2>5 DEF Covered
  <2>. QED
    BY <2>1, <2>3, <2>6
<1>. QED
  BY <1>1, <1>2 DEF Closed

\* The staking account can pay back every recorded stake, if one block is executed at
\* a time, the stakes of the state at the beginning are covered, and no transaction
\* is sent from that account, whose address is no key's (transaction.ts:5).
THEOREM StakesAreCovered ==
  ASSUME OneAtATime, IsFiniteSet(Addresses), Covered(Base),
         \A tx \in Txs : tx.from # Staking
  PROVE  Spec => []StakesCovered
<1>. DEFINE H   == {h \in Histories(Txs) : Covered(h.trie)}
            Inv == Within(H)
<1>1. Txs \subseteq Transactions
  BY NodeAssumption
<1>2. NoHistory \in H
  BY NodeAssumption DEF Histories, NoHistory
<1>3. Closed(Txs, H)
  BY <1>1, CoveredClosed
<1>4. ASSUME NEW h \in H PROVE Covered(h.trie)
  OBVIOUS
<1>. HIDE DEF H
<1>5. (Init => Inv) /\ (Inv /\ [Next]_vars => Inv')
  BY <1>2, <1>3, WithinAlways
<1>6. Inv => StakesCovered
  <2>. SUFFICES ASSUME Inv, Quiescent PROVE Covered(trie)
    BY DEF StakesCovered, Covered
  <2>1. PICK h \in H : h.trie = After(chain)
    BY <1>3, WithinOfChain
  <2>2. trie = After(chain)
    BY DEF Within, StateInv
  <2>. QED
    BY <1>4, <2>1, <2>2
<1>. QED
  BY <1>5, <1>6, PTL DEF Spec

-----------------------------------------------------------------------------
(* The mutex and the heights of blocks, for any number of executions at a  *)
(* time: only one of them commits, and it commits the next height.         *)

Holds(job) == job # Idle /\ job.kind # "propose" /\ job.phase # "waiting"

JobHeight(job, n) ==
  /\ job.kind = "commit" => job.phase # "waiting" /\ job.block.height = n + 1
  /\ job.kind # "propose" \/ job.phase # "executing" => job.block.height <= n + 1

HeightInv ==
  /\ \A i, j \in Jobs : Holds(jobs[i]) /\ Holds(jobs[j]) => i = j
  /\ \A j \in Jobs : jobs[j] # Idle => JobHeight(jobs[j], Len(chain))
  /\ \A b \in pending : b.height <= Len(chain) + 1
  /\ \A i \in DOMAIN chain : chain[i].block.height = i

\* A step of one job that does not end a commit.
LEMMA HeightStep ==
  ASSUME HeightInv, NEW j \in Jobs, \A i \in Jobs : i # j => jobs'[i] = jobs[i],
         chain' = chain,
         \A b \in pending' : b \in pending \/ b.height <= Len(chain) + 1,
         jobs'[j] # Idle => JobHeight(jobs'[j], Len(chain)),
         Holds(jobs'[j]) => Holds(jobs[j]) \/ MutexFree
  PROVE  HeightInv'
<1>1. ASSUME NEW i \in Jobs, NEW k \in Jobs, Holds(jobs'[i]), Holds(jobs'[k])
      PROVE  i = k
  <2>1. MutexFree => \A l \in Jobs : ~ Holds(jobs[l])
    BY DEF MutexFree, Holds
  <2>. QED
    BY <1>1, <2>1 DEF HeightInv
<1>2. ASSUME NEW i \in Jobs, jobs'[i] # Idle
      PROVE  JobHeight(jobs'[i], Len(chain))
  BY <1>2 DEF HeightInv
<1>. QED
  BY <1>1, <1>2 DEF HeightInv

\* The job goes on with its block.
LEMMA HeightSame ==
  ASSUME NEW P, ExecutionTypes(P), HeightInv, NEW j \in Jobs,
         \/ TxExecuted(j) \/ TxLost(j) \/ Writing(j) \/ CommitExecuted(j)
         \/ StateCommitted(j)
  PROVE  HeightInv'
<1>0. jobs \in [Jobs -> JobsOf(P)]
  BY DEF ExecutionTypes
<1>1. jobs[j] # Idle
  BY DEF TxExecuted, TxLost, Writing, CommitExecuted, StateCommitted, Executed,
         Executing, In
<1>2. jobs[j] \in ActiveOf(P)
  BY <1>0, <1>1, JobFields
<1>3. chain' = chain /\ pending' = pending
  BY DEF TxExecuted, TxLost, Writing, CommitExecuted, StateCommitted, headVars
<1>4. \A i \in Jobs : i # j => jobs'[i] = jobs[i]
  BY <1>0 DEF TxExecuted, TxLost, Writing, CommitExecuted, StateCommitted
<1>5. \/ jobs'[j] = Idle
      \/ /\ jobs'[j].kind = jobs[j].kind /\ jobs'[j].block = jobs[j].block
         /\ \/ jobs'[j].phase = jobs[j].phase
            \/ /\ jobs[j].kind = "commit" /\ jobs'[j].phase \in {"sharing", "saving"}
  BY <1>0, <1>2 DEF TxExecuted, TxLost, Writing, CommitExecuted, StateCommitted,
                    Executed, In, ActiveOf
<1>6. JobHeight(jobs[j], Len(chain))
  BY <1>1 DEF HeightInv
<1>7. jobs'[j] # Idle => JobHeight(jobs'[j], Len(chain))
  BY <1>5, <1>6 DEF JobHeight
<1>8. Holds(jobs'[j]) => Holds(jobs[j])
  BY <1>1, <1>5, <1>6 DEF Holds, JobHeight
<1>. QED
  BY <1>3, <1>4, <1>7, <1>8, HeightStep

\* A job begins or ends, or a proposal gets its block.
LEMMA HeightBegins ==
  ASSUME NEW P, ExecutionTypes(P), HeightInv, NEW j \in Jobs,
         \/ ProposeStarts(j) \/ ProposeExecuted(j) \/ ProposePublished(j)
         \/ BlockArrives(j) \/ VerifyStarts(j) \/ VerifyExecuted(j) \/ CommitStarts(j)
  PROVE  HeightInv'
<1>0. jobs \in [Jobs -> JobsOf(P)] /\ Len(chain) \in Nat /\ pending \subseteq BlocksOf(P)
  BY DEF ExecutionTypes
<1>1. chain' = chain
  BY DEF ProposeStarts, ProposeExecuted, ProposePublished, BlockArrives, VerifyStarts,
         VerifyExecuted, CommitStarts, headVars
<1>2. \A i \in Jobs : i # j => jobs'[i] = jobs[i]
  BY <1>0 DEF ProposeStarts, ProposeExecuted, ProposePublished, BlockArrives,
              VerifyStarts, VerifyExecuted, CommitStarts
<1>3. \A k, f, b, txs : /\ Started(k, f, b, txs) # Idle
                        /\ Started(k, f, b, txs).kind = k
                        /\ Started(k, f, b, txs).phase = f
                        /\ Started(k, f, b, txs).block = b
  BY DEF Started, Idle
<1>4. CASE ProposeStarts(j)
  <2>1. PICK txs : jobs'[j] = Started("propose", "executing", Idle, txs)
    BY <1>0, <1>4 DEF ProposeStarts
  <2>2. jobs'[j].kind = "propose" /\ jobs'[j].phase = "executing" /\ pending' = pending
    BY <1>3, <1>4, <2>1 DEF ProposeStarts, headVars
  <2>. QED
    BY <1>1, <1>2, <2>2, HeightStep DEF JobHeight, Holds
<1>5. CASE ProposeExecuted(j)
  <2>1. jobs[j] # Idle /\ jobs[j].kind = "propose" /\ pending' = pending
    BY <1>5 DEF ProposeExecuted, Executed, Executing, headVars
  <2>2. jobs[j] \in ActiveOf(P)
    BY <1>0, <2>1, JobFields
  <2>3. /\ jobs'[j].kind = "propose" /\ jobs'[j].phase = "publishing"
        /\ jobs'[j].block.height = Len(chain) + 1
    BY <1>0, <1>5, <2>1, <2>2 DEF ProposeExecuted, ActiveOf
  <2>4. JobHeight(jobs'[j], Len(chain)) /\ ~ Holds(jobs'[j])
    BY <1>0, <2>3 DEF JobHeight, Holds
  <2>. QED
    BY <1>1, <1>2, <2>1, <2>4, HeightStep
<1>6. CASE ProposePublished(j)
  <2>1. /\ jobs[j] # Idle /\ jobs[j].kind = "propose" /\ jobs[j].phase = "publishing"
        /\ pending' = pending
        /\ \/ jobs'[j] = Idle
           \/ jobs'[j] = Started("verify", "waiting", jobs[j].block, jobs[j].block.txs)
    BY <1>0, <1>6 DEF ProposePublished, In, headVars
  <2>2. jobs[j].block.height <= Len(chain) + 1
    BY <2>1 DEF HeightInv, JobHeight
  <2>3. jobs'[j] # Idle => JobHeight(jobs'[j], Len(chain)) /\ jobs'[j].phase = "waiting"
    BY <1>3, <2>1, <2>2 DEF JobHeight
  <2>. QED
    BY <1>1, <1>2, <2>1, <2>3, HeightStep DEF Holds
<1>7. CASE BlockArrives(j)
  <2>1. PICK b \in PeerBlocks : jobs'[j] = Started("verify", "waiting", b, b.txs)
    BY <1>0, <1>7 DEF BlockArrives
  <2>2. b.height = Len(chain) + 1 /\ pending' = pending
    BY <1>7 DEF BlockArrives, PeerBlocks, headVars
  <2>3. JobHeight(jobs'[j], Len(chain)) /\ jobs'[j].phase = "waiting"
    BY <1>0, <1>3, <2>1, <2>2 DEF JobHeight
  <2>. QED
    BY <1>1, <1>2, <2>2, <2>3, HeightStep DEF Holds
<1>8. CASE VerifyStarts(j)
  <2>1. /\ jobs[j] # Idle /\ jobs[j].kind = "verify" /\ MutexFree /\ pending' = pending
        /\ \/ jobs'[j] = Idle
           \/ jobs' = [jobs EXCEPT ![j].phase = "executing"]
    BY <1>0, <1>8 DEF VerifyStarts, In, headVars
  <2>2. jobs[j] \in ActiveOf(P)
    BY <1>0, <2>1, JobFields
  <2>3. jobs'[j] # Idle => /\ jobs'[j].kind = "verify"
                           /\ jobs'[j].block = jobs[j].block
    BY <1>0, <2>1, <2>2 DEF ActiveOf
  <2>4. jobs[j].block.height <= Len(chain) + 1
    BY <2>1 DEF HeightInv, JobHeight
  <2>5. jobs'[j] # Idle => JobHeight(jobs'[j], Len(chain))
    BY <2>3, <2>4 DEF JobHeight
  <2>. QED
    BY <1>1, <1>2, <2>1, <2>5, HeightStep
<1>9. CASE VerifyExecuted(j)
  <2>1. /\ jobs[j] # Idle /\ jobs[j].kind = "verify" /\ jobs'[j] = Idle
        /\ pending' = pending \/ pending' = pending \cup {jobs[j].block}
    BY <1>0, <1>9 DEF VerifyExecuted, Executed, Executing
  <2>2. jobs[j].block.height <= Len(chain) + 1
    BY <2>1 DEF HeightInv, JobHeight
  <2>3. \A b \in pending' : b \in pending \/ b.height <= Len(chain) + 1
    BY <2>1, <2>2
  <2>4. ~ Holds(jobs'[j])
    BY <2>1 DEF Holds
  <2>. QED
    BY <1>1, <1>2, <2>1, <2>3, <2>4, HeightStep
<1>10. CASE CommitStarts(j)
  <2>1. PICK b \in pending : /\ b.height > Len(chain)
                             /\ jobs'[j] = Started("commit", "executing", b, b.txs)
    BY <1>0, <1>10 DEF CommitStarts
  <2>2. MutexFree /\ pending' = pending
    BY <1>10 DEF CommitStarts, headVars
  <2>3. b.height = Len(chain) + 1
    <3>1. b.height \in Nat /\ b.height <= Len(chain) + 1
      BY <1>0 DEF BlocksOf, HeightInv
    <3>. QED
      BY <1>0, <2>1, <3>1
  <2>4. JobHeight(jobs'[j], Len(chain))
    BY <1>0, <1>3, <2>1, <2>3 DEF JobHeight
  <2>. QED
    BY <1>1, <1>2, <2>2, <2>4, HeightStep
<1>. QED
  BY <1>4, <1>5, <1>6, <1>7, <1>8, <1>9, <1>10

LEMMA HeightCommitted ==
  ASSUME NEW P, ExecutionTypes(P), HeightInv, NEW j \in Jobs, CommitSaved(j)
  PROVE  HeightInv'
<1>0. /\ jobs \in [Jobs -> JobsOf(P)] /\ chain \in Seq(EntriesOf(P))
      /\ Len(chain) \in Nat
  BY DEF ExecutionTypes
<1>1. /\ jobs[j] # Idle /\ jobs[j].kind = "commit" /\ jobs[j].phase = "saving"
      /\ jobs' = [jobs EXCEPT ![j] = Idle] /\ pending' = {}
      /\ chain' = Append(chain, Saved(jobs[j]))
  BY DEF CommitSaved, In, Saved
<1>2. /\ jobs[j].block.height = Len(chain) + 1 /\ Holds(jobs[j])
  BY <1>1 DEF HeightInv, JobHeight, Holds
<1>3. Saved(jobs[j]) \in EntriesOf(P) /\ Saved(jobs[j]).block = jobs[j].block
  <2>1. jobs[j] \in JobsOf(P)
    BY <1>0
  <2>2. jobs[j].block \in BlocksOf(P) /\ jobs[j].done \in Seq(Held(P))
    BY <1>1, <2>1, JobFields
  <2>. QED
    BY <2>2 DEF Saved, EntriesOf
<1>. DEFINE e == Saved(jobs[j])
<1>. HIDE DEF e
<1>4. /\ Len(chain') = Len(chain) + 1 /\ DOMAIN chain' = 1..(Len(chain) + 1)
      /\ DOMAIN chain = 1..Len(chain)
      /\ chain'[Len(chain) + 1] = e /\ \A i \in 1..Len(chain) : chain'[i] = chain[i]
  BY <1>0, <1>1, <1>3 DEF e
<1>5. \A i \in DOMAIN chain' : chain'[i].block.height = i
  <2>1. \A i \in 1..Len(chain) : chain[i].block.height = i
    BY <1>4 DEF HeightInv
  <2>2. e.block.height = Len(chain) + 1
    BY <1>2, <1>3 DEF e
  <2>. QED
    BY <1>0, <1>4, <2>1, <2>2
<1>6. ASSUME NEW i \in Jobs, jobs'[i] # Idle
      PROVE  i # j /\ jobs'[i] = jobs[i] /\ ~ Holds(jobs[i])
  BY <1>0, <1>1, <1>2, <1>6, Zenon DEF HeightInv
<1>7. ASSUME NEW i \in Jobs, jobs'[i] # Idle
      PROVE  JobHeight(jobs'[i], Len(chain'))
  <2>1. jobs'[i] = jobs[i] /\ ~ Holds(jobs[i]) /\ jobs[i] # Idle
    BY <1>6, <1>7
  <2>2. JobHeight(jobs[i], Len(chain))
    BY <2>1 DEF HeightInv
  <2>3. jobs[i].kind # "commit"
    BY <2>1, <2>2 DEF JobHeight, Holds
  <2>4. \/ jobs[i].kind = "propose" /\ jobs[i].phase = "executing"
        \/ jobs[i].block.height <= Len(chain) + 1 /\ jobs[i].block.height \in Nat
    <3>1. jobs[i] \in JobsOf(P)
      BY <1>0
    <3>. QED
      BY <2>1, <2>2, <3>1, JobFields DEF JobHeight, BlocksOf
  <2>5. JobHeight(jobs[i], Len(chain) + 1)
    BY <1>0, <2>3, <2>4 DEF JobHeight
  <2>. QED
    BY <1>4, <2>1, <2>5
<1>8. \A i \in Jobs : ~ Holds(jobs'[i])
  BY <1>6 DEF Holds
<1>. QED
  BY <1>1, <1>5, <1>7, <1>8 DEF HeightInv

LEMMA HeightKept ==
  ASSUME NEW P, ExecutionTypes(P), HeightInv, [Next]_vars
  PROVE  HeightInv'
<1>1. ASSUME UNCHANGED <<jobs, chain, pending>> PROVE HeightInv'
  BY <1>1 DEF HeightInv
<1>2. ASSUME NEW j \in Jobs,
             \/ TxExecuted(j) \/ TxLost(j) \/ Writing(j)
             \/ ProposeStarts(j) \/ ProposeExecuted(j) \/ ProposePublished(j)
             \/ BlockArrives(j) \/ VerifyStarts(j) \/ VerifyExecuted(j)
             \/ CommitStarts(j) \/ CommitExecuted(j) \/ StateCommitted(j)
             \/ CommitSaved(j)
      PROVE  HeightInv'
  BY <1>2, HeightSame, HeightBegins, HeightCommitted
<1>3. CASE ValidatorsUpdated \/ Slash
  BY <1>1, <1>3 DEF ValidatorsUpdated, Slash
<1>4. ASSUME NEW tx \in Txs, TxSubmitted(tx) \/ TxAdded(tx) PROVE HeightInv'
  BY <1>1, <1>4 DEF TxSubmitted, TxAdded, headVars
<1>5. CASE UNCHANGED vars
  BY <1>1, <1>5 DEF vars, headVars
<1>. QED
  BY <1>2, <1>3, <1>4, <1>5 DEF Next

LEMMA HeightAtStart == ASSUME Init PROVE HeightInv
  BY DEF Init, HeightInv, Holds

\* At most one execution has the mutex, a commit is of the next height, and the chain
\* has one block of each height in order; for any number of executions at a time.
THEOREM OneCommitsTheNext == Spec => []HeightInv
<1>. DEFINE Inv == NodeTypes(Txs) /\ HeightInv
<1>1. Txs \subseteq Transactions
  BY NodeAssumption
<1>2. Init => Inv
  BY TypesAtStart, HeightAtStart
<1>3. Inv /\ [Next]_vars => Inv'
  <2>1. ASSUME Inv, [Next]_vars PROVE HeightInv'
    BY <2>1, HeightKept DEF NodeTypes
  <2>. QED
    BY <1>1, <2>1, TypesKept
<1>. QED
  BY <1>2, <1>3, PTL DEF Spec

-----------------------------------------------------------------------------
(* The blocks that wait for their quorum, with one execution at a time.    *)

\* A block of a peer that has restarted and lost the state of the chain.
MadeOnGenesis(b) == b.proposer = Peer /\ AllValid(Genesis, b.txs)

Sound(b, head) == AllValid(head, b.txs) \/ MadeOnGenesis(b)

JobSound(job, head) ==
  /\ job.kind = "propose" /\ job.phase = "executing" => AllValid(head, job.done)
  /\ job.kind = "verify" \/ job.phase = "publishing" => Sound(job.block, head)

\* What a verification has still to do leads to what the block leads to.
JobLeads(job, t, head) ==
  job.kind = "verify" =>
    ExecuteAll(FoldLeft(Write, t, job.writes), job.todo)
      = ExecuteAll(head, job.block.txs)

PendingInv ==
  /\ \A j \in Jobs : jobs[j] # Idle =>
       /\ JobSound(jobs[j], After(chain))
       /\ lost = 0 => JobLeads(jobs[j], trie, After(chain))
  /\ \A b \in pending :
       /\ Sound(b, After(chain))
       /\ lost = 0 => ExecuteAll(After(chain), b.txs) = b.root

LEMMA PendingStep ==
  ASSUME NEW P, OneAtATime, ExecutionTypes(P), PendingInv, NEW j \in Jobs, NEW job,
         jobs' = [jobs EXCEPT ![j] = job], chain' = chain,
         lost' = lost \/ lost' # 0,
         job # Idle => /\ JobSound(job, After(chain))
                       /\ lost' = 0 => JobLeads(job, trie', After(chain)),
         \A b \in pending' : b \notin pending =>
           /\ Sound(b, After(chain))
           /\ lost' = 0 => ExecuteAll(After(chain), b.txs) = b.root
  PROVE  PendingInv'
<1>1. \A i \in Jobs : jobs'[i] = job
  BY DEF OneAtATime, ExecutionTypes
<1>2. \A b \in pending' : /\ Sound(b, After(chain))
                          /\ lost' = 0 => ExecuteAll(After(chain), b.txs) = b.root
  BY DEF PendingInv
<1>. QED
  BY <1>1, <1>2 DEF PendingInv

LEMMA TxExecutedPending ==
  ASSUME NEW P, P \subseteq Transactions, OneAtATime, ExecutionTypes(P), StateInv,
         PendingInv, NEW j \in Jobs, TxExecuted(j)
  PROVE  PendingInv'
<1>. DEFINE job  == jobs[j]
            tx   == Head(job.todo)
            head == After(chain)
            d    == IF Valid(trie, tx) THEN Append(job.done, tx) ELSE job.done
            w    == IF Valid(trie, tx) THEN Writes(trie, tx) ELSE <<>>
            new  == [job EXCEPT !.todo = Tail(job.todo), !.done = d, !.writes = w]
<1>1. /\ job # Idle /\ job.phase = "executing" /\ job.writes = <<>> /\ job.todo # <<>>
      /\ trie' = trie /\ chain' = chain /\ pending' = pending /\ lost' = lost
  BY DEF TxExecuted, Executing, stateVars, headVars
<1>2. /\ job \in ActiveOf(P) /\ job.todo \in Seq(Held(P)) /\ job.done \in Seq(Held(P))
      /\ JobState(job, trie, stack, head)
  BY <1>1, TheJob
<1>3. /\ tx \in Held(P) /\ trie \in Tries /\ Held(P) \subseteq Transactions
      /\ head \in Tries
  <2>1. chain \in Seq(EntriesOf(P)) /\ trie \in Tries
    BY DEF ExecutionTypes
  <2>. QED
    BY <1>1, <1>2, <2>1, HeldType, AfterType
<1>4. trie = ExecuteAll(head, job.done)
  BY <1>1, <1>2, WritesDone DEF JobState
<1>5. JobSound(job, head) /\ (lost = 0 => JobLeads(job, trie, head))
  BY <1>1 DEF PendingInv
<1>6. jobs' = [jobs EXCEPT ![j] = new]
  BY DEF TxExecuted, ExecutionTypes
<1>7. AllValid(head, job.done) => AllValid(head, d)
  BY <1>2, <1>3, <1>4, OneMoreValid
<1>8. ExecuteAll(FoldLeft(Write, trie, w), Tail(job.todo)) = ExecuteAll(trie, job.todo)
  <2>1. FoldLeft(Write, trie, w) = Execute(trie, tx)
    BY WritesDone DEF Execute
  <2>. QED
    BY <1>1, <1>2, <2>1, ExecuteGoesOn
<1>9. FoldLeft(Write, trie, job.writes) = trie
  BY <1>1, WritesDone
<1>. HIDE DEF d, w
<1>10. /\ new # Idle /\ new.phase = "executing" /\ new.kind = job.kind
       /\ new.block = job.block /\ new.todo = Tail(job.todo)
       /\ new.done = d /\ new.writes = w
  BY <1>1, <1>2 DEF ActiveOf, Idle, Kinds
<1>. HIDE DEF new, head
<1>11. JobSound(new, head)
  BY <1>1, <1>5, <1>7, <1>10 DEF JobSound
<1>12. lost = 0 => JobLeads(new, trie, head)
  BY <1>5, <1>8, <1>9, <1>10 DEF JobLeads
<1>. QED
  BY <1>1, <1>6, <1>11, <1>12, PendingStep DEF head

\* The other steps that go on with a job and add nothing to it.
LEMMA GoesOnPending ==
  ASSUME NEW P, OneAtATime, ExecutionTypes(P), StateInv, PendingInv, NEW j \in Jobs,
         TxLost(j) \/ Writing(j) \/ CommitExecuted(j) \/ StateCommitted(j)
  PROVE  PendingInv'
<1>. DEFINE job == jobs[j]  new == jobs'[j]
<1>0. jobs \in [Jobs -> JobsOf(P)] /\ lost \in Nat
  BY NodeAssumption DEF ExecutionTypes
<1>1. job # Idle /\ chain' = chain /\ pending' = pending
  BY DEF TxLost, Writing, CommitExecuted, StateCommitted, Executed, Executing, In, headVars
<1>2. job \in ActiveOf(P) /\ job.writes \in Seq(WriteRecords)
  BY <1>1, TheJob
<1>3. jobs' = [jobs EXCEPT ![j] = new]
  BY <1>0 DEF TxLost, Writing, CommitExecuted, StateCommitted
<1>4. JobSound(job, After(chain)) /\ (lost = 0 => JobLeads(job, trie, After(chain)))
  BY <1>1 DEF PendingInv
<1>5. CASE TxLost(j)
  <2>1. lost' # 0 /\ new.kind = job.kind /\ new.phase = job.phase
        /\ new.block = job.block /\ new.done = job.done
    BY <1>0, <1>2, <1>5 DEF TxLost, ActiveOf
  <2>. HIDE DEF new
  <2>2. JobSound(new, After(chain))
    BY <1>4, <2>1 DEF JobSound
  <2>. QED
    BY <1>1, <1>3, <2>1, <2>2, PendingStep
<1>6. CASE Writing(j)
  <2>1. /\ new.kind = job.kind /\ new.phase = job.phase /\ new.todo = job.todo
        /\ new.block = job.block /\ new.done = job.done /\ new.writes = Tail(job.writes)
        /\ trie' = Write(trie, Head(job.writes)) /\ job.writes # <<>> /\ lost' = lost
    BY <1>0, <1>2, <1>6 DEF Writing, ActiveOf
  <2>2. FoldLeft(Write, trie, job.writes) = FoldLeft(Write, trie', new.writes)
    BY <1>2, <2>1, WritesGoOn
  <2>. HIDE DEF new
  <2>3. JobSound(new, After(chain)) /\ (lost' = 0 => JobLeads(new, trie', After(chain)))
    BY <1>4, <2>1, <2>2 DEF JobSound, JobLeads
  <2>. QED
    BY <1>1, <1>3, <2>1, <2>3, PendingStep
<1>7. CASE CommitExecuted(j) \/ StateCommitted(j)
  <2>1. \/ new = Idle
        \/ new.kind = "commit" /\ new.phase \in {"sharing", "saving"}
    BY <1>0, <1>2, <1>7 DEF CommitExecuted, StateCommitted, Executed, In, ActiveOf
  <2>2. lost' = lost
    BY <1>7 DEF CommitExecuted, StateCommitted
  <2>. HIDE DEF new
  <2>3. new # Idle => JobSound(new, After(chain)) /\ JobLeads(new, trie', After(chain))
    BY <2>1 DEF JobSound, JobLeads
  <2>. QED
    BY <1>1, <1>3, <2>2, <2>3, PendingStep
<1>. QED
  BY <1>5, <1>6, <1>7

\* A verification starts on the state of the head.
LEMMA VerificationLeads ==
  ASSUME NEW b, NEW head
  PROVE  JobLeads(Started("verify", "waiting", b, b.txs), head, head)
<1>1. FoldLeft(Write, head, <<>>) = head
  BY WritesDone
<1>. QED
  BY <1>1 DEF JobLeads, Started

LEMMA ProposalPending ==
  ASSUME NEW P, OneAtATime, ExecutionTypes(P), StateInv, PendingInv, NEW j \in Jobs,
         ProposeStarts(j) \/ ProposeExecuted(j) \/ ProposePublished(j)
  PROVE  PendingInv'
<1>. DEFINE head == After(chain)
<1>0. /\ jobs \in [Jobs -> JobsOf(P)] /\ chain' = chain /\ pending' = pending
      /\ lost' = lost
  BY DEF ExecutionTypes, ProposeStarts, ProposeExecuted, ProposePublished, headVars
<1>1. CASE ProposeStarts(j)
  <2>1. PICK txs : jobs' = [jobs EXCEPT ![j] = Started("propose", "executing", Idle, txs)]
    BY <1>1 DEF ProposeStarts
  <2>. DEFINE new == Started("propose", "executing", Idle, txs)
  <2>2. new.kind = "propose" /\ new.phase = "executing" /\ new.done = <<>>
    BY DEF Started
  <2>. HIDE DEF new
  <2>3. JobSound(new, head) /\ JobLeads(new, trie', head)
    BY <2>2, NothingKept DEF JobSound, JobLeads
  <2>. QED
    BY <1>0, <2>1, <2>3, PendingStep DEF new
<1>2. CASE ProposeExecuted(j)
  <2>. DEFINE b   == [height |-> Len(chain) + 1, proposer |-> Self,
                      txs |-> jobs[j].done, root |-> trie]
              new == [jobs[j] EXCEPT !.phase = "publishing", !.block = b]
  <2>1. /\ jobs[j] # Idle /\ jobs[j].kind = "propose" /\ jobs[j].phase = "executing"
    BY <1>2 DEF ProposeExecuted, Executed, Executing
  <2>2. jobs[j] \in ActiveOf(P) /\ JobSound(jobs[j], head)
    BY <2>1, TheJob DEF PendingInv
  <2>3. jobs' = [jobs EXCEPT ![j] = new]
    BY <1>0, <1>2 DEF ProposeExecuted
  <2>4. b.txs = jobs[j].done
    OBVIOUS
  <2>. HIDE DEF b
  <2>5. new.kind = "propose" /\ new.phase = "publishing" /\ new.block = b
    BY <2>1, <2>2 DEF ActiveOf
  <2>. HIDE DEF new
  <2>6. JobSound(new, head) /\ JobLeads(new, trie', head)
    BY <2>1, <2>2, <2>4, <2>5 DEF JobSound, JobLeads, Sound
  <2>. QED
    BY <1>0, <2>3, <2>6, PendingStep
<1>3. CASE ProposePublished(j)
  <2>. DEFINE b == jobs[j].block  new == Started("verify", "waiting", b, b.txs)
  <2>1. jobs[j] # Idle /\ jobs[j].phase = "publishing" /\ Revert(1)
    BY <1>3 DEF ProposePublished, In
  <2>2. stack = <<head>>
    BY <2>1, TheJob DEF JobState
  <2>3. trie' = head
    BY <2>1, <2>2, RevertsToHead
  <2>4. jobs' = [jobs EXCEPT ![j] = Idle] \/ jobs' = [jobs EXCEPT ![j] = new]
    BY <1>0, <1>3 DEF ProposePublished
  <2>5. Sound(b, head)
    BY <2>1 DEF PendingInv, JobSound
  <2>6. new.kind = "verify" /\ new.phase = "waiting" /\ new.block = b
        /\ JobLeads(new, trie', head)
    BY <2>3, VerificationLeads DEF Started
  <2>. HIDE DEF new
  <2>7. JobSound(new, head)
    BY <2>5, <2>6 DEF JobSound
  <2>. QED
    BY <1>0, <2>4, <2>6, <2>7, PendingStep
<1>. QED
  BY <1>1, <1>2, <1>3

\* A peer's block is all valid on the state of the chain, or was made on the genesis.
LEMMA PeerBlocksSound ==
  ASSUME NEW P, P \subseteq Transactions, Txs \subseteq P, ExecutionTypes(P),
         NEW b \in PeerBlocks
  PROVE  Sound(b, After(chain))
<1>. DEFINE h == Len(chain) + 1
            picks == UNION {{s \in [1..n -> Txs] : IsInjective(s)} : n \in 0..MaxBatch}
            Made(base, s) == ValidTxs(base, <<Coinbase(Peer, h)>> \o s)
<1>1. PICK base \in {After(chain), Genesis}, s \in picks :
        b = [height |-> h, proposer |-> Peer, txs |-> Made(base, s),
             root |-> ExecuteAll(base, Made(base, s))]
  BY DEF PeerBlocks
<1>2. b.proposer = Peer /\ b.txs = Made(base, s)
  BY <1>1
<1>3. chain \in Seq(EntriesOf(P)) /\ MaxBatch \in Nat /\ h \in Nat /\ base \in Tries
  <2>1. chain \in Seq(EntriesOf(P)) /\ MaxBatch \in Nat /\ Genesis \in Tries
    BY NodeAssumption DEF ExecutionTypes
  <2>. QED
    BY <2>1, AfterType
<1>4. <<Coinbase(Peer, h)>> \o s \in Seq(Held(P))
  <2>1. PICK n \in 0..MaxBatch : s \in [1..n -> Txs]
    OBVIOUS
  <2>2. n \in Nat /\ s \in [1..n -> Held(P)]
    BY <1>3, <2>1 DEF Held
  <2>3. s \in Seq(Held(P))
    BY <2>2
  <2>4. <<Coinbase(Peer, h)>> \in Seq(Held(P))
    BY <1>3 DEF Held, Coinbases
  <2>. HIDE DEF h, picks
  <2>. QED
    BY <2>3, <2>4
<1>. HIDE DEF h, picks
<1>5. AllValid(base, Made(base, s))
  BY <1>3, <1>4, HeldType, KeptAreValid
<1>. QED
  BY <1>1, <1>2, <1>5 DEF Sound, MadeOnGenesis

LEMMA VerificationPending ==
  ASSUME NEW P, P \subseteq Transactions, Txs \subseteq P, OneAtATime,
         ExecutionTypes(P), StateInv, PendingInv, NEW j \in Jobs,
         BlockArrives(j) \/ VerifyStarts(j) \/ VerifyExecuted(j)
  PROVE  PendingInv'
<1>. DEFINE head == After(chain)
<1>0. jobs \in [Jobs -> JobsOf(P)] /\ chain' = chain /\ lost' = lost
  BY DEF ExecutionTypes, BlockArrives, VerifyStarts, VerifyExecuted, headVars
<1>1. CASE BlockArrives(j)
  <2>1. PICK b \in PeerBlocks :
          jobs' = [jobs EXCEPT ![j] = Started("verify", "waiting", b, b.txs)]
    BY <1>1 DEF BlockArrives
  <2>2. pending' = pending /\ trie' = trie /\ jobs[j] = Idle
    BY <1>1 DEF BlockArrives, stateVars, headVars
  <2>3. trie = head
    BY <2>2, StateIdle
  <2>. DEFINE new == Started("verify", "waiting", b, b.txs)
  <2>4. new.kind = "verify" /\ new.phase = "waiting" /\ new.block = b
        /\ JobLeads(new, trie', head)
    BY <2>2, <2>3, VerificationLeads DEF Started
  <2>. HIDE DEF new
  <2>5. JobSound(new, head)
    BY <2>4, PeerBlocksSound DEF JobSound
  <2>. QED
    BY <1>0, <2>1, <2>2, <2>4, <2>5, PendingStep DEF new
<1>2. CASE VerifyStarts(j)
  <2>. DEFINE new == [jobs[j] EXCEPT !.phase = "executing"]
  <2>1. jobs[j] # Idle /\ jobs[j].kind = "verify" /\ pending' = pending /\ trie' = trie
    BY <1>2 DEF VerifyStarts, In, Checkpoint, stateVars, headVars
  <2>2. /\ jobs[j] \in ActiveOf(P) /\ JobSound(jobs[j], head)
        /\ lost = 0 => JobLeads(jobs[j], trie, head)
    BY <2>1, TheJob DEF PendingInv
  <2>3. jobs' = [jobs EXCEPT ![j] = Idle] \/ jobs' = [jobs EXCEPT ![j] = new]
    BY <1>0, <1>2 DEF VerifyStarts
  <2>4. /\ new.kind = "verify" /\ new.phase = "executing" /\ new.block = jobs[j].block
        /\ new.todo = jobs[j].todo /\ new.writes = jobs[j].writes
    BY <2>1, <2>2 DEF ActiveOf
  <2>. HIDE DEF new
  <2>5. JobSound(new, head) /\ (lost = 0 => JobLeads(new, trie', head))
    BY <2>1, <2>2, <2>4 DEF JobSound, JobLeads
  <2>. QED
    BY <1>0, <2>1, <2>3, <2>5, PendingStep
<1>3. CASE VerifyExecuted(j)
  <2>. DEFINE b == jobs[j].block
  <2>1. /\ jobs[j] # Idle /\ jobs[j].kind = "verify"
        /\ jobs[j].todo = <<>> /\ jobs[j].writes = <<>>
        /\ jobs' = [jobs EXCEPT ![j] = Idle]
        /\ pending' = pending \/ (trie = b.root /\ pending' = pending \cup {b})
    BY <1>3 DEF VerifyExecuted, Executed, Executing
  <2>2. Sound(b, head) /\ (lost = 0 => JobLeads(jobs[j], trie, head))
    BY <2>1 DEF PendingInv, JobSound
  <2>3. lost = 0 => trie = ExecuteAll(head, b.txs)
    BY <2>1, <2>2, WritesDone, NothingExecuted DEF JobLeads
  <2>. HIDE DEF b, head
  <2>4. \A c \in pending' : c \notin pending =>
          /\ Sound(c, head)
          /\ lost' = 0 => ExecuteAll(head, c.txs) = c.root
    BY <1>0, <2>1, <2>2, <2>3
  <2>. QED
    BY <1>0, <2>1, <2>4, PendingStep DEF head
<1>. QED
  BY <1>1, <1>2, <1>3

LEMMA CommitStartsPending ==
  ASSUME NEW P, OneAtATime, ExecutionTypes(P), PendingInv, NEW j \in Jobs,
         CommitStarts(j)
  PROVE  PendingInv'
<1>1. PICK b : jobs' = [jobs EXCEPT ![j] = Started("commit", "executing", b, b.txs)]
  BY DEF CommitStarts
<1>2. chain' = chain /\ pending' = pending /\ lost' = lost
  BY DEF CommitStarts, headVars
<1>. DEFINE new == Started("commit", "executing", b, b.txs)
<1>3. new.kind = "commit" /\ new.phase = "executing"
  BY DEF Started
<1>. HIDE DEF new
<1>4. JobSound(new, After(chain)) /\ JobLeads(new, trie', After(chain))
  BY <1>3 DEF JobSound, JobLeads
<1>. QED
  BY <1>1, <1>2, <1>4, PendingStep DEF new

LEMMA PendingKept ==
  ASSUME NEW P, P \subseteq Transactions, Txs \subseteq P, OneAtATime,
         ExecutionTypes(P), StateInv, PendingInv, [Next]_vars
  PROVE  PendingInv'
<1>1. ASSUME UNCHANGED <<trie, jobs, chain, pending, lost>> PROVE PendingInv'
  BY <1>1 DEF PendingInv
<1>2. ASSUME NEW j \in Jobs,
             \/ TxExecuted(j) \/ TxLost(j) \/ Writing(j)
             \/ ProposeStarts(j) \/ ProposeExecuted(j) \/ ProposePublished(j)
             \/ BlockArrives(j) \/ VerifyStarts(j) \/ VerifyExecuted(j)
             \/ CommitStarts(j) \/ CommitExecuted(j) \/ StateCommitted(j)
      PROVE  PendingInv'
  BY <1>2, TxExecutedPending, GoesOnPending, ProposalPending, VerificationPending,
     CommitStartsPending
<1>3. ASSUME NEW j \in Jobs, CommitSaved(j) PROVE PendingInv'
  <2>1. jobs'[j] = Idle /\ pending' = {}
    BY <1>3 DEF CommitSaved, ExecutionTypes
  <2>2. \A i \in Jobs : jobs'[i] = Idle
    BY <2>1 DEF OneAtATime
  <2>. QED
    BY <2>1, <2>2 DEF PendingInv
<1>4. CASE ValidatorsUpdated \/ Slash
  BY <1>1, <1>4 DEF ValidatorsUpdated, Slash, stateVars
<1>5. ASSUME NEW tx \in Txs, TxSubmitted(tx) \/ TxAdded(tx) PROVE PendingInv'
  BY <1>1, <1>5 DEF TxSubmitted, TxAdded, stateVars, headVars
<1>6. CASE UNCHANGED vars
  BY <1>1, <1>6 DEF vars, stateVars, headVars
<1>. QED
  BY <1>2, <1>3, <1>4, <1>5, <1>6 DEF Next

\* A block that waits for its quorum can be executed on the state of the head, all of it,
\* with the root it announces, if one block is executed at a time and the block was not
\* made by a peer that has lost its state: then the root may be right and the block have
\* transactions that are not valid any more.
THEOREM PendingCanBeExecuted ==
  ASSUME OneAtATime
  PROVE  Spec => [](\/ PendingExecutes
                    \/ /\ \E b \in pending : MadeOnGenesis(b)
                       /\ \A b \in pending : ExecuteAll(After(chain), b.txs) = b.root)
<1>. DEFINE Inv == NodeTypes(Txs) /\ StateInv /\ PendingInv
            Can == \/ PendingExecutes
                   \/ /\ \E b \in pending : MadeOnGenesis(b)
                      /\ \A b \in pending : ExecuteAll(After(chain), b.txs) = b.root
<1>1. Txs \subseteq Transactions
  BY NodeAssumption
<1>2. Init => Inv
  <2>1. Init => PendingInv
    BY DEF Init, PendingInv
  <2>. QED
    BY <2>1, TypesAtStart, StateAtStart
<1>3. Inv /\ [Next]_vars => Inv'
  <2>1. ASSUME Inv, UNCHANGED vars PROVE StateInv'
    BY <2>1, StateUntouched DEF vars, stateVars, headVars
  <2>2. ASSUME Inv, Next PROVE StateInv'
    BY <1>1, <2>2, StateKept DEF NodeTypes
  <2>3. ASSUME Inv, [Next]_vars PROVE PendingInv'
    BY <1>1, <2>3, PendingKept DEF NodeTypes
  <2>. QED
    BY <1>1, <2>1, <2>2, <2>3, TypesKept
<1>4. Inv => Can
  <2>. SUFFICES ASSUME Inv, ~ PendingExecutes PROVE Can
    OBVIOUS
  <2>1. lost = 0
    BY DEF PendingExecutes
  <2>2. \A b \in pending : /\ ExecuteAll(After(chain), b.txs) = b.root
                           /\ AllValid(After(chain), b.txs) \/ MadeOnGenesis(b)
    BY <2>1 DEF PendingInv, Sound
  <2>. QED
    BY <2>2 DEF PendingExecutes, AllValid
<1>. QED
  BY <1>2, <1>3, <1>4, PTL DEF Spec

=============================================================================
