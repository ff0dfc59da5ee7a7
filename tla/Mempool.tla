------------------------------ MODULE Mempool ------------------------------
(***************************************************************************)
(* The pool of src/src/mempool/index.ts: a Map in insertion order.  add()  *)
(* reads the sender's nonce from the state and awaits it; what it checks   *)
(* after the await it checks and does in one piece.  The two halves are    *)
(* two actions, and any handler of the node can run between them.  The     *)
(* nonce read is a parameter: the module that has the state gives it.      *)
(***************************************************************************)
EXTENDS Integers, Sequences, FiniteSets, SequencesExt

CONSTANTS
  Txs,       \* the transactions that are submitted, by clients or by gossip
  MaxPool    \* MAX_SIZE

ASSUME PoolAssumption == MaxPool \in Nat \ {0}

VARIABLES
  pool,      \* this.txs, in insertion order
  adding     \* the calls of add() whose read of the nonce is under way

poolVars == <<pool, adding>>

PoolInit == pool = <<>> /\ adding = {}

\* A transaction with another nonce than the next is refused at once.
Submit(tx, nonce) ==
  /\ tx.nonce = nonce + 1
  /\ adding' = adding \cup {tx}
  /\ UNCHANGED pool

\* getLowestFeeTransaction(): the first of the cheapest.
Lowest ==
  pool[CHOOSE i \in DOMAIN pool :
         /\ \A k \in DOMAIN pool : pool[i].price <= pool[k].price
         /\ \A k \in 1..(i - 1) : pool[i].price < pool[k].price]

\* A full pool admits a transaction that is not dearer (mutation of Admits).
Admits_Any(tx) == ~Contains(pool, tx)

Admits(tx) ==
  /\ ~Contains(pool, tx)
  /\ Len(pool) >= MaxPool => tx.price > Lowest.price

\* The pool after add() has been through for this transaction.
Entered(tx) ==
  IF ~Admits(tx) THEN pool
  ELSE IF Len(pool) >= MaxPool THEN Append(RemoveFirst(pool, Lowest), tx)
                               ELSE Append(pool, tx)

AddResumes(tx) ==
  /\ tx \in adding
  /\ adding' = adding \ {tx}
  /\ pool' = Entered(tx)

\* commitBlock() removes the transactions of the block it has stored.
Removed(txs) == FoldLeft(RemoveFirst, pool, txs)

\* getTransactions(): dearest first; the sort is stable.
Placed(sorted, tx) ==
  InsertAt(sorted,
           Cardinality({i \in DOMAIN sorted : sorted[i].price >= tx.price}) + 1, tx)

ByPrice == FoldLeft(Placed, <<>>, pool)

=============================================================================
