-------------------------- MODULE ApiServerProofs --------------------------
(***************************************************************************)
(* Proofs about ApiServer: the pages of the block list, the types of the   *)
(* requests, what a client finds of what it was told, and the faucet.      *)
(***************************************************************************)
EXTENDS ApiServer, NodeStateProofs

-----------------------------------------------------------------------------
(* Pages.                                                                  *)

LEMMA MaxIs ==
  ASSUME NEW s, NEW n \in s, s \subseteq Int, \A m \in s : m <= n
  PROVE  Max(s) = n
<1>. \A m \in s : (\A k \in s : m >= k) => m = n
  OBVIOUS
<1>. QED
  BY DEF Max

LEMMA MaxOfTwo ==
  ASSUME NEW m \in Int
  PROVE  Max({0, m}) = IF m > 0 THEN m ELSE 0
<1>1. CASE m > 0
  BY <1>1, MaxIs
<1>2. CASE ~ (m > 0)
  BY <1>2, MaxIs
<1>. QED
  BY <1>1, <1>2

\* A page goes from one height down to another.
Top(head, offset)           == IF head - offset > 0 THEN head - offset ELSE 0
Bottom(head, limit, offset) ==
  IF Top(head, offset) - limit + 1 > 1 THEN Top(head, offset) - limit + 1 ELSE 1

LEMMA ListedIs ==
  ASSUME NEW head \in Nat, NEW limit \in Nat \ {0}, NEW offset \in Nat
  PROVE  Listed(head, limit, offset) = Bottom(head, limit, offset)..Top(head, offset)
<1>. DEFINE start == Max({0, head - offset})  end == Max({0, start - limit + 1})
            top == Top(head, offset)  bottom == Bottom(head, limit, offset)
<1>1. start = top /\ top \in Nat /\ top <= head
  BY MaxOfTwo DEF Top
<1>2. end = IF top - limit + 1 > 0 THEN top - limit + 1 ELSE 0
  <2>1. top - limit + 1 \in Int
    BY <1>1
  <2>. QED
    BY <1>1, <2>1, MaxOfTwo
<1>3. bottom = IF top - limit + 1 > 1 THEN top - limit + 1 ELSE 1
  BY DEF Bottom
<1>4. Listed(head, limit, offset) = (end..start) \cap (1..head)
  BY DEF Listed
<1>. HIDE DEF start, end, top, bottom
<1>5. (end..start) \cap (1..head) = bottom..top
  BY <1>1, <1>2, <1>3
<1>. QED
  BY <1>4, <1>5 DEF bottom, top

LEMMA MaxOfInterval ==
  ASSUME NEW a \in Int, NEW b \in Int, a..b # {}
  PROVE  Max(a..b) = b /\ Min(a..b) = a /\ a <= b
<1>1. a <= b /\ a \in a..b /\ b \in a..b /\ a..b \subseteq Int
  OBVIOUS
<1>2. \A m \in a..b : m <= b /\ a <= m
  OBVIOUS
<1>. QED
  BY <1>1, <1>2, MaxIs, MinIs

LEMMA PagesMeet ==
  ASSUME NEW head \in Nat, NEW limit \in Nat \ {0}, NEW offset \in Nat,
         NEW later \in Nat, head <= later
  PROVE  LET page == Listed(head, limit, offset)
             next == Listed(later, limit, offset + limit)
         IN  page # {} =>
               /\ offset = 0 => Max(page) = head
               /\ Min(page) > 1 => next # {} /\ Max(next) >= Min(page) - 1
               /\ later = head => page \cap next = {}
<1>. DEFINE t == Top(head, offset)   b == Bottom(head, limit, offset)
            u == Top(later, offset + limit)  c == Bottom(later, limit, offset + limit)
<1>1. /\ t = IF head - offset > 0 THEN head - offset ELSE 0
      /\ b = IF t - limit + 1 > 1 THEN t - limit + 1 ELSE 1
      /\ u = IF later - (offset + limit) > 0 THEN later - (offset + limit) ELSE 0
      /\ c = IF u - limit + 1 > 1 THEN u - limit + 1 ELSE 1
  BY DEF Top, Bottom
<1>2. /\ Listed(head, limit, offset) = b..t
      /\ Listed(later, limit, offset + limit) = c..u
  BY ListedIs
<1>. HIDE DEF t, b, u, c
<1>3. t \in Int /\ b \in Int /\ u \in Int /\ c \in Int
  BY <1>1
<1>4. ASSUME b..t # {}
      PROVE  /\ offset = 0 => Max(b..t) = head
             /\ Min(b..t) > 1 => c..u # {} /\ Max(c..u) >= Min(b..t) - 1
             /\ later = head => (b..t) \cap (c..u) = {}
  <2>1. Max(b..t) = t /\ Min(b..t) = b /\ b <= t
    BY <1>3, <1>4, MaxOfInterval
  <2>2. offset = 0 => t = head
    BY <1>1, <2>1
  <2>3. b > 1 => c <= u /\ u >= b - 1
    BY <1>1, <1>3, <2>1
  <2>4. c <= u => c..u # {} /\ Max(c..u) = u
    <3>1. c <= u => u \in c..u
      BY <1>3
    <3>. QED
      BY <1>3, <3>1, MaxOfInterval
  <2>5. later = head => (u < b \/ u < c)
    BY <1>1, <1>3, <2>1
  <2>6. later = head => (b..t) \cap (c..u) = {}
    BY <1>3, <2>5
  <2>. QED
    BY <2>1, <2>2, <2>3, <2>4, <2>6
<1>. QED
  BY <1>2, <1>4

-----------------------------------------------------------------------------
(* Types.  The pool holds what is submitted and what the faucet signs.     *)

Payouts == {Payout(to, nonce) : to \in Payees, nonce \in Nat}
InPool  == Txs \cup Payouts

RequestsOf ==
  {r \in [route : {"send", "faucet"}, stage : {"nonce", "check", "add", "publish"},
          tx : InPool, dirty : BOOLEAN] :
     /\ r.route = "faucet" => r.tx \in Payouts
     /\ r.stage = "nonce" => r.route = "faucet"}

RequestsTyped == requests \in [Clients -> RequestsOf \cup {NoRequest}]

ApiTypes ==
  /\ NodeTypes(InPool)
  /\ RequestsTyped
  /\ lookup \in [tx : InPool, seen : Nat] \cup {NoRequest}
  /\ saved \in 0..3
  /\ announced \subseteq BlocksOf(InPool)
  /\ accepted \subseteq InPool /\ evicted \subseteq InPool
  /\ paid \subseteq Payees

LEMMA PayoutType ==
  /\ Payouts \subseteq Transactions /\ InPool \subseteq Transactions
  /\ Txs \subseteq InPool /\ Payouts \subseteq InPool /\ Sent \subseteq InPool
  /\ \A tx \in Payouts : tx.from = Self /\ tx.to \in Payees
<1>1. ASSUME NEW to \in Payees, NEW nonce \in Nat
      PROVE  Payout(to, nonce) \in Transactions
  <2>1. /\ to \in Addresses /\ Self \in Addresses /\ Amount \in Nat
        /\ 0 \in Nat /\ 1 \in Nat /\ "none" \in Commands
    BY ApiAssumption, NodeAssumption DEF Commands
  <2>. QED
    BY <2>1 DEF Payout, Transactions
<1>2. Payouts \subseteq Transactions
  BY <1>1 DEF Payouts
<1>3. \A tx \in Payouts : tx.from = Self /\ tx.to \in Payees
  BY DEF Payouts, Payout
<1>. QED
  BY <1>2, <1>3, NodeAssumption, ApiAssumption DEF InPool

\* A step of the API is one of the node, or enters a transaction of a request into the
\* pool, or is none of the node's.
LEMMA ApiSteps ==
  ASSUME ApiNext
  PROVE  \/ Next
         \/ UNCHANGED vars
         \/ \E c \in Clients : TxEntered(c)
<1>1. ASSUME NEW j \in Jobs, Execution(j) PROVE Next
  BY <1>1 DEF Execution, Next
<1>2. ASSUME NEW j \in Jobs, BlockAnnounced(j) PROVE Next
  BY <1>2 DEF BlockAnnounced, Next
<1>3. ASSUME TxGossiped PROVE Next
  BY <1>3, ApiAssumption DEF TxGossiped, Next
<1>4. ASSUME NEW c \in Clients,
             \/ SendTx(c) \/ AskFaucet(c) \/ NonceRead(c) \/ TxChecked(c)
             \/ TxPublished(c) \/ PublishFails(c)
      PROVE  UNCHANGED vars
  BY <1>4 DEF SendTx, AskFaucet, NonceRead, TxChecked, TxPublished, PublishFails
<1>5. ASSUME NEW j \in Jobs, BlockSaved(j) PROVE UNCHANGED vars
  BY <1>5 DEF BlockSaved
<1>6. ASSUME LookupMisses \/ LookupAnswered PROVE UNCHANGED vars
  BY <1>6 DEF LookupMisses, LookupAnswered
<1>. QED
  BY <1>1, <1>2, <1>3, <1>4, <1>5, <1>6 DEF ApiNext

\* A request under way, and what it asks for next.
LEMMA RequestFields ==
  ASSUME RequestsTyped, NEW c \in Clients, requests[c] # NoRequest
  PROVE  /\ requests[c] \in RequestsOf
         /\ requests[c].route \in {"send", "faucet"}
         /\ requests[c].stage \in {"nonce", "check", "add", "publish"}
         /\ requests[c].tx \in InPool /\ requests[c].dirty \in BOOLEAN
         /\ requests[c].stage = "nonce" => requests[c].route = "faucet"
         /\ requests[c].route = "faucet" =>
              requests[c].tx \in Payouts /\ requests[c].tx.to \in Payees
<1>1. requests[c] \in RequestsOf
  BY DEF RequestsTyped
<1>. QED
  BY <1>1, PayoutType DEF RequestsOf

LEMMA AsksType ==
  ASSUME RequestsTyped, NEW c \in Clients, NEW route \in {"send", "faucet"},
         NEW stage \in {"nonce", "check", "add", "publish"}, NEW tx \in InPool,
         NEW dirty \in BOOLEAN, route = "faucet" => tx \in Payouts,
         stage = "nonce" => route = "faucet", Asks(c, route, stage, tx, dirty)
  PROVE  RequestsTyped'
<1>. DEFINE r == [route |-> route, stage |-> stage, tx |-> tx, dirty |-> dirty]
<1>1. r \in RequestsOf
  BY DEF RequestsOf
<1>2. requests' = [requests EXCEPT ![c] = r]
  BY DEF Asks
<1>. HIDE DEF r
<1>. QED
  BY <1>1, <1>2 DEF RequestsTyped

LEMMA RequestStepTypes ==
  ASSUME ApiTypes, NEW c \in Clients,
         \/ SendTx(c) \/ AskFaucet(c) \/ NonceRead(c) \/ TxChecked(c)
         \/ TxEntered(c) \/ TxPublished(c) \/ PublishFails(c)
  PROVE  RequestsTyped'
<1>0. RequestsTyped /\ {"send", "faucet"} \subseteq {"send", "faucet"}
  BY DEF ApiTypes
<1>1. ASSUME Answered(c) PROVE RequestsTyped'
  BY <1>0, <1>1 DEF Answered, RequestsTyped
<1>2. CASE SendTx(c)
  <2>1. PICK tx \in Sent : Asks(c, "send", "check", tx, FALSE)
    BY <1>2 DEF SendTx
  <2>2. tx \in InPool
    BY PayoutType
  <2>. QED
    BY <1>0, <2>1, <2>2, AsksType
<1>3. CASE AskFaucet(c)
  <2>1. PICK to \in Payees : Asks(c, "faucet", "nonce", Payout(to, 0), FALSE)
    BY <1>3 DEF AskFaucet
  <2>2. Payout(to, 0) \in Payouts /\ Payout(to, 0) \in InPool
    BY PayoutType DEF Payouts
  <2>. QED
    BY <1>0, <2>1, <2>2, AsksType
<1>4. CASE NonceRead(c)
  <2>. DEFINE nonce == trie[Self].nonce  tx == Payout(requests[c].tx.to, nonce)
              dirty == nonce # After(chain)[Self].nonce
  <2>1. requests[c] # NoRequest /\ requests[c].stage = "nonce"
    BY <1>4 DEF NonceRead, At
  <2>2. Asks(c, "faucet", "check", tx, dirty)
    BY <1>4 DEF NonceRead
  <2>3. nonce \in Nat
    <3>1. trie \in Tries /\ Self \in Addresses
      BY NodeAssumption DEF ApiTypes, NodeTypes, ExecutionTypes
    <3>. QED
      BY <3>1 DEF Tries, Accounts
  <2>4. tx \in Payouts /\ tx \in InPool
    BY <1>0, <2>1, <2>3, RequestFields, PayoutType DEF Payouts
  <2>5. dirty \in BOOLEAN
    OBVIOUS
  <2>. HIDE DEF dirty, tx
  <2>. QED
    BY <1>0, <2>2, <2>4, <2>5, AsksType
<1>5. CASE TxChecked(c)
  <2>. DEFINE r == requests[c]
  <2>1. r # NoRequest
    BY <1>5 DEF TxChecked, At
  <2>2. Asks(c, r.route, "add", r.tx, r.dirty) \/ Answered(c)
    BY <1>5 DEF TxChecked
  <2>3. /\ r.route \in {"send", "faucet"} /\ r.tx \in InPool /\ r.dirty \in BOOLEAN
        /\ r.route = "faucet" => r.tx \in Payouts
    BY <1>0, <2>1, RequestFields
  <2>. HIDE DEF r
  <2>. QED
    BY <1>0, <1>1, <2>2, <2>3, AsksType
<1>6. CASE TxEntered(c)
  <2>. DEFINE r == requests[c]
  <2>1. r # NoRequest
    BY <1>6 DEF TxEntered, At
  <2>2. Asks(c, r.route, "publish", r.tx, r.dirty) \/ Answered(c)
    BY <1>6 DEF TxEntered
  <2>3. /\ r.route \in {"send", "faucet"} /\ r.tx \in InPool /\ r.dirty \in BOOLEAN
        /\ r.route = "faucet" => r.tx \in Payouts
    BY <1>0, <2>1, RequestFields
  <2>. HIDE DEF r
  <2>. QED
    BY <1>0, <1>1, <2>2, <2>3, AsksType
<1>7. CASE TxPublished(c) \/ PublishFails(c)
  BY <1>1, <1>7 DEF TxPublished, PublishFails
<1>. QED
  BY <1>2, <1>3, <1>4, <1>5, <1>6, <1>7

LEMMA ApiTypesKept ==
  ASSUME ApiTypes, [ApiNext]_<<vars, apiVars>>
  PROVE  ApiTypes'
<1>0. NodeTypes(InPool) /\ RequestsTyped
  BY DEF ApiTypes
<1>1. NodeTypes(InPool)'
  <2>1. CASE Next \/ UNCHANGED vars
    BY <1>0, <2>1, PayoutType, TypesKept
  <2>2. ASSUME NEW c \in Clients, TxEntered(c) PROVE NodeTypes(InPool)'
    <3>. DEFINE tx == requests[c].tx
    <3>1. /\ tx \in InPool /\ pool' = Entered(tx) /\ adding' = adding
          /\ UNCHANGED <<stateVars, jobs, headVars, lost>>
      BY <1>0, <2>2, RequestFields DEF TxEntered, At
    <3>. HIDE DEF tx
    <3>2. ExecutionTypes(InPool)'
      BY <1>0, <3>1, PoolStepTypes DEF NodeTypes
    <3>3. pool' \in Seq(InPool) /\ Len(pool') <= MaxPool
      BY <1>0, <3>1, PayoutType, EnteredTypes DEF NodeTypes
    <3>. QED
      BY <1>0, <3>1, <3>2, <3>3 DEF NodeTypes, PoolTypes
  <2>. QED
    BY <2>1, <2>2, ApiSteps
<1>2. RequestsTyped'
  <2>1. ASSUME NEW c \in Clients,
               \/ SendTx(c) \/ AskFaucet(c) \/ NonceRead(c) \/ TxChecked(c)
               \/ TxEntered(c) \/ TxPublished(c) \/ PublishFails(c)
        PROVE  RequestsTyped'
    BY <2>1, RequestStepTypes
  <2>2. ASSUME UNCHANGED requests PROVE RequestsTyped'
    BY <1>0, <2>2 DEF RequestsTyped
  <2>. QED
    BY <2>1, <2>2 DEF ApiNext, TxGossiped, LookupMisses, LookupAnswered, Execution,
                      BlockSaved, BlockAnnounced, apiVars
<1>3. saved' \in 0..3
  <2>1. saved \in 0..3 /\ Len(SaveSteps) = 3
    BY DEF ApiTypes, SaveSteps
  <2>2. CASE saved' = saved \/ saved' = 0
    BY <2>1, <2>2
  <2>3. ASSUME NEW j \in Jobs, BlockSaved(j) PROVE saved' \in 0..3
    BY <2>1, <2>3 DEF BlockSaved
  <2>. QED
    BY <2>2, <2>3
       DEF ApiNext, SendTx, AskFaucet, NonceRead, TxChecked, TxEntered, TxPublished,
           PublishFails, TxGossiped, LookupMisses, LookupAnswered, Execution, BlockAnnounced, apiVars
<1>4. announced' \subseteq BlocksOf(InPool)
  <2>1. ASSUME NEW j \in Jobs, BlockAnnounced(j)
        PROVE  announced' \subseteq BlocksOf(InPool)
    <3>1. jobs[j] \in JobsOf(InPool) /\ jobs[j] # Idle /\ jobs[j].kind = "commit"
      BY <1>0, <2>1 DEF BlockAnnounced, CommitSaved, In, NodeTypes, ExecutionTypes
    <3>2. jobs[j].block \in BlocksOf(InPool)
      BY <3>1, JobFields
    <3>. QED
      BY <2>1, <3>2 DEF ApiTypes, BlockAnnounced
  <2>2. CASE announced' = announced
    BY <2>2 DEF ApiTypes
  <2>. QED
    BY <2>1, <2>2
       DEF ApiNext, SendTx, AskFaucet, NonceRead, TxChecked, TxEntered, TxPublished,
           PublishFails, TxGossiped, LookupMisses, LookupAnswered, Execution, BlockSaved, apiVars
<1>5. accepted' \subseteq InPool /\ paid' \subseteq Payees
  <2>1. ASSUME NEW c \in Clients, TxPublished(c)
        PROVE  accepted' \subseteq InPool /\ paid' \subseteq Payees
    <3>1. /\ requests[c].tx \in InPool
          /\ requests[c].route = "faucet" => requests[c].tx.to \in Payees
      BY <1>0, <2>1, RequestFields DEF TxPublished, At
    <3>. QED
      BY <2>1, <3>1 DEF ApiTypes, TxPublished
  <2>2. CASE accepted' = accepted /\ paid' = paid
    BY <2>2 DEF ApiTypes
  <2>. QED
    BY <2>1, <2>2
       DEF ApiNext, SendTx, AskFaucet, NonceRead, TxChecked, TxEntered,
           PublishFails, TxGossiped, LookupMisses, LookupAnswered, Execution, BlockSaved, BlockAnnounced, apiVars
<1>6. evicted' \subseteq InPool
  <2>1. Range(pool) \subseteq InPool
    BY <1>0 DEF NodeTypes, PoolTypes, Range
  <2>2. CASE evicted' = evicted \/ evicted' = evicted \cup (Range(pool) \ Range(pool'))
    BY <2>1, <2>2 DEF ApiTypes
  <2>. QED
    BY <2>2
       DEF ApiNext, SendTx, AskFaucet, NonceRead, TxChecked, TxEntered, TxPublished,
           PublishFails, TxGossiped, LookupMisses, LookupAnswered, Execution, BlockSaved, BlockAnnounced, apiVars
<1>7. lookup' \in [tx : InPool, seen : Nat] \cup {NoRequest}
  <2>1. CASE LookupMisses
    <3>1. PICK tx \in accepted : lookup' = [tx |-> tx, seen |-> getHeight]
      BY <2>1 DEF LookupMisses
    <3>2. tx \in InPool /\ getHeight \in Nat
      BY <1>0 DEF ApiTypes, NodeTypes, ExecutionTypes, getHeight
    <3>. QED
      BY <3>1, <3>2
  <2>2. CASE lookup' = lookup \/ lookup' = NoRequest
    BY <2>2 DEF ApiTypes
  <2>. QED
    BY <2>1, <2>2
       DEF ApiNext, SendTx, AskFaucet, NonceRead, TxChecked, TxEntered, TxPublished,
           PublishFails, TxGossiped, LookupAnswered, Execution, BlockSaved,
           BlockAnnounced, apiVars
<1>. QED
  BY <1>1, <1>2, <1>3, <1>4, <1>5, <1>6, <1>7 DEF ApiTypes

LEMMA ApiTypesAtStart == ASSUME ApiInit PROVE ApiTypes
<1>1. NodeTypes(InPool)
  BY TypesAtStart DEF ApiInit
<1>. QED
  BY <1>1 DEF ApiInit, ApiTypes, RequestsTyped

\* The requests and what the API remembers keep their types, if what the faucet signs
\* counts among the transactions that are submitted.
THEOREM ApiTypeCorrect ==
  ASSUME Payouts \subseteq Txs
  PROVE  ApiSpec => []ApiTypeOK
<1>1. ApiInit => ApiTypes
  BY ApiTypesAtStart
<1>2. ApiTypes /\ [ApiNext]_<<vars, apiVars>> => ApiTypes'
  BY ApiTypesKept
<1>3. ApiTypes => ApiTypeOK
  <2>. SUFFICES ASSUME ApiTypes PROVE ApiTypeOK
    OBVIOUS
  <2>1. InPool = Txs /\ InPool \subseteq Transactions
    BY PayoutType DEF InPool
  <2>2. TypeOK
    BY <2>1, TypesImply DEF ApiTypes, NodeTypes, PoolTypes
  <2>3. \A c \in Clients : requests[c] \in Request \cup {NoRequest}
    <3>1. RequestsOf \subseteq Request
      BY <2>1 DEF RequestsOf, Request
    <3>. QED
      BY <3>1 DEF ApiTypes, RequestsTyped
  <2>4. announced \subseteq Blocks
    <3>1. Seq(Held(InPool)) \subseteq Seq(Transactions)
      BY <2>1, HeldType, SeqsGrow
    <3>. QED
      BY <3>1 DEF ApiTypes, BlocksOf, Blocks
  <2>5. saved \in 0..Len(SaveSteps)
    BY DEF ApiTypes, SaveSteps
  <2>6. lookup \in Lookup \cup {NoRequest}
    BY <2>1 DEF ApiTypes, Lookup
  <2>. QED
    BY <2>1, <2>2, <2>3, <2>4, <2>5, <2>6 DEF ApiTypes, ApiTypeOK
<1>. QED
  BY <1>1, <1>2, <1>3, PTL DEF ApiSpec

-----------------------------------------------------------------------------
(* What the store holds.                                                   *)

\* The chain, or the chain and a block that a commit is saving.
LEMMA EntriesAre ==
  ASSUME NEW step
  PROVE  \/ Entries(step) = chain
         \/ \E j \in Jobs : /\ In(j, "commit", "saving")
                            /\ Entries(step) = Append(chain, Saving(j))
<1>. DEFINE done == {j \in Jobs : In(j, "commit", "saving") /\ saved >= step}
            j == CHOOSE i \in done : TRUE
<1>1. Entries(step) = IF done = {} THEN chain ELSE Append(chain, Saving(j))
  BY DEF Entries
<1>2. done # {} => j \in done
  OBVIOUS
<1>. QED
  BY <1>1, <1>2

LEMMA StoredEntries ==
  ASSUME NEW P, ExecutionTypes(P), NEW step
  PROVE  LET es == Entries(step)
         IN  /\ es \in Seq(EntriesOf(P))
             /\ Len(es) >= Len(chain)
             /\ \A i \in DOMAIN chain : i \in DOMAIN es /\ es[i] = chain[i]
             /\ \A i \in DOMAIN es :
                  \/ i \in DOMAIN chain
                  \/ /\ i = Len(chain) + 1
                     /\ \E j \in Jobs : /\ In(j, "commit", "saving")
                                        /\ es[i] = Saving(j)
<1>. DEFINE es == Entries(step)
<1>0. chain \in Seq(EntriesOf(P)) /\ jobs \in [Jobs -> JobsOf(P)]
  BY DEF ExecutionTypes
<1>1. CASE es = chain
  BY <1>0, <1>1
<1>2. ASSUME NEW j \in Jobs, In(j, "commit", "saving"), es = Append(chain, Saving(j))
      PROVE  /\ es \in Seq(EntriesOf(P))
             /\ Len(es) >= Len(chain)
             /\ \A i \in DOMAIN chain : i \in DOMAIN es /\ es[i] = chain[i]
             /\ \A i \in DOMAIN es : \/ i \in DOMAIN chain
                                     \/ i = Len(chain) + 1 /\ es[i] = Saving(j)
  <2>1. jobs[j] # Idle /\ jobs[j].kind = "commit" /\ jobs[j] \in JobsOf(P)
    BY <1>0, <1>2 DEF In
  <2>2. jobs[j].block \in BlocksOf(P) /\ jobs[j].done \in Seq(Held(P))
    BY <2>1, JobFields
  <2>. DEFINE e == Saving(j)
  <2>3. e \in EntriesOf(P)
    BY <2>2 DEF Saving, EntriesOf
  <2>. HIDE DEF e, es
  <2>. QED
    BY <1>0, <1>2, <2>3 DEF e
<1>. QED
  BY <1>1, <1>2, EntriesAre

\* Whoever reads the list page by page misses no block, for every number of pages and
\* every growth of the chain between two of them.
THEOREM PagesAreComplete == ApiSpec => []PagesMissNothing
<1>1. ApiInit => ApiTypes
  BY ApiTypesAtStart
<1>2. ApiTypes /\ [ApiNext]_<<vars, apiVars>> => ApiTypes'
  BY ApiTypesKept
<1>3. ApiTypes => PagesMissNothing
  <2>. SUFFICES ASSUME ApiTypes,
                       NEW head \in getHead..(MaxHeight + 3), NEW limit \in 1..2,
                       NEW k \in 0..(MaxHeight + 3), NEW later \in head..(MaxHeight + 4)
                PROVE  LET page == Listed(head, limit, k * limit)
                           next == Listed(later, limit, (k + 1) * limit)
                       IN  page # {} =>
                             /\ k = 0 => Max(page) = head
                             /\ Min(page) > 1 => next # {} /\ Max(next) >= Min(page) - 1
                             /\ later = head => page \cap next = {}
    BY DEF PagesMissNothing
  <2>1. getHead \in Nat /\ MaxHeight \in Nat
    <3>1. Entries(2) \in Seq(EntriesOf(InPool))
      BY StoredEntries DEF ApiTypes, NodeTypes
    <3>. QED
      BY <3>1, NodeAssumption DEF getHead
  <2>2. head \in Nat /\ later \in Nat /\ head <= later /\ limit \in Nat \ {0} /\ k \in Nat
    BY <2>1
  <2>. DEFINE offset == k * limit
  <2>3. offset \in Nat /\ (k = 0 => offset = 0) /\ (k + 1) * limit = offset + limit
    BY <2>2
  <2>. HIDE DEF offset
  <2>4. LET page == Listed(head, limit, offset)
            next == Listed(later, limit, offset + limit)
        IN  page # {} =>
              /\ offset = 0 => Max(page) = head
              /\ Min(page) > 1 => next # {} /\ Max(next) >= Min(page) - 1
              /\ later = head => page \cap next = {}
    BY <2>2, <2>3, PagesMeet
  <2>. QED
    BY <2>3, <2>4 DEF offset
<1>. QED
  BY <1>1, <1>2, <1>3, PTL DEF ApiSpec

-----------------------------------------------------------------------------
(* What a client was told is accepted.                                     *)

InChain(c, tx) == \E i \in DOMAIN c : Contains(c[i].block.txs, tx)

Present(tx) == Contains(pool, tx) \/ tx \in evicted \/ InChain(chain, tx)

PresentNext(tx) == Contains(pool', tx) \/ tx \in evicted' \/ InChain(chain', tx)

\* What was accepted or entered the pool is there, has been in a block, or gave way.
PresenceInv ==
  /\ \A tx \in accepted : Present(tx)
  /\ \A c \in Clients : At(c, "publish") => Present(requests[c].tx)

LEMMA InRange ==
  ASSUME NEW S, NEW s \in Seq(S), NEW x
  PROVE  x \in Range(s) <=> Contains(s, x)
  BY DEF Range, Contains

\* A step takes nothing away.
LEMMA PresentStays ==
  ASSUME ApiTypes, [ApiNext]_<<vars, apiVars>>, NEW tx, Present(tx)
  PROVE  PresentNext(tx)
<1>0. /\ NodeTypes(InPool) /\ ApiTypes' /\ pool \in Seq(InPool)
      /\ chain \in Seq(EntriesOf(InPool))
  BY ApiTypesKept DEF ApiTypes, NodeTypes, PoolTypes, ExecutionTypes
<1>1. pool' \in Seq(InPool)
  BY <1>0 DEF ApiTypes, NodeTypes, PoolTypes
<1>2. CASE UNCHANGED <<pool, chain, evicted>>
  BY <1>2 DEF Present, PresentNext
<1>3. ASSUME evicted' = evicted \cup (Range(pool) \ Range(pool')), chain' = chain
      PROVE  PresentNext(tx)
  <2>1. Contains(pool, tx) => Contains(pool', tx) \/ tx \in evicted'
    BY <1>0, <1>1, <1>3, InRange
  <2>. QED
    BY <1>3, <2>1 DEF Present, PresentNext
<1>4. ASSUME NEW j \in Jobs, CommitSaved(j), evicted' = evicted
      PROVE  PresentNext(tx)
  <2>. DEFINE b == jobs[j].block
  <2>1. jobs[j] \in JobsOf(InPool) /\ jobs[j] # Idle /\ jobs[j].kind = "commit"
    BY <1>0, <1>4 DEF CommitSaved, In, NodeTypes, ExecutionTypes
  <2>2. b \in BlocksOf(InPool) /\ jobs[j].done \in Seq(Held(InPool))
    BY <2>1, JobFields
  <2>3. b.txs \in Seq(Held(InPool)) /\ pool \in Seq(Held(InPool))
    BY <1>0, <2>2, SeqsGrow DEF BlocksOf, Held
  <2>. DEFINE e == [block |-> b, receipts |-> jobs[j].done]
  <2>4. chain' = Append(chain, e) /\ pool' = Removed(b.txs) /\ e.block = b
    BY <1>4 DEF CommitSaved
  <2>5. e \in EntriesOf(InPool)
    BY <2>2 DEF EntriesOf
  <2>. HIDE DEF b, e
  <2>6. Contains(pool, tx) /\ ~ Contains(pool', tx) => Contains(b.txs, tx)
    BY <2>3, <2>4, RemovesTheBlock
  <2>7. /\ DOMAIN chain' = 1..(Len(chain) + 1) /\ chain'[Len(chain) + 1] = e
        /\ \A i \in DOMAIN chain : i \in DOMAIN chain' /\ chain'[i] = chain[i]
        /\ Len(chain) + 1 \in DOMAIN chain'
    BY <1>0, <2>4, <2>5
  <2>8. InChain(chain, tx) \/ Contains(b.txs, tx) => InChain(chain', tx)
    BY <2>4, <2>7 DEF InChain
  <2>. QED
    BY <1>4, <2>6, <2>8 DEF Present, PresentNext
<1>5. ASSUME NEW c \in Clients,
             \/ SendTx(c) \/ AskFaucet(c) \/ NonceRead(c) \/ TxChecked(c)
             \/ TxPublished(c) \/ PublishFails(c)
      PROVE  UNCHANGED <<pool, chain, evicted>>
  BY <1>5 DEF SendTx, AskFaucet, NonceRead, TxChecked, TxPublished, PublishFails,
              vars, headVars, poolVars
<1>6. ASSUME NEW c \in Clients, TxEntered(c)
      PROVE  evicted' = evicted \cup (Range(pool) \ Range(pool')) /\ chain' = chain
  BY <1>6 DEF TxEntered, headVars
<1>7. ASSUME TxGossiped
      PROVE  evicted' = evicted \cup (Range(pool) \ Range(pool')) /\ chain' = chain
  BY <1>7 DEF TxGossiped, TxSubmitted, TxAdded, headVars
<1>8. ASSUME NEW j \in Jobs, Execution(j) \/ BlockSaved(j)
      PROVE  UNCHANGED <<pool, chain, evicted>>
  BY <1>8
     DEF Execution, BlockSaved, TxExecuted, TxLost, Writing, ProposeStarts,
         ProposeExecuted, ProposePublished, BlockArrives, VerifyStarts, VerifyExecuted,
         CommitStarts, CommitExecuted, StateCommitted, apiVars, vars, headVars, poolVars
<1>9. ASSUME NEW j \in Jobs, BlockAnnounced(j)
      PROVE  CommitSaved(j) /\ evicted' = evicted
  BY <1>9 DEF BlockAnnounced
<1>10. CASE UNCHANGED <<vars, apiVars>>
  BY <1>2, <1>10 DEF vars, apiVars, headVars, poolVars
<1>11. ASSUME LookupMisses \/ LookupAnswered PROVE UNCHANGED <<pool, chain, evicted>>
  BY <1>11 DEF LookupMisses, LookupAnswered, vars, headVars, poolVars
<1>12. CASE ApiNext
  BY <1>2, <1>3, <1>4, <1>5, <1>6, <1>7, <1>8, <1>9, <1>11, <1>12 DEF ApiNext
<1>. QED
  BY <1>10, <1>12

LEMMA EnteredIsIn ==
  ASSUME NEW S, pool \in Seq(S), NEW tx \in S, Admits(tx)
  PROVE  Contains(Entered(tx), tx)
<1>1. ASSUME NEW s \in Seq(S) PROVE Contains(Append(s, tx), tx)
  <2>1. Append(s, tx) \in Seq(S) /\ Len(Append(s, tx)) = Len(s) + 1
        /\ Append(s, tx)[Len(s) + 1] = tx
    OBVIOUS
  <2>. QED
    BY <2>1 DEF Contains
<1>2. RemoveFirst(pool, Lowest) \in Seq(S)
  BY RemovesFirst
<1>. QED
  BY <1>1, <1>2 DEF Entered

LEMMA PresenceKept ==
  ASSUME ApiTypes, PresenceInv, [ApiNext]_<<vars, apiVars>>
  PROVE  PresenceInv'
<1>0. RequestsTyped /\ pool \in Seq(InPool)
  BY DEF ApiTypes, NodeTypes, PoolTypes
<1>1. \A tx : Present(tx) => PresentNext(tx)
  BY PresentStays
<1>2. \A tx \in accepted' : PresentNext(tx)
  <2>1. ASSUME NEW c \in Clients, TxPublished(c) PROVE \A tx \in accepted' : PresentNext(tx)
    <3>1. accepted' = accepted \cup {requests[c].tx} /\ At(c, "publish")
      BY <2>1 DEF TxPublished
    <3>. QED
      BY <1>1, <3>1 DEF PresenceInv
  <2>2. CASE accepted' = accepted
    BY <1>1, <2>2 DEF PresenceInv
  <2>. QED
    BY <2>1, <2>2
       DEF ApiNext, SendTx, AskFaucet, NonceRead, TxChecked, TxEntered, PublishFails,
           TxGossiped, LookupMisses, LookupAnswered, Execution, BlockSaved, BlockAnnounced, apiVars
<1>3. ASSUME NEW d \in Clients, requests'[d] # NoRequest, requests'[d].stage = "publish"
      PROVE  PresentNext(requests'[d].tx)
  <2>1. CASE requests'[d] = requests[d]
    <3>1. At(d, "publish")
      BY <1>3, <2>1 DEF At
    <3>2. Present(requests[d].tx)
      BY <3>1 DEF PresenceInv
    <3>. QED
      BY <1>1, <2>1, <3>2
  <2>2. ASSUME requests'[d] # requests[d] PROVE TxEntered(d) /\ Admits(requests[d].tx)
    <3>1. ASSUME NEW c \in Clients, NEW route, NEW stage, NEW tx, NEW dirty,
                 Asks(c, route, stage, tx, dirty)
          PROVE  c = d /\ stage = "publish"
      <4>1. requests' = [requests EXCEPT ![c] = [route |-> route, stage |-> stage,
                                                 tx |-> tx, dirty |-> dirty]]
        BY <3>1 DEF Asks
      <4>2. c = d
        BY <1>0, <2>2, <4>1 DEF RequestsTyped
      <4>3. requests'[d].stage = stage
        BY <1>0, <4>1, <4>2 DEF RequestsTyped
      <4>. QED
        BY <1>3, <4>2, <4>3
    <3>2. ASSUME NEW c \in Clients, Answered(c) PROVE FALSE
      <4>1. requests' = [requests EXCEPT ![c] = NoRequest]
        BY <3>2 DEF Answered
      <4>2. c = d /\ requests'[d] = NoRequest
        BY <1>0, <2>2, <4>1 DEF RequestsTyped
      <4>. QED
        BY <1>3, <4>2
    <3>3. ASSUME NEW c \in Clients,
                 SendTx(c) \/ AskFaucet(c) \/ NonceRead(c) \/ TxChecked(c)
          PROVE  FALSE
      <4>1. CASE SendTx(c)
        <5>1. PICK tx \in Sent : Asks(c, "send", "check", tx, FALSE)
          BY <4>1 DEF SendTx
        <5>. DEFINE clean == FALSE
        <5>2. Asks(c, "send", "check", tx, clean)
          BY <5>1
        <5>. HIDE DEF clean
        <5>3. "check" = "publish"
          BY <3>1, <5>2
        <5>. QED
          BY <5>3
      <4>2. CASE AskFaucet(c)
        <5>1. PICK to \in Payees : Asks(c, "faucet", "nonce", Payout(to, 0), FALSE)
          BY <4>2 DEF AskFaucet
        <5>. DEFINE clean == FALSE
        <5>2. Asks(c, "faucet", "nonce", Payout(to, 0), clean)
          BY <5>1
        <5>. HIDE DEF clean
        <5>3. "nonce" = "publish"
          BY <3>1, <5>2
        <5>. QED
          BY <5>3
      <4>3. CASE NonceRead(c)
        BY <3>1, <4>3 DEF NonceRead
      <4>4. CASE TxChecked(c)
        BY <3>1, <3>2, <4>4 DEF TxChecked
      <4>. QED
        BY <3>3, <4>1, <4>2, <4>3, <4>4
    <3>4. ASSUME NEW c \in Clients, TxPublished(c) \/ PublishFails(c) PROVE FALSE
      BY <3>2, <3>4 DEF TxPublished, PublishFails
    <3>5. ASSUME NEW c \in Clients, TxEntered(c)
          PROVE  c = d /\ Admits(requests[c].tx)
      BY <3>1, <3>2, <3>5 DEF TxEntered
    <3>. QED
      BY <2>2, <3>3, <3>4, <3>5
         DEF ApiNext, TxGossiped, LookupMisses, LookupAnswered, Execution, BlockSaved,
             BlockAnnounced, apiVars
  <2>3. ASSUME TxEntered(d), Admits(requests[d].tx)
        PROVE  PresentNext(requests'[d].tx)
    <3>. DEFINE tx == requests[d].tx
    <3>1. tx \in InPool
      BY <1>0, <2>3, RequestFields DEF TxEntered, At
    <3>2. pool' = Entered(tx) /\ requests'[d].tx = tx
      <4>1. pool' = Entered(tx) /\ Asks(d, requests[d].route, "publish", tx, requests[d].dirty)
        BY <2>3 DEF TxEntered
      <4>. QED
        BY <1>0, <4>1 DEF Asks, RequestsTyped
    <3>3. Contains(Entered(tx), tx)
      <4>. HIDE DEF tx
      <4>. QED
        BY <1>0, <2>3, <3>1, EnteredIsIn DEF tx
    <3>. QED
      BY <3>2, <3>3 DEF PresentNext
  <2>. QED
    BY <2>1, <2>2, <2>3
<1>. QED
  BY <1>2, <1>3 DEF PresenceInv, Present, PresentNext, At

\* A bounded set of numbers has a greatest one.
LEMMA GreatestNumber ==
  ASSUME NEW n \in Nat, NEW U, U \subseteq 1..n, U # {}
  PROVE  \E m \in U : (\A k \in U : k <= m) /\ Max(U) = m
<1>. DEFINE V == {n - k : k \in U}
<1>1. V \subseteq Nat /\ V # {}
  <2>1. ASSUME NEW k \in U PROVE n - k \in Nat
    OBVIOUS
  <2>2. PICK u \in U : TRUE
    OBVIOUS
  <2>3. n - u \in V
    BY <2>2
  <2>. QED
    BY <2>1, <2>3
<1>2. PICK v \in V : \A w \in V : v <= w
  <2>. HIDE DEF V
  <2>. QED
    BY <1>1, LeastNumber
<1>3. PICK m \in U : v = n - m
  OBVIOUS
<1>4. U \subseteq Int /\ m \in U
  OBVIOUS
<1>5. ASSUME NEW k \in U PROVE k <= m
  <2>1. n - k \in V /\ n - m <= n - k
    BY <1>2, <1>3
  <2>. QED
    BY <1>4, <2>1
<1>6. Max(U) = m
  BY <1>4, <1>5, MaxIs
<1>. QED
  BY <1>4, <1>5, <1>6

\* The index of transactions finds a transaction in the last block that has it.
LEMMA FoundLast ==
  ASSUME NEW P, ExecutionTypes(P), NEW tx
  PROVE  LET es == Entries(1)
             at == {h \in DOMAIN es : Contains(es[h].block.txs, tx)}
         IN  at # {} => \E m \in at : /\ \A k \in at : k <= m
                                      /\ getTransaction(tx) = {es[m].block}
<1>. DEFINE es == Entries(1)
            at == {h \in DOMAIN es : Contains(es[h].block.txs, tx)}
<1>1. es \in Seq(EntriesOf(P))
  BY StoredEntries
<1>2. at \subseteq 1..Len(es) /\ Len(es) \in Nat
  BY <1>1
<1>3. getTransaction(tx) = {es[h].block : h \in {h \in at : h = Max(at)}}
  BY DEF getTransaction
<1>. HIDE DEF at, es
<1>4. ASSUME at # {}
      PROVE  \E m \in at : (\A k \in at : k <= m) /\ getTransaction(tx) = {es[m].block}
  <2>1. PICK m \in at : (\A k \in at : k <= m) /\ Max(at) = m
    BY <1>2, <1>4, GreatestNumber
  <2>2. {h \in at : h = Max(at)} = {m}
    BY <2>1
  <2>3. getTransaction(tx) = {es[m].block}
    BY <1>3, <2>2
  <2>. QED
    BY <2>1, <2>3
<1>. QED
  BY <1>4 DEF at, es

LEMMA ChainIsFound ==
  ASSUME NEW P, ExecutionTypes(P), NEW tx, InChain(chain, tx)
  PROVE  getTransaction(tx) # {}
<1>. DEFINE es == Entries(1)
            at == {h \in DOMAIN es : Contains(es[h].block.txs, tx)}
<1>1. PICK i \in DOMAIN chain : Contains(chain[i].block.txs, tx)
  BY DEF InChain
<1>2. i \in DOMAIN es /\ es[i] = chain[i]
  BY StoredEntries
<1>3. i \in at
  BY <1>1, <1>2
<1>. QED
  BY <1>3, FoundLast

\* The chain keeps its blocks.
LEMMA ChainGrows ==
  ASSUME ApiTypes, [ApiNext]_<<vars, apiVars>>
  PROVE  /\ Len(chain) \in Nat /\ Len(chain') \in Nat /\ Len(chain') >= Len(chain)
         /\ \A i \in 1..Len(chain) : chain'[i] = chain[i]
<1>0. /\ chain \in Seq(EntriesOf(InPool)) /\ jobs \in [Jobs -> JobsOf(InPool)]
  BY DEF ApiTypes, NodeTypes, ExecutionTypes
<1>1. CASE chain' = chain
  BY <1>0, <1>1
<1>2. ASSUME NEW j \in Jobs, CommitSaved(j)
      PROVE  \E e \in EntriesOf(InPool) : chain' = Append(chain, e)
  <2>. DEFINE e == Saved(jobs[j])
  <2>1. jobs[j] # Idle /\ jobs[j].kind = "commit" /\ chain' = Append(chain, e)
    BY <1>2 DEF CommitSaved, In, Saved
  <2>2. jobs[j].block \in BlocksOf(InPool) /\ jobs[j].done \in Seq(Held(InPool))
    BY <1>0, <2>1, JobFields
  <2>. QED
    BY <2>1, <2>2 DEF Saved, EntriesOf
<1>3. ASSUME NEW e \in EntriesOf(InPool), chain' = Append(chain, e)
      PROVE  /\ Len(chain) \in Nat /\ Len(chain') \in Nat /\ Len(chain') >= Len(chain)
             /\ \A i \in 1..Len(chain) : chain'[i] = chain[i]
  BY <1>0, <1>3
<1>4. chain' = chain \/ \E j \in Jobs : CommitSaved(j)
  BY DEF ApiNext, SendTx, AskFaucet, NonceRead, TxChecked, TxEntered, TxPublished,
         PublishFails, TxGossiped, TxSubmitted, TxAdded, LookupMisses, LookupAnswered,
         Execution, BlockSaved, BlockAnnounced, TxExecuted, TxLost, Writing,
         ProposeStarts, ProposeExecuted, ProposePublished, BlockArrives, VerifyStarts,
         VerifyExecuted, CommitStarts, CommitExecuted, StateCommitted, apiVars, vars,
         headVars
<1>. QED
  BY <1>1, <1>2, <1>3, <1>4

\* A lookup that has missed the store looked for a transaction that was in no block
\* of the chain of then.
MissedInv ==
  lookup # NoRequest =>
    /\ lookup.seen \in 0..Len(chain)
    /\ \A h \in 1..lookup.seen : ~ Contains(chain[h].block.txs, lookup.tx)

LEMMA MissedKept ==
  ASSUME ApiTypes, MissedInv, [ApiNext]_<<vars, apiVars>>
  PROVE  MissedInv'
<1>1. /\ Len(chain) \in Nat /\ Len(chain') \in Nat /\ Len(chain') >= Len(chain)
      /\ \A i \in 1..Len(chain) : chain'[i] = chain[i]
  BY ChainGrows
<1>2. CASE lookup' = lookup
  <2>. SUFFICES ASSUME lookup # NoRequest
                PROVE  /\ lookup.seen \in 0..Len(chain')
                       /\ \A h \in 1..lookup.seen :
                            ~ Contains(chain'[h].block.txs, lookup.tx)
    BY <1>2 DEF MissedInv
  <2>1. /\ lookup.seen \in 0..Len(chain)
        /\ \A h \in 1..lookup.seen : ~ Contains(chain[h].block.txs, lookup.tx)
    BY DEF MissedInv
  <2>2. \A h \in 1..lookup.seen : h \in 1..Len(chain)
    BY <1>1, <2>1
  <2>3. lookup.seen \in 0..Len(chain')
    BY <1>1, <2>1
  <2>. QED
    BY <1>1, <2>1, <2>2, <2>3
<1>3. CASE lookup' = NoRequest
  BY <1>3 DEF MissedInv
<1>4. CASE LookupMisses
  <2>1. PICK tx \in accepted : /\ getTransaction(tx) = {}
                               /\ lookup' = [tx |-> tx, seen |-> getHeight]
    BY <1>4 DEF LookupMisses
  <2>2. chain' = chain
    BY <1>4 DEF LookupMisses, vars, headVars
  <2>3. ExecutionTypes(InPool)
    BY DEF ApiTypes, NodeTypes
  <2>4. ~ InChain(chain, tx)
    BY <2>1, <2>3, ChainIsFound
  <2>5. \A h \in 1..Len(chain) : ~ Contains(chain[h].block.txs, tx)
    BY <2>3, <2>4 DEF InChain, ExecutionTypes
  <2>6. lookup'.tx = tx /\ lookup'.seen = Len(chain)
    BY <2>1 DEF getHeight
  <2>. QED
    BY <1>1, <2>2, <2>5, <2>6 DEF MissedInv
<1>. QED
  BY <1>2, <1>3, <1>4
     DEF ApiNext, SendTx, AskFaucet, NonceRead, TxChecked, TxEntered, TxPublished,
         PublishFails, TxGossiped, LookupAnswered, Execution, BlockSaved, BlockAnnounced,
         apiVars

\* As long as the process lives, a transaction that a client was told is accepted is in
\* the pool or in a stored block, unless a dearer one took its place, and a lookup
\* misses it only when its block was committed between the read of the store and the
\* read of the pool; for any number of requests and of executions at a time.
THEOREM AcceptedIsNeverLost == ApiSpec => []AcceptedIsFound
<1>. DEFINE Inv == ApiTypes /\ PresenceInv /\ MissedInv
<1>1. ApiInit => Inv
  <2>1. ApiInit => PresenceInv /\ MissedInv
    BY DEF ApiInit, PresenceInv, MissedInv, At
  <2>. QED
    BY <2>1, ApiTypesAtStart
<1>2. Inv /\ [ApiNext]_<<vars, apiVars>> => Inv'
  BY ApiTypesKept, PresenceKept, MissedKept
<1>3. Inv => AcceptedIsFound
  <2>. SUFFICES ASSUME Inv PROVE AcceptedIsFound
    OBVIOUS
  <2>1. ExecutionTypes(InPool) /\ \A tx \in accepted : Present(tx)
    BY DEF ApiTypes, NodeTypes, PresenceInv
  <2>2. ASSUME NEW tx \in accepted \ evicted
        PROVE  Contains(pool, tx) \/ getTransaction(tx) # {}
    <3>1. InChain(chain, tx) \/ Contains(pool, tx)
      BY <2>1 DEF Present
    <3>. QED
      BY <2>1, <3>1, ChainIsFound
  <2>3. ASSUME NotFound, lookup.tx \in accepted \ evicted
        PROVE  \E h \in (lookup.seen + 1)..getHeight :
                 Contains(chain[h].block.txs, lookup.tx)
    <3>1. InChain(chain, lookup.tx)
      BY <2>1, <2>3 DEF Present, NotFound
    <3>2. PICK h \in DOMAIN chain : Contains(chain[h].block.txs, lookup.tx)
      BY <3>1 DEF InChain
    <3>3. h \in 1..Len(chain) /\ Len(chain) \in Nat
      BY <2>1 DEF ExecutionTypes
    <3>4. /\ lookup.seen \in 0..Len(chain)
          /\ \A k \in 1..lookup.seen : ~ Contains(chain[k].block.txs, lookup.tx)
      BY <2>3 DEF MissedInv, NotFound
    <3>5. h \notin 1..lookup.seen
      BY <3>2, <3>4
    <3>6. h \in (lookup.seen + 1)..getHeight
      BY <3>3, <3>4, <3>5 DEF getHeight
    <3>. QED
      BY <3>2, <3>6
  <2>. QED
    BY <2>2, <2>3 DEF AcceptedIsFound
<1>. QED
  BY <1>1, <1>2, <1>3, PTL DEF ApiSpec

-----------------------------------------------------------------------------
(* What a client is told of a block.                                       *)

\* What was announced is in the chain.
AnnouncedInv == \A b \in announced : \E i \in DOMAIN chain : chain[i].block = b

LEMMA HeightKeptByApi ==
  ASSUME ApiTypes, HeightInv, [ApiNext]_<<vars, apiVars>>
  PROVE  HeightInv'
<1>0. ExecutionTypes(InPool)
  BY DEF ApiTypes, NodeTypes
<1>1. CASE Next \/ UNCHANGED vars
  BY <1>0, <1>1, HeightKept
<1>2. ASSUME NEW c \in Clients, TxEntered(c) PROVE HeightInv'
  BY <1>2 DEF TxEntered, headVars, HeightInv
<1>. QED
  BY <1>1, <1>2, ApiSteps

\* A block is announced when it is in the chain, and the chain only grows.
LEMMA AnnouncedKept ==
  ASSUME ApiTypes, AnnouncedInv, [ApiNext]_<<vars, apiVars>>
  PROVE  AnnouncedInv'
<1>0. chain \in Seq(EntriesOf(InPool)) /\ jobs \in [Jobs -> JobsOf(InPool)]
  BY DEF ApiTypes, NodeTypes, ExecutionTypes
<1>1. ASSUME chain' = chain, announced' = announced PROVE AnnouncedInv'
  BY <1>1 DEF AnnouncedInv
<1>2. ASSUME NEW j \in Jobs, BlockAnnounced(j) PROVE AnnouncedInv'
  <2>. DEFINE e == Saved(jobs[j])
  <2>1. /\ jobs[j] # Idle /\ jobs[j].kind = "commit"
        /\ chain' = Append(chain, e) /\ announced' = announced \cup {jobs[j].block}
    BY <1>2 DEF BlockAnnounced, CommitSaved, In, Saved
  <2>2. e \in EntriesOf(InPool) /\ e.block = jobs[j].block
    <3>1. jobs[j] \in JobsOf(InPool)
      BY <1>0
    <3>2. jobs[j].block \in BlocksOf(InPool) /\ jobs[j].done \in Seq(Held(InPool))
      BY <2>1, <3>1, JobFields
    <3>. QED
      BY <3>2 DEF Saved, EntriesOf
  <2>. HIDE DEF e
  <2>3. /\ \A i \in DOMAIN chain : i \in DOMAIN chain' /\ chain'[i] = chain[i]
        /\ Len(chain) + 1 \in DOMAIN chain' /\ chain'[Len(chain) + 1] = e
    BY <1>0, <2>1, <2>2
  <2>. QED
    BY <2>1, <2>2, <2>3 DEF AnnouncedInv
<1>3. ASSUME NEW c \in Clients,
             \/ SendTx(c) \/ AskFaucet(c) \/ NonceRead(c) \/ TxChecked(c)
             \/ TxEntered(c) \/ TxPublished(c) \/ PublishFails(c)
      PROVE  chain' = chain /\ announced' = announced
  BY <1>3 DEF SendTx, AskFaucet, NonceRead, TxChecked, TxEntered, TxPublished,
              PublishFails, vars, headVars
<1>4. ASSUME TxGossiped PROVE chain' = chain /\ announced' = announced
  BY <1>4 DEF TxGossiped, TxSubmitted, TxAdded, headVars
<1>5. ASSUME NEW j \in Jobs, Execution(j) \/ BlockSaved(j)
      PROVE  chain' = chain /\ announced' = announced
  BY <1>5
     DEF Execution, BlockSaved, TxExecuted, TxLost, Writing, ProposeStarts,
         ProposeExecuted, ProposePublished, BlockArrives, VerifyStarts, VerifyExecuted,
         CommitStarts, CommitExecuted, StateCommitted, apiVars, vars, headVars
<1>6. CASE UNCHANGED <<vars, apiVars>>
  BY <1>1, <1>6 DEF vars, apiVars, headVars
<1>7. ASSUME LookupMisses \/ LookupAnswered
      PROVE  chain' = chain /\ announced' = announced
  BY <1>7 DEF LookupMisses, LookupAnswered, vars, headVars
<1>8. CASE ApiNext
  BY <1>1, <1>2, <1>3, <1>4, <1>5, <1>7, <1>8 DEF ApiNext
<1>. QED
  BY <1>6, <1>8

\* What the store has at a height is a block of that height.
LEMMA StoredHeights ==
  ASSUME NEW P, ExecutionTypes(P), HeightInv, NEW step \in 1..3
  PROVE  \A i \in DOMAIN Entries(step) : Entries(step)[i].block.height = i
<1>. DEFINE es == Entries(step)
<1>. SUFFICES ASSUME NEW i \in DOMAIN es PROVE es[i].block.height = i
  OBVIOUS
<1>1. CASE i \in DOMAIN chain
  <2>1. es[i] = chain[i]
    BY <1>1, StoredEntries
  <2>. HIDE DEF es
  <2>. QED
    BY <1>1, <2>1 DEF HeightInv
<1>2. CASE i \notin DOMAIN chain
  <2>1. PICK j \in Jobs : In(j, "commit", "saving") /\ es[i] = Saving(j)
    BY <1>2, StoredEntries
  <2>2. i = Len(chain) + 1
    BY <1>2, StoredEntries
  <2>. HIDE DEF es
  <2>3. jobs[j].block.height = Len(chain) + 1
    BY <2>1 DEF HeightInv, JobHeight, In
  <2>. QED
    BY <2>1, <2>2, <2>3 DEF Saving
<1>. QED
  BY <1>1, <1>2

\* A block of the chain is served whole.
LEMMA ChainIsServed ==
  ASSUME NEW P, ExecutionTypes(P), HeightInv,
         NEW i \in DOMAIN chain, NEW b, b = chain[i].block
  PROVE  /\ getHeight >= b.height /\ getHead >= b.height
         /\ BlockAt(b.height) = {b} /\ BlockOf(b) = {b}
         /\ b.height \in Listed(getHead, 1, getHead - b.height)
         /\ \A k \in DOMAIN b.txs :
              /\ getTransaction(b.txs[k]) # {}
              /\ \A h \in TxBlock(b.txs[k]) :
                   h >= b.height /\ Contains(Entries(1)[h].block.txs, b.txs[k])
         /\ \A e \in Range(Entries(1)), k \in DOMAIN b.txs :
              e.block = b /\ Contains(e.receipts, b.txs[k]) => HasReceipt(b.txs[k])
<1>. DEFINE es == Entries(1)  head == getHead
<1>0. chain \in Seq(EntriesOf(P)) /\ i \in 1..Len(chain) /\ Len(chain) \in Nat
  BY DEF ExecutionTypes
<1>1. b.height = i
  BY DEF HeightInv
<1>2. /\ es \in Seq(EntriesOf(P)) /\ i \in DOMAIN es /\ es[i] = chain[i]
      /\ \A k \in DOMAIN es : es[k].block.height = k
  BY StoredEntries, StoredHeights
<1>3. head \in Nat /\ head >= Len(chain)
  <2>1. Entries(2) \in Seq(EntriesOf(P)) /\ Len(Entries(2)) >= Len(chain)
    BY StoredEntries
  <2>. QED
    BY <2>1 DEF getHead
<1>4. Entries(3) \in Seq(EntriesOf(P)) /\ i \in DOMAIN Entries(3) /\ Entries(3)[i] = chain[i]
  BY StoredEntries
<1>5. getHeight >= b.height /\ head >= b.height
  BY <1>0, <1>1, <1>3 DEF getHeight
<1>6. BlockAt(b.height) = {b}
  <2>1. BlockAt(i) = {es[k].block : k \in {i} \cap DOMAIN es}
    BY DEF BlockAt
  <2>. HIDE DEF es
  <2>. QED
    BY <1>1, <1>2, <2>1
<1>7. BlockOf(b) = {b}
  <2>1. BlockOf(b) = {e.block : e \in {e \in Range(es) : e.block = b}}
    BY DEF BlockOf
  <2>. HIDE DEF es
  <2>2. es[i] \in Range(es) /\ es[i].block = b
    BY <1>2 DEF Range
  <2>. QED
    BY <2>1, <2>2
<1>8. b.height \in Listed(head, 1, head - b.height)
  <2>. HIDE DEF head
  <2>1. head - i \in Nat /\ i \in Nat \ {0}
    BY <1>0, <1>3
  <2>2. Listed(head, 1, head - i) = Bottom(head, 1, head - i)..Top(head, head - i)
    BY <1>3, <2>1, ListedIs
  <2>3. Top(head, head - i) = i
    BY <1>3, <2>1 DEF Top
  <2>4. Bottom(head, 1, head - i) = i
    BY <2>1, <2>3 DEF Bottom
  <2>. QED
    BY <1>1, <2>1, <2>2, <2>3, <2>4
<1>9. ASSUME NEW k \in DOMAIN b.txs
      PROVE  /\ getTransaction(b.txs[k]) # {}
             /\ \A h \in TxBlock(b.txs[k]) :
                  h >= b.height /\ Contains(es[h].block.txs, b.txs[k])
  <2>. DEFINE tx == b.txs[k]
              at == {h \in DOMAIN es : Contains(es[h].block.txs, tx)}
  <2>1. Contains(chain[i].block.txs, tx)
    <3>1. chain[i] \in EntriesOf(P)
      BY <1>0
    <3>2. b.txs \in Seq(Held(P))
      BY <3>1 DEF EntriesOf, BlocksOf
    <3>. QED
      BY <3>2 DEF Contains
  <2>2. getTransaction(tx) # {}
    BY <2>1, ChainIsFound DEF InChain
  <2>3. i \in at
    BY <1>2, <2>1
  <2>4. PICK m \in at : (\A h \in at : h <= m) /\ getTransaction(tx) = {es[m].block}
    BY <2>3, FoundLast
  <2>5. m \in DOMAIN es /\ Contains(es[m].block.txs, tx) /\ i <= m
    BY <2>3, <2>4
  <2>. HIDE DEF es, at, tx
  <2>6. TxBlock(tx) = {m}
    BY <1>2, <2>4, <2>5 DEF TxBlock
  <2>. QED
    BY <1>0, <1>1, <2>2, <2>5, <2>6 DEF tx
<1>10. ASSUME NEW e \in Range(es), NEW k \in DOMAIN b.txs, e.block = b,
              Contains(e.receipts, b.txs[k])
       PROVE  HasReceipt(b.txs[k])
  <2>1. PICK m \in DOMAIN es : e = es[m]
    BY <1>10 DEF Range
  <2>. HIDE DEF es
  <2>2. m = i
    BY <1>1, <1>2, <1>10, <2>1
  <2>3. e \in Range(Entries(3))
    BY <1>2, <1>4, <2>1, <2>2 DEF Range
  <2>. QED
    BY <1>10, <2>3 DEF HasReceipt
<1>. QED
  BY <1>5, <1>6, <1>7, <1>8, <1>9, <1>10

\* Whoever is told of a committed block can ask for all of it, for any number of
\* requests and of executions at a time.
THEOREM AnnouncedIsComplete == ApiSpec => []AnnouncedIsServed
<1>. DEFINE Inv == ApiTypes /\ HeightInv /\ AnnouncedInv
<1>1. ApiInit => Inv
  <2>1. ApiInit => AnnouncedInv
    BY DEF ApiInit, AnnouncedInv
  <2>2. ApiInit => HeightInv
    BY HeightAtStart DEF ApiInit
  <2>. QED
    BY <2>1, <2>2, ApiTypesAtStart
<1>2. Inv /\ [ApiNext]_<<vars, apiVars>> => Inv'
  BY ApiTypesKept, HeightKeptByApi, AnnouncedKept
<1>3. Inv => AnnouncedIsServed
  <2>. SUFFICES ASSUME Inv PROVE AnnouncedIsServed
    OBVIOUS
  <2>1. ExecutionTypes(InPool)
    BY DEF ApiTypes, NodeTypes
  <2>2. ASSUME NEW b \in announced
        PROVE  \E i \in DOMAIN chain : b = chain[i].block
    BY DEF AnnouncedInv
  <2>. QED
    BY <2>1, <2>2, ChainIsServed DEF AnnouncedIsServed
<1>. QED
  BY <1>1, <1>2, <1>3, PTL DEF ApiSpec

-----------------------------------------------------------------------------
(* The faucet, with one execution at a time: no account's nonce is behind  *)
(* the head's at any moment of an execution, so a nonce that was the       *)
(* head's is never the next one.                                           *)

AheadOf(t, head) == \A a \in Addresses : t[a].nonce >= head[a].nonce

WritesAhead(ws, head) ==
  \A i \in DOMAIN ws :
    "account" \in DOMAIN ws[i] => ws[i].account.nonce >= head[ws[i].addr].nonce

NonceInv ==
  /\ AheadOf(trie, After(chain))
  /\ \A j \in Jobs : jobs[j] # Idle => WritesAhead(jobs[j].writes, After(chain))

LEMMA AheadOfItself == ASSUME NEW t \in Tries PROVE AheadOf(t, t)
  BY DEF AheadOf, Tries, Accounts

LEMMA NothingAhead == ASSUME NEW head PROVE WritesAhead(<<>>, head)
  BY DEF WritesAhead

\* What a transaction writes is not behind what it reads.
LEMMA WritesGoAhead ==
  ASSUME NEW t \in Tries, NEW tx \in Transactions, Valid(t, tx),
         NEW head \in Tries, AheadOf(t, head)
  PROVE  WritesAhead(Writes(t, tx), head)
<1>. DEFINE w1 == [addr |-> tx.from, account |-> Written(t, tx)]
            w2 == [addr |-> tx.to, account |-> Receiver(t, tx)]
            s  == StakingWrites(t, tx)
            a  == AccountWrites(t, tx)
<1>0. tx.from \in Addresses /\ tx.to \in Addresses
  BY DEF Transactions
<1>1. a \in Seq(WriteRecords) /\ s \in Seq(WriteRecords) /\ a = <<w1, w2>>
      /\ Writes(t, tx) = a \o s
  BY WritePartsType, WritesParts DEF AccountWrites
<1>2. \A i \in DOMAIN s : "account" \notin DOMAIN s[i]
  <2>. DEFINE x == [addr |-> tx.from, stake |-> Stored(NewStake(tx, t[Staking].storage))]
              y == [list |-> NewList(tx, t[Staking].storage)]
  <2>1. "account" \notin DOMAIN x /\ "account" \notin DOMAIN y
    OBVIOUS
  <2>2. s = <<>> \/ s = <<x>> \/ s = <<x, y>>
    <3>1. s \in {<<>>, <<x>> \o <<>>, <<x>> \o <<y>>}
      BY DEF StakingWrites, StakeWrites
    <3>. HIDE DEF x, y, s
    <3>2. <<x>> \o <<>> = <<x>>
      OBVIOUS
    <3>. QED
      BY <3>1, <3>2, PairIsConcat
  <2>. HIDE DEF x, y, s
  <2>. QED
    BY <2>1, <2>2
<1>3. Written(t, tx).nonce >= t[tx.from].nonce /\ Receiver(t, tx).nonce >= t[tx.to].nonce
  <2>1. /\ Sender(t, tx).nonce >= t[tx.from].nonce
        /\ t[tx.from].nonce \in Nat /\ t[tx.to].nonce \in Nat
    <3>1. t[tx.from] \in Accounts /\ t[tx.to] \in Accounts
      BY <1>0 DEF Tries
    <3>. QED
      BY <3>1, SenderType DEF Sender, Accounts
  <2>2. Before(t, tx).nonce >= t[tx.to].nonce
    BY <2>1 DEF Before
  <2>3. Receiver(t, tx).nonce = Before(t, tx).nonce
    BY ReceiverType
  <2>. QED
    BY <2>1, <2>2, <2>3 DEF Written
<1>4. w1.account.nonce >= head[w1.addr].nonce /\ w2.account.nonce >= head[w2.addr].nonce
  <2>1. /\ Written(t, tx).nonce \in Nat /\ Receiver(t, tx).nonce \in Nat
        /\ t[tx.from].nonce \in Nat /\ t[tx.to].nonce \in Nat
        /\ head[tx.from].nonce \in Nat /\ head[tx.to].nonce \in Nat
    BY <1>0, ReceiverType DEF Tries, Accounts
  <2>2. /\ t[tx.from].nonce >= head[tx.from].nonce
        /\ t[tx.to].nonce >= head[tx.to].nonce
    BY <1>0 DEF AheadOf
  <2>. QED
    BY <1>3, <2>1, <2>2
<1>. HIDE DEF w1, w2, a, s
<1>5. ASSUME NEW i \in DOMAIN (a \o s), "account" \in DOMAIN (a \o s)[i]
      PROVE  (a \o s)[i].account.nonce >= head[(a \o s)[i].addr].nonce
  <2>1. Len(a) = 2 /\ a[1] = w1 /\ a[2] = w2
    BY <1>1
  <2>2. \/ i = 1 /\ (a \o s)[i] = w1
        \/ i = 2 /\ (a \o s)[i] = w2
        \/ i - 2 \in DOMAIN s /\ (a \o s)[i] = s[i - 2]
    BY <1>1, <2>1
  <2>. QED
    BY <1>2, <1>4, <1>5, <2>2
<1>. QED
  BY <1>1, <1>5 DEF WritesAhead

LEMMA WriteGoesAhead ==
  ASSUME NEW t \in Tries, NEW head \in Tries, AheadOf(t, head),
         NEW ws \in Seq(WriteRecords), ws # <<>>, WritesAhead(ws, head)
  PROVE  AheadOf(Write(t, Head(ws)), head) /\ WritesAhead(Tail(ws), head)
<1>. DEFINE w == Head(ws)
<1>1. w \in WriteRecords /\ w = ws[1] /\ 1 \in DOMAIN ws
  OBVIOUS
<1>2. WritesAhead(Tail(ws), head)
  <2>1. \A i \in DOMAIN Tail(ws) : i + 1 \in DOMAIN ws /\ Tail(ws)[i] = ws[i + 1]
    OBVIOUS
  <2>. QED
    BY <2>1 DEF WritesAhead
<1>3. "account" \in DOMAIN w => w.account.nonce >= head[w.addr].nonce
  BY <1>1 DEF WritesAhead
<1>. HIDE DEF w
<1>4. CASE w \in [addr : Addresses, account : Accounts]
  <2>1. /\ w = [addr |-> w.addr, account |-> w.account]
        /\ w.addr \in Addresses /\ w.account \in Accounts /\ "account" \in DOMAIN w
    BY <1>4
  <2>2. Write(t, w) = [t EXCEPT ![w.addr] = w.account]
    BY <2>1, WriteAccount
  <2>. QED
    BY <1>2, <1>3, <2>1, <2>2 DEF AheadOf, Tries, w
<1>5. ASSUME NEW storage \in Storages, Write(t, w) = WithStorage(t, storage)
      PROVE  AheadOf(Write(t, w), head)
  BY <1>5, StoredTrie DEF AheadOf
<1>6. CASE w \in [addr : Addresses, stake : Nat]
  <2>1. /\ w = [addr |-> w.addr, stake |-> w.stake]
        /\ w.addr \in Addresses /\ w.stake \in Nat
    BY <1>6
  <2>2. \E storage \in Storages : Write(t, w) = WithStorage(t, storage)
    BY <2>1, WriteStake
  <2>. QED
    BY <1>2, <1>5, <2>2 DEF w
<1>7. CASE w \in [list : SUBSET Addresses]
  <2>1. w = [list |-> w.list] /\ w.list \in SUBSET Addresses
    BY <1>7
  <2>2. \E storage \in Storages : Write(t, w) = WithStorage(t, storage)
    BY <2>1, WriteList
  <2>. QED
    BY <1>2, <1>5, <2>2 DEF w
<1>. QED
  BY <1>1, <1>4, <1>6, <1>7 DEF WriteRecords

LEMMA ShareGoesAhead ==
  ASSUME NEW t \in Tries, NEW head \in Tries, AheadOf(t, head),
         NEW p \in Addresses, NEW txs
  PROVE  WritesAhead(ShareWrites(t, p, txs), head)
<1>. DEFINE acc == [t[p] EXCEPT !.balance = @ + ProposerShare(txs)]
<1>1. acc.nonce = t[p].nonce
  BY DEF Tries, Accounts
<1>2. t[p].nonce >= head[p].nonce
  BY DEF AheadOf
<1>3. \/ ShareWrites(t, p, txs) = <<>>
      \/ ShareWrites(t, p, txs) = <<[addr |-> p, account |-> acc]>>
  BY DEF ShareWrites
<1>. HIDE DEF acc
<1>. QED
  BY <1>1, <1>2, <1>3 DEF WritesAhead

\* A step of the only job that leaves the chain alone.
LEMMA NonceStep ==
  ASSUME NEW P, OneAtATime, ExecutionTypes(P), NEW j \in Jobs, NEW job,
         jobs' = [jobs EXCEPT ![j] = job], chain' = chain,
         AheadOf(trie', After(chain)),
         job # Idle => WritesAhead(job.writes, After(chain))
  PROVE  NonceInv'
<1>1. \A i \in Jobs : jobs'[i] = job
  BY DEF OneAtATime, ExecutionTypes
<1>. QED
  BY <1>1 DEF NonceInv

\* A step that saves no block.
LEMMA NonceOfJob ==
  ASSUME NEW P, P \subseteq Transactions, OneAtATime, ExecutionTypes(P), StateInv,
         NonceInv, NEW j \in Jobs,
         \/ TxExecuted(j) \/ TxLost(j) \/ Writing(j)
         \/ ProposeStarts(j) \/ ProposeExecuted(j) \/ ProposePublished(j)
         \/ BlockArrives(j) \/ VerifyStarts(j) \/ VerifyExecuted(j)
         \/ CommitStarts(j) \/ CommitExecuted(j) \/ StateCommitted(j)
  PROVE  NonceInv' /\ chain' = chain
<1>. DEFINE head == After(chain)
<1>0. /\ jobs \in [Jobs -> JobsOf(P)] /\ trie \in Tries
      /\ chain \in Seq(EntriesOf(P))
  BY DEF ExecutionTypes
<1>1. head \in Tries
  BY <1>0, AfterType
<1>2. AheadOf(trie, head) /\ (jobs[j] # Idle => WritesAhead(jobs[j].writes, head))
  BY DEF NonceInv
<1>3. AheadOf(head, head) /\ WritesAhead(<<>>, head)
  BY <1>1, AheadOfItself, NothingAhead
<1>4. \A k, f, b, txs : Started(k, f, b, txs).writes = <<>>
  BY DEF Started
<1>. HIDE DEF head
<1>5. CASE TxExecuted(j)
  <2>. DEFINE tx  == Head(jobs[j].todo)
              w   == IF Valid(trie, tx) THEN Writes(trie, tx) ELSE <<>>
              new == [jobs[j] EXCEPT
                        !.todo = Tail(@),
                        !.done = IF Valid(trie, tx) THEN Append(@, tx) ELSE @,
                        !.writes = w]
  <2>1. jobs[j] # Idle /\ jobs[j].todo # <<>> /\ trie' = trie /\ chain' = chain
    BY <1>5 DEF TxExecuted, Executing, stateVars, headVars
  <2>2. jobs' = [jobs EXCEPT ![j] = new]
    BY <1>0, <1>5 DEF TxExecuted
  <2>3. jobs[j] \in ActiveOf(P) /\ tx \in Transactions
    <3>1. jobs[j] \in ActiveOf(P) /\ jobs[j].todo \in Seq(Held(P))
      BY <2>1, TheJob
    <3>2. tx \in Held(P)
      BY <2>1, <3>1
    <3>. QED
      BY <3>1, <3>2, HeldType
  <2>4. WritesAhead(w, head)
    <3>1. CASE Valid(trie, tx)
      BY <1>0, <1>1, <1>2, <2>3, <3>1, WritesGoAhead DEF head
    <3>2. CASE ~ Valid(trie, tx)
      BY <1>3, <3>2
    <3>. QED
      BY <3>1, <3>2
  <2>. HIDE DEF w
  <2>5. new.writes = w
    BY <2>3 DEF ActiveOf
  <2>. HIDE DEF new
  <2>. QED
    BY <1>2, <2>1, <2>2, <2>4, <2>5, NonceStep DEF head
<1>6. CASE TxLost(j)
  <2>. DEFINE new == [jobs[j] EXCEPT !.todo = Tail(@)]
  <2>1. jobs[j] # Idle /\ trie' = trie /\ chain' = chain
    BY <1>6 DEF TxLost, Executing, stateVars, headVars
  <2>2. jobs' = [jobs EXCEPT ![j] = new]
    BY <1>0, <1>6 DEF TxLost
  <2>3. new.writes = jobs[j].writes
    <3>1. jobs[j] \in ActiveOf(P)
      BY <2>1, TheJob
    <3>. QED
      BY <3>1 DEF ActiveOf
  <2>. HIDE DEF new
  <2>. QED
    BY <1>2, <2>1, <2>2, <2>3, NonceStep DEF head
<1>7. CASE Writing(j)
  <2>. DEFINE ws == jobs[j].writes  new == [jobs[j] EXCEPT !.writes = Tail(@)]
  <2>1. /\ jobs[j] # Idle /\ ws # <<>> /\ trie' = Write(trie, Head(ws)) /\ chain' = chain
    BY <1>7 DEF Writing, headVars
  <2>2. jobs' = [jobs EXCEPT ![j] = new]
    BY <1>0, <1>7 DEF Writing
  <2>3. jobs[j] \in ActiveOf(P) /\ ws \in Seq(WriteRecords)
    BY <2>1, TheJob
  <2>4. new.writes = Tail(ws)
    BY <2>3 DEF ActiveOf
  <2>5. AheadOf(Write(trie, Head(ws)), head) /\ WritesAhead(Tail(ws), head)
    BY <1>0, <1>1, <1>2, <2>1, <2>3, WriteGoesAhead DEF head
  <2>. HIDE DEF new, ws
  <2>. QED
    BY <2>1, <2>2, <2>4, <2>5, NonceStep DEF head
<1>8. CASE ProposeStarts(j)
  <2>1. PICK txs : jobs' = [jobs EXCEPT ![j] = Started("propose", "executing", Idle, txs)]
    BY <1>8 DEF ProposeStarts
  <2>2. trie' = trie /\ chain' = chain
    BY <1>8 DEF ProposeStarts, Checkpoint, headVars
  <2>. QED
    BY <1>2, <1>3, <1>4, <2>1, <2>2, NonceStep, ZenonT(40) DEF head
<1>9. CASE ProposeExecuted(j)
  <2>. DEFINE b   == [height |-> Len(chain) + 1, proposer |-> Self,
                      txs |-> jobs[j].done, root |-> trie]
              new == [jobs[j] EXCEPT !.phase = "publishing", !.block = b]
  <2>1. jobs[j] # Idle /\ trie' = trie /\ chain' = chain
    BY <1>9 DEF ProposeExecuted, Executed, Executing, stateVars, headVars
  <2>2. jobs' = [jobs EXCEPT ![j] = new]
    BY <1>0, <1>9 DEF ProposeExecuted
  <2>. HIDE DEF b
  <2>3. new.writes = jobs[j].writes
    <3>1. jobs[j] \in ActiveOf(P)
      BY <2>1, TheJob
    <3>. QED
      BY <3>1 DEF ActiveOf
  <2>. HIDE DEF new
  <2>. QED
    BY <1>2, <2>1, <2>2, <2>3, NonceStep DEF head
<1>10. CASE ProposePublished(j)
  <2>1. jobs[j] # Idle /\ jobs[j].phase = "publishing" /\ Revert(1) /\ chain' = chain
    BY <1>10 DEF ProposePublished, In, headVars
  <2>2. stack = <<head>>
    BY <2>1, TheJob DEF JobState, head
  <2>3. trie' = head
    BY <2>1, <2>2, RevertsToHead
  <2>4. \/ jobs' = [jobs EXCEPT ![j] = Idle]
        \/ jobs' = [jobs EXCEPT ![j] = Started("verify", "waiting", jobs[j].block,
                                               jobs[j].block.txs)]
    BY <1>0, <1>10 DEF ProposePublished
  <2>. QED
    BY <1>3, <1>4, <2>1, <2>3, <2>4, NonceStep DEF head
<1>11. CASE BlockArrives(j)
  <2>1. PICK b : jobs' = [jobs EXCEPT ![j] = Started("verify", "waiting", b, b.txs)]
    BY <1>11 DEF BlockArrives
  <2>2. trie' = trie /\ chain' = chain
    BY <1>11 DEF BlockArrives, stateVars, headVars
  <2>. DEFINE new == Started("verify", "waiting", b, b.txs)
  <2>3. new.writes = <<>> /\ jobs' = [jobs EXCEPT ![j] = new]
    BY <1>4, <2>1
  <2>. HIDE DEF new
  <2>. QED
    BY <1>2, <1>3, <2>2, <2>3, NonceStep DEF head
<1>12. CASE VerifyStarts(j)
  <2>. DEFINE new == [jobs[j] EXCEPT !.phase = "executing"]
  <2>1. jobs[j] # Idle /\ trie' = trie /\ chain' = chain
    BY <1>12 DEF VerifyStarts, In, Checkpoint, stateVars, headVars
  <2>2. jobs' = [jobs EXCEPT ![j] = Idle] \/ jobs' = [jobs EXCEPT ![j] = new]
    BY <1>0, <1>12 DEF VerifyStarts
  <2>3. new.writes = jobs[j].writes
    <3>1. jobs[j] \in ActiveOf(P)
      BY <2>1, TheJob
    <3>. QED
      BY <3>1 DEF ActiveOf
  <2>. HIDE DEF new
  <2>. QED
    BY <1>2, <2>1, <2>2, <2>3, NonceStep DEF head
<1>13. CASE VerifyExecuted(j)
  <2>1. /\ jobs[j] # Idle /\ jobs[j].phase = "executing" /\ chain' = chain
        /\ Revert(1) \/ Revert(2)
        /\ jobs' = [jobs EXCEPT ![j] = Idle]
    BY <1>13 DEF VerifyExecuted, Executed, Executing
  <2>2. stack = <<head>>
    BY <2>1, TheJob DEF JobState, head
  <2>3. trie' = head
    BY <2>1, <2>2, RevertsToHead
  <2>. QED
    BY <1>3, <2>1, <2>3, NonceStep DEF head
<1>14. CASE CommitStarts(j)
  <2>1. PICK b : jobs' = [jobs EXCEPT ![j] = Started("commit", "executing", b, b.txs)]
    BY <1>14 DEF CommitStarts
  <2>2. trie' = trie /\ chain' = chain
    BY <1>14 DEF CommitStarts, Checkpoint, headVars
  <2>. DEFINE new == Started("commit", "executing", b, b.txs)
  <2>3. new.writes = <<>> /\ jobs' = [jobs EXCEPT ![j] = new]
    BY <1>4, <2>1
  <2>. HIDE DEF new
  <2>. QED
    BY <1>2, <1>3, <2>2, <2>3, NonceStep DEF head
<1>15. CASE CommitExecuted(j)
  <2>. DEFINE ws  == ShareWrites(trie, jobs[j].block.proposer, jobs[j].done)
              new == [jobs[j] EXCEPT !.phase = "sharing", !.writes = ws]
  <2>1. jobs[j] # Idle /\ jobs[j].kind = "commit" /\ trie' = trie /\ chain' = chain
    BY <1>15 DEF CommitExecuted, Executed, Executing, stateVars, headVars
  <2>2. jobs' = [jobs EXCEPT ![j] = new]
    BY <1>0, <1>15 DEF CommitExecuted
  <2>3. jobs[j] \in ActiveOf(P) /\ jobs[j].block.proposer \in Addresses
    <3>1. jobs[j] \in JobsOf(P) /\ jobs[j] \in ActiveOf(P)
      BY <1>0, <2>1, TheJob
    <3>2. jobs[j].block \in BlocksOf(P)
      BY <2>1, <3>1, JobFields
    <3>. QED
      BY <3>1, <3>2, NodeAssumption DEF BlocksOf
  <2>4. WritesAhead(ws, head)
    BY <1>0, <1>1, <1>2, <2>3, ShareGoesAhead DEF head
  <2>. HIDE DEF ws
  <2>5. new.writes = ws
    BY <2>3 DEF ActiveOf
  <2>. HIDE DEF new
  <2>. QED
    BY <1>2, <2>1, <2>2, <2>4, <2>5, NonceStep DEF head
<1>16. CASE StateCommitted(j)
  <2>. DEFINE new == [jobs[j] EXCEPT !.phase = "saving"]
  <2>1. jobs[j] # Idle /\ trie' = trie /\ chain' = chain
    BY <1>16 DEF StateCommitted, In, headVars
  <2>2. jobs' = [jobs EXCEPT ![j] = Idle] \/ jobs' = [jobs EXCEPT ![j] = new]
    BY <1>0, <1>16 DEF StateCommitted
  <2>3. new.writes = jobs[j].writes
    <3>1. jobs[j] \in ActiveOf(P)
      BY <2>1, TheJob
    <3>. QED
      BY <3>1 DEF ActiveOf
  <2>. HIDE DEF new
  <2>. QED
    BY <1>2, <2>1, <2>2, <2>3, NonceStep DEF head
<1>. QED
  BY <1>5, <1>6, <1>7, <1>8, <1>9, <1>10, <1>11, <1>12, <1>13, <1>14, <1>15, <1>16

\* The end of a commit: the chain has led to the state that there is.
LEMMA NonceCommitted ==
  ASSUME OneAtATime, NonceInv, StateInv', NEW j \in Jobs, CommitSaved(j),
         jobs'[j] = Idle, After(chain') \in Tries
  PROVE  NonceInv' /\ AheadOf(After(chain'), After(chain))
<1>1. \A i \in Jobs : jobs'[i] = Idle
  BY DEF OneAtATime
<1>2. trie' = After(chain')
  BY <1>1 DEF StateInv, Quiescent
<1>3. trie' = trie /\ AheadOf(trie, After(chain))
  BY DEF CommitSaved, stateVars, NonceInv
<1>4. AheadOf(After(chain'), After(chain'))
  BY AheadOfItself
<1>. QED
  BY <1>1, <1>2, <1>3, <1>4 DEF NonceInv

LEMMA NonceKept ==
  ASSUME NEW P, P \subseteq Transactions, OneAtATime, ExecutionTypes(P), StateInv,
         NonceInv, ExecutionTypes(P)', StateInv', Next
  PROVE  NonceInv' /\ AheadOf(After(chain'), After(chain))
<1>0. /\ jobs \in [Jobs -> JobsOf(P)] /\ chain \in Seq(EntriesOf(P))
      /\ chain' \in Seq(EntriesOf(P))
  BY DEF ExecutionTypes
<1>1. After(chain) \in Tries /\ After(chain') \in Tries
  BY <1>0, AfterType
<1>2. chain' = chain => AheadOf(After(chain'), After(chain))
  BY <1>1, AheadOfItself
<1>3. ASSUME NEW j \in Jobs,
             \/ TxExecuted(j) \/ TxLost(j) \/ Writing(j)
             \/ ProposeStarts(j) \/ ProposeExecuted(j) \/ ProposePublished(j)
             \/ BlockArrives(j) \/ VerifyStarts(j) \/ VerifyExecuted(j)
             \/ CommitStarts(j) \/ CommitExecuted(j) \/ StateCommitted(j)
      PROVE  NonceInv' /\ chain' = chain
  BY <1>3, NonceOfJob
<1>4. ASSUME NEW j \in Jobs, CommitSaved(j)
      PROVE  NonceInv' /\ AheadOf(After(chain'), After(chain))
  <2>1. jobs'[j] = Idle
    BY <1>0, <1>4 DEF CommitSaved
  <2>. QED
    BY <1>1, <1>4, <2>1, NonceCommitted
<1>5. ASSUME UNCHANGED <<trie, jobs, chain>> PROVE NonceInv' /\ chain' = chain
  BY <1>5 DEF NonceInv
<1>6. CASE ValidatorsUpdated \/ Slash
  BY <1>2, <1>5, <1>6 DEF ValidatorsUpdated, Slash, stateVars
<1>7. ASSUME NEW tx \in Txs, TxSubmitted(tx) \/ TxAdded(tx)
      PROVE  NonceInv' /\ AheadOf(After(chain'), After(chain))
  BY <1>2, <1>5, <1>7 DEF TxSubmitted, TxAdded, stateVars, headVars
<1>. QED
  BY <1>2, <1>3, <1>4, <1>6, <1>7 DEF Next

\* A request of the faucet that read the nonce of the head is still to be refused.
HeadNonce == After(chain)[Self].nonce

Unread(r, n) ==
  r # NoRequest /\ r.route = "faucet" =>
    /\ r.stage = "check" /\ ~ r.dirty => r.tx.nonce <= n
    /\ r.stage \in {"add", "publish"} => r.dirty

ReadInv == \A c \in Clients : Unread(requests[c], HeadNonce)

\* A step of one request; the head's nonce only grows.
LEMMA UnreadStep ==
  ASSUME RequestsTyped, ReadInv, NEW c \in Clients, NEW r,
         requests' = [requests EXCEPT ![c] = r], Unread(r, HeadNonce), chain' = chain
  PROVE  ReadInv'
<1>1. \A d \in Clients : requests'[d] = requests[d] \/ requests'[d] = r
  BY DEF RequestsTyped
<1>2. HeadNonce' = HeadNonce
  BY DEF HeadNonce
<1>3. \A d \in Clients : Unread(requests'[d], HeadNonce)
  BY <1>1 DEF ReadInv
<1>. QED
  BY <1>2, <1>3 DEF ReadInv

LEMMA UnreadGrows ==
  ASSUME RequestsTyped, ReadInv, UNCHANGED requests,
         HeadNonce \in Nat, HeadNonce' \in Nat, HeadNonce' >= HeadNonce
  PROVE  ReadInv'
<1>. SUFFICES ASSUME NEW c \in Clients PROVE Unread(requests[c], HeadNonce')
  BY DEF ReadInv
<1>1. Unread(requests[c], HeadNonce)
  BY DEF ReadInv
<1>2. requests[c] # NoRequest => requests[c].tx.nonce \in Nat
  <2>1. requests[c] # NoRequest => requests[c].tx \in InPool
    BY RequestFields
  <2>. QED
    BY <2>1, PayoutType DEF Transactions
<1>. QED
  BY <1>1, <1>2 DEF Unread

LEMMA ReadKept ==
  ASSUME OneAtATime, ApiTypes, ApiTypes', StateInv, StateInv', NonceInv, ReadInv,
         [ApiNext]_<<vars, apiVars>>
  PROVE  NonceInv' /\ ReadInv'
<1>0. /\ ExecutionTypes(InPool) /\ ExecutionTypes(InPool)' /\ RequestsTyped
      /\ InPool \subseteq Transactions /\ Self \in Addresses
  BY PayoutType, NodeAssumption DEF ApiTypes, NodeTypes
<1>1. After(chain) \in Tries /\ After(chain') \in Tries /\ trie \in Tries
  BY <1>0, AfterType DEF ExecutionTypes
<1>2. HeadNonce \in Nat /\ HeadNonce' \in Nat /\ trie[Self].nonce \in Nat
  BY <1>0, <1>1 DEF HeadNonce, Tries, Accounts
<1>3. trie[Self].nonce >= HeadNonce
  BY <1>0 DEF NonceInv, AheadOf, HeadNonce
<1>4. ASSUME UNCHANGED <<trie, jobs, chain>> PROVE NonceInv'
  BY <1>4 DEF NonceInv
<1>5. ASSUME Next, UNCHANGED requests PROVE NonceInv' /\ ReadInv'
  <2>1. NonceInv' /\ AheadOf(After(chain'), After(chain))
    BY <1>0, <1>5, NonceKept
  <2>2. HeadNonce' >= HeadNonce
    BY <1>0, <2>1 DEF AheadOf, HeadNonce
  <2>. QED
    BY <1>0, <1>2, <1>5, <2>1, <2>2, UnreadGrows
<1>6. ASSUME UNCHANGED vars, UNCHANGED requests PROVE NonceInv' /\ ReadInv'
  <2>1. UNCHANGED <<trie, jobs, chain>>
    BY <1>6 DEF vars, stateVars, headVars
  <2>2. HeadNonce' = HeadNonce
    BY <2>1 DEF HeadNonce
  <2>. QED
    BY <1>0, <1>2, <1>4, <1>6, <2>1, <2>2, UnreadGrows
<1>7. ASSUME NEW c \in Clients, Answered(c), UNCHANGED <<trie, jobs, chain>>
      PROVE  NonceInv' /\ ReadInv'
  <2>1. Unread(NoRequest, HeadNonce) /\ requests' = [requests EXCEPT ![c] = NoRequest]
    BY <1>7 DEF Unread, Answered
  <2>. QED
    BY <1>0, <1>4, <1>7, <2>1, UnreadStep
<1>8. ASSUME NEW c \in Clients, NEW route, NEW stage, NEW tx, NEW dirty,
             Asks(c, route, stage, tx, dirty), UNCHANGED <<trie, jobs, chain>>,
             route = "faucet" =>
               /\ stage = "check" /\ ~ dirty => tx.nonce <= HeadNonce
               /\ stage \in {"add", "publish"} => dirty
      PROVE  NonceInv' /\ ReadInv'
  <2>. DEFINE r == [route |-> route, stage |-> stage, tx |-> tx, dirty |-> dirty]
  <2>1. Unread(r, HeadNonce) /\ requests' = [requests EXCEPT ![c] = r]
    BY <1>8 DEF Unread, Asks
  <2>. HIDE DEF r
  <2>. QED
    BY <1>0, <1>4, <1>8, <2>1, UnreadStep
<1>9. ASSUME NEW c \in Clients, SendTx(c) PROVE NonceInv' /\ ReadInv'
  <2>. DEFINE clean == FALSE
  <2>1. PICK tx \in Sent : Asks(c, "send", "check", tx, clean)
    BY <1>9 DEF SendTx
  <2>2. UNCHANGED <<trie, jobs, chain>>
    BY <1>9 DEF SendTx, vars, stateVars, headVars
  <2>. HIDE DEF clean
  <2>. QED
    BY <1>8, <2>1, <2>2
<1>10. ASSUME NEW c \in Clients, AskFaucet(c) PROVE NonceInv' /\ ReadInv'
  <2>. DEFINE clean == FALSE
  <2>1. PICK tx : Asks(c, "faucet", "nonce", tx, clean)
    BY <1>10 DEF AskFaucet
  <2>2. UNCHANGED <<trie, jobs, chain>>
    BY <1>10 DEF AskFaucet, vars, stateVars, headVars
  <2>. HIDE DEF clean
  <2>. QED
    BY <1>8, <2>1, <2>2
<1>11. ASSUME NEW c \in Clients, NonceRead(c) PROVE NonceInv' /\ ReadInv'
  <2>. DEFINE n == trie[Self].nonce  tx == Payout(requests[c].tx.to, n)
              dirty == n # HeadNonce
  <2>1. Asks(c, "faucet", "check", tx, dirty)
    BY <1>11 DEF NonceRead, HeadNonce
  <2>2. UNCHANGED <<trie, jobs, chain>>
    BY <1>11 DEF NonceRead, vars, stateVars, headVars
  <2>3. ~ dirty => tx.nonce <= HeadNonce
    BY <1>2 DEF Payout
  <2>. HIDE DEF dirty, tx
  <2>. QED
    BY <1>8, <2>1, <2>2, <2>3
<1>12. ASSUME NEW c \in Clients, TxChecked(c) PROVE NonceInv' /\ ReadInv'
  <2>. DEFINE r == requests[c]
  <2>1. r # NoRequest /\ r.stage = "check"
    BY <1>12 DEF TxChecked, At
  <2>2. \/ Answered(c)
        \/ r.tx.nonce = trie[r.tx.from].nonce + 1 /\ Asks(c, r.route, "add", r.tx, r.dirty)
    BY <1>12 DEF TxChecked
  <2>3. UNCHANGED <<trie, jobs, chain>>
    BY <1>12 DEF TxChecked, vars, stateVars, headVars
  <2>4. r.route = "faucet" => r.tx.from = Self /\ (~ r.dirty => r.tx.nonce <= HeadNonce)
    <3>1. r.route = "faucet" => r.tx \in Payouts
      BY <1>0, <2>1, RequestFields
    <3>2. Unread(r, HeadNonce)
      BY DEF ReadInv
    <3>. QED
      BY <2>1, <3>1, <3>2, PayoutType DEF Unread
  <2>5. r.dirty \in BOOLEAN
    BY <1>0, <2>1, RequestFields
  <2>. HIDE DEF r
  <2>6. ASSUME r.tx.nonce = trie[r.tx.from].nonce + 1, r.route = "faucet"
        PROVE  r.dirty
    BY <1>2, <1>3, <2>4, <2>6
  <2>. QED
    BY <1>7, <1>8, <2>2, <2>3, <2>6
<1>13. ASSUME NEW c \in Clients, TxEntered(c) PROVE NonceInv' /\ ReadInv'
  <2>. DEFINE r == requests[c]
  <2>1. r # NoRequest /\ r.stage = "add"
    BY <1>13 DEF TxEntered, At
  <2>2. Answered(c) \/ Asks(c, r.route, "publish", r.tx, r.dirty)
    BY <1>13 DEF TxEntered
  <2>3. UNCHANGED <<trie, jobs, chain>>
    BY <1>13 DEF TxEntered, stateVars, headVars
  <2>4. r.route = "faucet" => r.dirty
    BY <2>1 DEF ReadInv, Unread
  <2>. HIDE DEF r
  <2>. QED
    BY <1>7, <1>8, <2>2, <2>3, <2>4
<1>14. ASSUME NEW c \in Clients, TxPublished(c) \/ PublishFails(c)
       PROVE  NonceInv' /\ ReadInv'
  BY <1>7, <1>14 DEF TxPublished, PublishFails, vars, stateVars, headVars
<1>15. ASSUME TxGossiped PROVE NonceInv' /\ ReadInv'
  BY <1>5, <1>15, ApiAssumption DEF TxGossiped, Next
<1>16. ASSUME NEW j \in Jobs, Execution(j) PROVE NonceInv' /\ ReadInv'
  BY <1>5, <1>16 DEF Execution, Next, apiVars
<1>17. ASSUME NEW j \in Jobs, BlockSaved(j) PROVE NonceInv' /\ ReadInv'
  BY <1>6, <1>17 DEF BlockSaved
<1>18. ASSUME NEW j \in Jobs, BlockAnnounced(j) PROVE NonceInv' /\ ReadInv'
  BY <1>5, <1>18 DEF BlockAnnounced, Next
<1>19. CASE UNCHANGED <<vars, apiVars>>
  BY <1>6, <1>19 DEF apiVars
<1>20. ASSUME LookupMisses \/ LookupAnswered PROVE NonceInv' /\ ReadInv'
  BY <1>6, <1>20 DEF LookupMisses, LookupAnswered
<1>21. CASE ApiNext
  BY <1>9, <1>10, <1>11, <1>12, <1>13, <1>14, <1>15, <1>16, <1>17, <1>18, <1>20, <1>21
     DEF ApiNext
<1>. QED
  BY <1>19, <1>21

LEMMA StateKeptByApi ==
  ASSUME OneAtATime, ApiTypes, StateInv, [ApiNext]_<<vars, apiVars>>
  PROVE  StateInv'
<1>0. ExecutionTypes(InPool) /\ InPool \subseteq Transactions
  BY PayoutType DEF ApiTypes, NodeTypes
<1>1. CASE Next
  BY <1>0, <1>1, StateKept
<1>2. CASE UNCHANGED vars
  BY <1>2, StateUntouched DEF vars, stateVars, headVars
<1>3. ASSUME NEW c \in Clients, TxEntered(c) PROVE StateInv'
  BY <1>3, StateUntouched DEF TxEntered, stateVars, headVars
<1>4. CASE UNCHANGED <<vars, apiVars>>
  BY <1>2, <1>4
<1>. QED
  BY <1>1, <1>2, <1>3, <1>4, ApiSteps

FaucetNeedsDirtyRead ==
  \A c \in Clients :
    requests[c] # NoRequest /\ requests[c].route = "faucet"
      /\ requests[c].stage \in {"add", "publish"} => requests[c].dirty

\* Why the faucet does not pay (api/index.ts:340-347 against mempool/index.ts:29): a
\* payout gets into the pool only when its nonce was read in the middle of an
\* execution, from a state that was not the head's, if one block is executed at a time.
THEOREM FaucetReadsDirty ==
  ASSUME OneAtATime
  PROVE  ApiSpec => []FaucetNeedsDirtyRead
<1>. DEFINE Inv == ApiTypes /\ StateInv /\ NonceInv /\ ReadInv
<1>1. ApiInit => Inv
  <2>. SUFFICES ASSUME ApiInit PROVE Inv
    OBVIOUS
  <2>1. ApiTypes /\ StateInv
    BY ApiTypesAtStart, StateAtStart DEF ApiInit
  <2>2. AheadOf(trie, After(chain))
    BY AfterNothing, NodeAssumption, AheadOfItself DEF ApiInit, Init
  <2>3. NonceInv
    BY <2>2 DEF ApiInit, Init, NonceInv
  <2>4. ReadInv
    BY DEF ApiInit, ReadInv, Unread
  <2>. QED
    BY <2>1, <2>3, <2>4
<1>2. Inv /\ [ApiNext]_<<vars, apiVars>> => Inv'
  BY ApiTypesKept, StateKeptByApi, ReadKept
<1>3. Inv => FaucetNeedsDirtyRead
  BY DEF ReadInv, Unread, FaucetNeedsDirtyRead
<1>. QED
  BY <1>1, <1>2, <1>3, PTL DEF ApiSpec

====
