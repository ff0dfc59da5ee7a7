---------------------------- MODULE BFTConsensus ----------------------------
(***************************************************************************)
(* The consensus engine of src/src/consensus/bft.ts, class BFTConsensus,   *)
(* from the moment start() has called startRound(1, 0) on a fresh chain.   *)
(*                                                                         *)
(* A node is one JavaScript process.  Its handlers are async functions: a  *)
(* handler runs alone until it awaits something slow (a gossip publish,    *)
(* the VM worker, the disk, the mutex), and any other handler may run      *)
(* before it resumes.  tasks[n] is the bag of suspended handlers of node   *)
(* n; a task is its call stack, innermost frame first.  The frames         *)
(* checkQuorum, quorum and setStep are not slow: they are what a handler   *)
(* does as soon as the call it awaited returns (a microtask), so no other  *)
(* handler of that node runs while one of them is on top of a stack: see   *)
(* Quiet.                                                                  *)
(*                                                                         *)
(* A block hash is the block itself and a signature is the validator field *)
(* of a vote, so hashes do not collide and votes are not forged.  A state  *)
(* root is the sequence of the payloads executed to reach the state; a     *)
(* payload is the coinbase's beneficiary and a batch of mempool            *)
(* transactions, which is what transactionsRoot commits to.                *)
(*                                                                         *)
(* The network never invents a message, and loses, delays and reorders     *)
(* them: what was published may be received at any later time or never.    *)
(*                                                                         *)
(* A node either runs this code (Nodes) or is seen only through its        *)
(* messages (Peers): a peer keeps one vote for each height, round and      *)
(* type, needs a prevote quorum to precommit, and prevotes after that only *)
(* for the payload it precommitted.  Both may be outside ValidatorList: an *)
(* outsider never proposes, but it votes (index.ts runs the engine with    *)
(* whatever key the node has), and handleVote() and checkQuorum() count    *)
(* the vote of any signer.  The validators of ValidatorList in neither set *)
(* are down.  The list is the configured one: nobody has staked (bft.ts    *)
(* calls it the bootstrapping phase), so updateValidators() changes        *)
(* nothing, but is awaited.                                                *)
(***************************************************************************)
EXTENDS Integers, Sequences, FiniteSets, Bags

CONSTANTS
  Nodes,          \* those that run this code
  Peers,          \* those that are seen only through their messages
  ValidatorList,  \* this.validators, in the order getProposer() indexes it
  TxBatches,      \* what can follow the coinbase in a block
  Misplaced,      \* those with a transaction of SYSTEM_SENDER
  MaxHeight,      \* bound: no round of a greater height starts
  MaxRound,       \* bound: no greater round starts
  PeerRounds,     \* bound: the rounds in which the peers propose and vote
  MaxTimeouts,    \* bound: how often a timer fires, over all nodes
  MaxFailures,    \* bound: how often the VM or the disk fails a commit
  Nil             \* "no block": null in a vote, undefined as lockedBlock

Validators == {ValidatorList[i] : i \in DOMAIN ValidatorList}

\* Whose votes there can be.
Voters == Validators \cup Nodes \cup Peers

ASSUME ValidatorAssumption ==
  /\ ValidatorList \in Seq(Nodes \cup Peers \cup Validators)
  /\ ValidatorList # <<>>
  /\ \A i, j \in DOMAIN ValidatorList :
        ValidatorList[i] = ValidatorList[j] => i = j
  /\ IsFiniteSet(Nodes \cup Peers)
  /\ Nodes \cap Peers = {}

ASSUME BoundAssumption ==
  /\ MaxHeight \in Nat
  /\ MaxRound \in Nat
  /\ PeerRounds \subseteq 0..MaxRound
  /\ MaxTimeouts \in Nat
  /\ MaxFailures \in Nat

VARIABLES
  height,    \* this.height: the last committed height
  round,     \* this.round
  step,      \* this.step
  locked,    \* this.lockedBlock
  votes,     \* this.votes, the lists of all keys in one set
  pending,   \* this.pendingBlocks
  slashed,   \* this.slashedValidators
  timer,     \* is this.timer armed?
  mutex,     \* this.processing
  tasks,     \* the suspended handlers: a bag of call stacks
  state,     \* the account state: the payloads executed and committed
  chain,     \* the block store: the blocks saved, in order
  timeouts,  \* how many timers have fired
  failures,  \* how many failures a commit has met
  blocks,    \* the blocks published by anyone
  ballots,   \* the votes published by anyone
  seen       \* the blocks of others that reached the node

roundVars == <<round, step, timer, timeouts>>
lockVars  == <<locked, pending>>
voteVars  == <<votes, slashed>>
chainVars == <<height, state, chain, failures>>
blockVars == <<blocks, seen>>
vars      == <<roundVars, lockVars, voteVars, chainVars, blockVars, ballots,
              mutex, tasks>>

-----------------------------------------------------------------------------
(* Data.                                                                   *)

VoteTypes == {"PREVOTE", "PRECOMMIT"}
Steps     == {"PROPOSE", "PREVOTE", "PRECOMMIT", "COMMIT"}
Payloads  == [coinbase : Voters, txs : TxBatches]
Blocks    == [height : Nat, round : Nat, proposer : Voters,
              root : Seq(Payloads) \ {<<>>}, nth : Nat]
Votes     == [height : Nat, round : Nat, type : VoteTypes,
              hash : Blocks \cup {Nil}, validator : Voters]

\* A vote for no block is told from one for a block.
ASSUME NilAssumption == Nil \notin Blocks

Payload(b) == b.root[Len(b.root)]

\* Only the first transaction of the block is of SYSTEM_SENDER.
Ordered(b) == Payload(b).txs \notin Misplaced

NewVote(v, ty, hash, h, r) ==
  [height |-> h, round |-> r, type |-> ty, hash |-> hash, validator |-> v]

\* The nth block that v builds for this height and round: the header's
\* timestamp tells two of them apart.
NewBlock(v, h, r, root) ==
  [height |-> h, round |-> r, proposer |-> v, root |-> root,
   nth |-> Cardinality({b \in blocks : /\ b.height = h
                                       /\ b.round = r
                                       /\ b.proposer = v})]

Power == 10

getProposer(h, r) == ValidatorList[((h + r) % Len(ValidatorList)) + 1]

\* A third instead of two thirds (mutation of getQuorum).
getQuorum_Third == ((Len(ValidatorList) * Power) \div 3) + 1

getQuorum == ((Len(ValidatorList) * Power * 2) \div 3) + 1

VotersFor(pool, h, r, ty, hash) ==
  {v.validator : v \in {u \in pool : /\ u.height = h
                                     /\ u.round = r
                                     /\ u.type = ty
                                     /\ u.hash = hash}}

HasQuorum(pool, h, r, ty, hash) ==
  Power * Cardinality(VotersFor(pool, h, r, ty, hash)) >= getQuorum

\* checkQuorum() counting the votes of any round (mutation of Decided).
Decided_AnyRound(n, h, r, ty) ==
  {hash \in {v.hash : v \in votes[n]} :
     Power * Cardinality({v.validator : v \in {u \in votes[n] :
        u.height = h /\ u.type = ty /\ u.hash = hash}}) >= getQuorum}

\* checkQuorum() always counting the prevotes (mutation of Decided).
Decided_Prevotes(n, h, r, ty) ==
  {hash \in {v.hash : v \in votes[n]} :
     HasQuorum(votes[n], h, r, "PREVOTE", hash)}

\* The hashes with a quorum: what the loop of checkQuorum() acts on.
Decided(n, h, r, ty) ==
  {hash \in {v.hash : v \in votes[n]} : HasQuorum(votes[n], h, r, ty, hash)}

hasVoted(n, h, r, ty) ==
  \E v \in votes[n] : /\ v.validator = n
                      /\ v.height = h
                      /\ v.round = r
                      /\ v.type = ty

\* The locked block in place of its payload (mutation of Proposals).
Proposals_Block(n) ==
  IF locked[n] # Nil THEN {locked[n]}
                     ELSE [coinbase : {n}, txs : TxBatches \ Misplaced]

\* What proposeBlock() executes: the locked payload, or a new one of what the
\* mempool, which refuses SYSTEM_SENDER, has.
Proposals(n) ==
  IF locked[n] # Nil
  THEN {Payload(locked[n])}
  ELSE [coinbase : {n}, txs : TxBatches \ Misplaced]

-----------------------------------------------------------------------------
(* Suspended handlers.                                                     *)

Publish(v)            == [op |-> "publish", vote |-> v]
CheckQuorum(h, r, ty) == [op |-> "checkQuorum", height |-> h, round |-> r,
                          type |-> ty]
Quorum(h, r, ty, hash) == [op |-> "quorum", height |-> h, round |-> r,
                           type |-> ty, hash |-> hash]
SetStep(st)           == [op |-> "setStep", step |-> st]
SaveSlashed           == [op |-> "saveSlashed"]
Verify(b)             == [op |-> "verify", block |-> b]
AwaitCommit(b)        == [op |-> "awaitCommit", block |-> b]
Commit(b)             == [op |-> "commit", block |-> b]
StartRound(h)         == [op |-> "startRound", height |-> h]
Propose(root)         == [op |-> "propose", root |-> root]
PublishBlock(b)       == [op |-> "publishBlock", block |-> b]

Stacks(n)     == DOMAIN tasks[n]
Waiting(n, op) == {s \in Stacks(n) : Head(s).op = op}
Microtask(s)  == Head(s).op \in {"checkQuorum", "quorum", "setStep"}

\* No handler of n is in the middle of what it does without waiting.
Quiet(n) == \A s \in Stacks(n) : ~Microtask(s)

\* The bag of the one task s; a handler that has returned is no task.
Task(s) == IF s = <<>> THEN EmptyBag ELSE SetToBag({s})

\* The tasks of n once s has become t.
Becomes(n, s, t) == (tasks[n] (-) SetToBag({s})) (+) Task(t)

\* The tasks of n become those of bag.  A vote is on the network from the
\* moment its publication starts.
Run(n, bag) ==
  /\ tasks' = [tasks EXCEPT ![n] = bag]
  /\ ballots' = ballots \cup
       {Head(s).vote : s \in {t \in DOMAIN bag : Head(t).op = "publish"}}

-----------------------------------------------------------------------------
(* The parts that several handlers share.                                  *)

\* Voting for any block received (mutation of Found).
Found_Unverified(n, h, r) ==
  {b \in seen[n] : /\ b.height = h
                   /\ b.round = r
                   /\ b.proposer = getProposer(h, r)
                   /\ ~hasVoted(n, h, r, "PREVOTE")}

\* The blocks for which startRound() prevotes: it finds them in
\* pendingBlocks, and does not look at lockedBlock.
Found(n, h, r) ==
  {b \in pending[n] : /\ b.height = h
                      /\ b.round = r
                      /\ b.proposer = getProposer(h, r)
                      /\ ~hasVoted(n, h, r, "PREVOTE")}

\* startRound(h, r) from where it sets the round; rest is what the tasks of
\* n are otherwise.  proposeBlock() and broadcastVote() are not awaited.
EnterRound(n, h, r, rest) ==
  /\ r <= MaxRound
  /\ round' = [round EXCEPT ![n] = r]
  /\ timer' = [timer EXCEPT ![n] = TRUE]
  /\ \/ /\ getProposer(h, r) = n
        /\ step' = [step EXCEPT ![n] = "PROPOSE"]
        /\ \E p \in Proposals(n) :
              Run(n, rest (+) Task(<<Propose(Append(state'[n], p))>>))
     \/ /\ getProposer(h, r) # n
        /\ step' = [step EXCEPT ![n] = IF Found(n, h, r) = {} THEN "PROPOSE"
                                                              ELSE "PREVOTE"]
        /\ Run(n, rest (+) SetToBag({<<Publish(NewVote(n, "PREVOTE", b, h, r))>>
                                        : b \in Found(n, h, r)}))

\* The vote in votes[n] that handleVote() compares v with, if there is one.
Existing(n, v) ==
  {u \in votes[n] : /\ u.height = v.height
                    /\ u.round = v.round
                    /\ u.type = v.type
                    /\ u.validator = v.validator}

\* handleVote(v), its checkQuorum() call left on the stack.  others is what
\* the tasks of n are but for the one that calls handleVote(), which goes on
\* with rest.
HandleVote(n, v, others, rest) ==
  LET heeded  == v.height > height[n] /\ v.validator \notin slashed[n]
      Then(s) == Run(n, others (+) Task(s))
  IN  \/ /\ heeded /\ Existing(n, v) = {}
         /\ votes' = [votes EXCEPT ![n] = @ \cup {v}]
         /\ Then(<<CheckQuorum(v.height, v.round, v.type)>> \o rest)
         /\ UNCHANGED slashed
      \/ /\ heeded /\ \E u \in Existing(n, v) : u.hash # v.hash
         /\ slashed' = [slashed EXCEPT ![n] = @ \cup {v.validator}]
         /\ Then(<<SaveSlashed>> \o rest)
         /\ UNCHANGED votes
      \/ /\ heeded => \E u \in Existing(n, v) : u.hash = v.hash
         /\ Then(rest)
         /\ UNCHANGED voteVars

\* What handleBlock() requires of a block before it executes it.
Acceptable(n, b) ==
  /\ b.height > height[n]
  /\ locked[n] # Nil => Payload(b) = Payload(locked[n])
  /\ b.proposer = getProposer(b.height, round[n])

\* handleBlock() without the mutex (mutation of HandleBlock).
HandleBlock_Unlocked(n, b, rest) ==
  \/ /\ Acceptable(n, b)
     /\ mutex' = [mutex EXCEPT ![n] = TRUE]
     /\ Run(n, rest (+) Task(<<Verify(b)>>))
  \/ /\ ~Acceptable(n, b)
     /\ Run(n, rest)
     /\ UNCHANGED mutex

\* The early returns keep the mutex (mutation of HandleBlock).
HandleBlock_KeepsMutex(n, b, rest) ==
  /\ ~mutex[n]
  /\ mutex' = [mutex EXCEPT ![n] = TRUE]
  /\ Run(n, IF Acceptable(n, b) THEN rest (+) Task(<<Verify(b)>>) ELSE rest)

\* handleBlock(b) once it has the mutex: its early returns, or the start of
\* the execution.  A handler that waits for the mutex is modelled as one that
\* is not called yet, since it has read nothing.  rest is what the tasks of n
\* are otherwise.
HandleBlock(n, b, rest) ==
  /\ ~mutex[n]
  /\ \/ /\ Acceptable(n, b)
        /\ mutex' = [mutex EXCEPT ![n] = TRUE]
        /\ Run(n, rest (+) Task(<<Verify(b)>>))
     \/ /\ ~Acceptable(n, b)
        /\ Run(n, rest)
        /\ UNCHANGED mutex

-----------------------------------------------------------------------------
(* A node's steps.                                                         *)

\* startRound(h, 0) resumes after updateValidators(): the height is not
\* checked again.
StartRoundZero(n) == \E s \in Waiting(n, "startRound") :
  /\ Quiet(n)
  /\ Head(s).height <= MaxHeight
  /\ UNCHANGED <<lockVars, voteVars, chainVars, blockVars, mutex, timeouts>>
  /\ EnterRound(n, Head(s).height, 0, Becomes(n, s, Tail(s)))

\* proposeBlock() after executeBlock(): the header takes the height and the
\* round of now.
ProposalExecuted(n) == \E s \in Waiting(n, "propose") :
  /\ Quiet(n)
  /\ LET b == NewBlock(n, height[n] + 1, round[n], Head(s).root)
     IN  /\ blocks' = blocks \cup {b}
         /\ Run(n, Becomes(n, s, <<PublishBlock(b)>>))
  /\ UNCHANGED <<roundVars, lockVars, voteVars, chainVars, seen, mutex>>

\* proposeBlock() after broadcastBlock(): the node handles its own block.
ProposalPublished(n) == \E s \in Waiting(n, "publishBlock") :
  /\ Quiet(n)
  /\ HandleBlock(n, Head(s).block, Becomes(n, s, Tail(s)))
  /\ UNCHANGED <<roundVars, lockVars, voteVars, chainVars, blockVars>>

\* A block of another validator arrives; gossip delivers it once.
ReceiveBlock(n) == \E b \in blocks :
  /\ Quiet(n)
  /\ b.proposer # n
  /\ b \notin seen[n]
  /\ seen' = [seen EXCEPT ![n] = @ \cup {b}]
  /\ HandleBlock(n, b, tasks[n])
  /\ UNCHANGED <<roundVars, lockVars, voteVars, chainVars, blocks>>

\* The root that b claims is the one its payload leads to from the state of n.
Executes(n, b) == b.root = Append(state[n], Payload(b))

\* handleBlock() after executeBlock(): the block is good when the root it
\* claims is the one its payload leads to from the node's state.
BlockExecuted(n) == \E s \in Waiting(n, "verify") :
  /\ Quiet(n)
  /\ mutex' = [mutex EXCEPT ![n] = FALSE]
  /\ LET b     == Head(s).block
         good  == Executes(n, b)
         votes_now == /\ b.height = height[n] + 1
                      /\ b.round = round[n]
                      /\ ~hasVoted(n, b.height, b.round, "PREVOTE")
         quorum == CheckQuorum(b.height, b.round, "PREVOTE")
         vote   == NewVote(n, "PREVOTE", b, b.height, b.round)
     IN  \/ /\ good /\ votes_now
            /\ pending' = [pending EXCEPT ![n] = @ \cup {b}]
            /\ step' = [step EXCEPT ![n] = "PREVOTE"]
            /\ timer' = [timer EXCEPT ![n] = TRUE]
            /\ Run(n, Becomes(n, s, <<Publish(vote), quorum>> \o Tail(s)))
         \/ /\ good /\ ~votes_now
            /\ pending' = [pending EXCEPT ![n] = @ \cup {b}]
            /\ Run(n, Becomes(n, s, <<quorum>> \o Tail(s)))
            /\ UNCHANGED <<step, timer>>
         \/ /\ ~good
            /\ Run(n, Becomes(n, s, Tail(s)))
            /\ UNCHANGED <<pending, step, timer>>
  /\ UNCHANGED <<round, timeouts, locked, voteVars, chainVars, blockVars>>

\* broadcastVote() after the publish: the node handles its own vote.
VotePublished(n) == \E s \in Waiting(n, "publish") :
  /\ Quiet(n)
  /\ HandleVote(n, Head(s).vote, tasks[n] (-) SetToBag({s}), Tail(s))
  /\ UNCHANGED <<roundVars, lockVars, chainVars, blockVars, mutex>>

\* A vote of another validator arrives.
ReceiveVote(n) == \E v \in ballots :
  /\ Quiet(n)
  /\ v.validator # n
  /\ HandleVote(n, v, tasks[n], <<>>)
  /\ UNCHANGED <<roundVars, lockVars, chainVars, blockVars, mutex>>

\* slashValidator() after saveSlashedValidators().
SlashSaved(n) == \E s \in Waiting(n, "saveSlashed") :
  /\ Quiet(n)
  /\ Run(n, Becomes(n, s, Tail(s)))
  /\ UNCHANGED <<roundVars, lockVars, voteVars, chainVars, blockVars, mutex>>

\* The timer fires.  Nothing re-arms it when the node has voted already, or
\* when its step is COMMIT.
Timeout(n) ==
  /\ Quiet(n)
  /\ timer[n]
  /\ timeouts < MaxTimeouts
  /\ timeouts' = timeouts + 1
  /\ UNCHANGED <<lockVars, voteVars, chainVars, blockVars, mutex>>
  /\ LET h == height[n] + 1
         r == round[n]
         VoteNil(ty) ==
           /\ timer' = [timer EXCEPT ![n] = FALSE]
           /\ Run(n, IF hasVoted(n, h, r, ty)
                     THEN tasks[n]
                     ELSE tasks[n] (+) Task(<<Publish(NewVote(n, ty, Nil, h, r)),
                                              SetStep(ty)>>))
           /\ UNCHANGED <<round, step>>
     IN  \/ step[n] = "PROPOSE" /\ VoteNil("PREVOTE")
         \/ step[n] = "PREVOTE" /\ VoteNil("PRECOMMIT")
         \/ step[n] = "PRECOMMIT" /\ EnterRound(n, h, r + 1, tasks[n])
         \/ /\ step[n] = "COMMIT"
            /\ timer' = [timer EXCEPT ![n] = FALSE]
            /\ UNCHANGED <<round, step, tasks, ballots>>

\* The rest of handleTimeout(), after the vote it awaited.
TimeoutVoted(n) == \E s \in Waiting(n, "setStep") :
  /\ step' = [step EXCEPT ![n] = Head(s).step]
  /\ timer' = [timer EXCEPT ![n] = TRUE]
  /\ Run(n, Becomes(n, s, Tail(s)))
  /\ UNCHANGED <<round, timeouts, lockVars, voteVars, chainVars, blockVars, mutex>>

-----------------------------------------------------------------------------
(* checkQuorum(h, r, ty), on top of the stack s.                           *)

Orders(S) ==
  {q \in [1..Cardinality(S) -> S] : \A i, j \in DOMAIN q : q[i] = q[j] => i = j}

\* The votes are counted when checkQuorum() is called: its loop has a pass for
\* each hash with a quorum, in the order of their first votes, and awaits within.
VotesCounted(n) == \E s \in Waiting(n, "checkQuorum") :
  LET h  == Head(s).height
      r  == Head(s).round
      ty == Head(s).type
  IN  /\ \E q \in Orders(Decided(n, h, r, ty)) :
           Run(n, Becomes(n, s, [i \in DOMAIN q |-> Quorum(h, r, ty, q[i])] \o Tail(s)))
      /\ UNCHANGED <<roundVars, lockVars, voteVars, chainVars, blockVars, mutex>>

Behind(n, h, r) == h = height[n] + 1 /\ r > round[n]

\* The node catches up with the round of the quorum, and goes on with this pass.
JumpToRound(n) == \E s \in Waiting(n, "quorum") :
  /\ Behind(n, Head(s).height, Head(s).round)
  /\ UNCHANGED <<lockVars, voteVars, chainVars, blockVars, mutex, timeouts>>
  /\ EnterRound(n, Head(s).height, Head(s).round, tasks[n])

CanPrecommit(n, h, r) ==
  /\ h = height[n] + 1
  /\ r = round[n]
  /\ step[n] \in {"PROPOSE", "PREVOTE"}

\* Locking a block without its body (mutation of Lock).
Lock_NoBody(n, hash) == IF hash = Nil THEN locked[n] ELSE hash

\* The lock after a quorum of prevotes for hash: none if the body is missing.
Lock(n, hash) ==
  IF hash = Nil THEN locked[n] ELSE IF hash \in pending[n] THEN hash ELSE Nil

\* A quorum of prevotes: the node locks the block, if it has it, and
\* precommits.
PrecommitDecided(n) == \E s \in Waiting(n, "quorum") :
  LET h    == Head(s).height
      r    == Head(s).round
      hash == Head(s).hash
  IN  /\ Head(s).type = "PREVOTE"
      /\ CanPrecommit(n, h, r)
      /\ locked' = [locked EXCEPT ![n] = Lock(n, hash)]
      /\ step' = [step EXCEPT ![n] = "PRECOMMIT"]
      /\ timer' = [timer EXCEPT ![n] = TRUE]
      /\ Run(n, Becomes(n, s, <<Publish(NewVote(n, "PRECOMMIT", hash, h, r)),
                                CheckQuorum(h, r, "PRECOMMIT")>> \o Tail(s)))
      /\ UNCHANGED <<round, timeouts, pending, voteVars, chainVars, blockVars, mutex>>

CanCommit(n, h, r) ==
  /\ h = height[n] + 1
  /\ step[n] # "COMMIT"
  /\ ~Behind(n, h, r)

\* Off by one (mutation of Superseded).
Superseded_OffByOne(n, b) == height[n] > b.height

Superseded(n, b) == height[n] >= b.height

\* commitBlock(b) once it has the mutex: it returns, without a next round, when
\* somebody has committed that height or a transaction is out of place; else the
\* execution starts.
commitBlock(n, b, s) ==
  \/ /\ Superseded(n, b) \/ ~Ordered(b)
     /\ Run(n, Becomes(n, s, Tail(s)))
     /\ UNCHANGED mutex
  \/ /\ ~Superseded(n, b) /\ Ordered(b)
     /\ Run(n, Becomes(n, s, <<Commit(b)>> \o Tail(s)))
     /\ mutex' = [mutex EXCEPT ![n] = TRUE]

\* A quorum of precommits for a block the node has: commitBlock() takes the
\* mutex, or waits for it.
CommitDecided(n) == \E s \in Waiting(n, "quorum") :
  /\ Head(s).type = "PRECOMMIT"
  /\ CanCommit(n, Head(s).height, Head(s).round)
  /\ Head(s).hash \in pending[n]
  /\ \/ /\ mutex[n]
        /\ Run(n, Becomes(n, s, <<AwaitCommit(Head(s).hash)>> \o Tail(s)))
        /\ UNCHANGED mutex
     \/ ~mutex[n] /\ commitBlock(n, Head(s).hash, s)
  /\ UNCHANGED <<roundVars, lockVars, voteVars, chainVars, blockVars>>

\* A quorum of nil precommits: the next round, whatever round the votes are of.
NilDecided(n) == \E s \in Waiting(n, "quorum") :
  /\ Head(s).type = "PRECOMMIT"
  /\ CanCommit(n, Head(s).height, Head(s).round)
  /\ Head(s).hash = Nil
  /\ UNCHANGED <<lockVars, voteVars, chainVars, blockVars, mutex, timeouts>>
  /\ EnterRound(n, height[n] + 1, round[n] + 1, Becomes(n, s, Tail(s)))

\* A quorum that no longer matters, or one for a missing block.
NothingDecided(n) == \E s \in Waiting(n, "quorum") :
  /\ LET h  == Head(s).height
         r  == Head(s).round
     IN  /\ ~Behind(n, h, r)
         /\ \/ Head(s).type = "PREVOTE" /\ ~CanPrecommit(n, h, r)
            \/ Head(s).type = "PRECOMMIT" /\ ~CanCommit(n, h, r)
            \/ /\ Head(s).type = "PRECOMMIT"
               /\ Head(s).hash \notin pending[n] \cup {Nil}
  /\ Run(n, Becomes(n, s, Tail(s)))
  /\ UNCHANGED <<roundVars, lockVars, voteVars, chainVars, blockVars, mutex>>

-----------------------------------------------------------------------------
(* The rest of commitBlock(b), on top of the stack s.                      *)

\* The mutex is free at last.
CommitLocked(n) == \E s \in Waiting(n, "awaitCommit") :
  /\ Quiet(n)
  /\ ~mutex[n]
  /\ commitBlock(n, Head(s).block, s)
  /\ UNCHANGED <<roundVars, lockVars, voteVars, chainVars, blockVars>>

\* The rest of commitBlock() once its block has been executed, or not.
SaveBlock(n, s) ==
  /\ LET b == Head(s).block
     IN  /\ chain'  = [chain EXCEPT ![n] = Append(@, b)]
         /\ height' = [height EXCEPT ![n] = b.height]
         /\ Run(n, Becomes(n, s, Tail(s)) (+) Task(<<StartRound(b.height + 1)>>))
  /\ step'    = [step EXCEPT ![n] = "COMMIT"]
  /\ locked'  = [locked EXCEPT ![n] = Nil]
  /\ pending' = [pending EXCEPT ![n] = {}]
  /\ mutex'   = [mutex EXCEPT ![n] = FALSE]
  /\ UNCHANGED <<round, timer, timeouts, voteVars, blockVars>>

\* The block is executed, the state committed, the block saved.
BlockCommitted(n) == \E s \in Waiting(n, "commit") :
  /\ Quiet(n)
  /\ state' = [state EXCEPT ![n] = Append(@, Payload(Head(s).block))]
  /\ SaveBlock(n, s)
  /\ UNCHANGED failures

\* executeBlock() throws (no worker starts): the commit goes on without it.
ExecutionFailed(n) == \E s \in Waiting(n, "commit") :
  /\ Quiet(n)
  /\ failures < MaxFailures
  /\ failures' = failures + 1
  /\ SaveBlock(n, s)
  /\ UNCHANGED state

\* The commit throws, before or after the state is committed: the block is
\* not saved, and the node goes to the next round of the same height.
CommitFailed(n) == \E s \in Waiting(n, "commit") :
  /\ Quiet(n)
  /\ failures < MaxFailures
  /\ failures' = failures + 1
  /\ \/ UNCHANGED state
     \/ state' = [state EXCEPT ![n] = Append(@, Payload(Head(s).block))]
  /\ mutex' = [mutex EXCEPT ![n] = FALSE]
  /\ UNCHANGED <<lockVars, voteVars, height, chain, blockVars, timeouts>>
  /\ EnterRound(n, height[n] + 1, round[n] + 1, Becomes(n, s, Tail(s)))

-----------------------------------------------------------------------------
(* The others.                                                             *)

Publishes(v) ==
  /\ ballots' = ballots \cup {v}
  /\ UNCHANGED <<roundVars, lockVars, voteVars, chainVars, mutex, tasks,
                 blockVars>>

Cast(p, h, r, ty) ==
  {v \in ballots : /\ v.validator = p
                   /\ v.height = h
                   /\ v.round = r
                   /\ v.type = ty}

\* The last block p precommitted before round r of height h, if any.
PeerLocks(p, h, r) ==
  {v.hash : v \in {u \in ballots : /\ u.validator = p
                                   /\ u.type = "PRECOMMIT"
                                   /\ u.hash # Nil
                                   /\ u.height = h
                                   /\ u.round < r}}

\* p has not been in a later round of this height.
Reached(p, h, r) ==
  /\ \A v \in ballots : v.validator = p /\ v.height = h => v.round <= r
  /\ \A b \in blocks : b.proposer = p /\ b.height = h => b.round <= r

\* A peer proposes the payload it is locked on, or one of its own, on top of
\* a state that some node has reached.
PeerProposes(p, h, r) ==
  /\ Reached(p, h, r)
  /\ getProposer(h, r) = p
  /\ ~ \E b \in blocks : b.proposer = p /\ b.height = h /\ b.round = r
  /\ \E n \in Nodes, q \in [coinbase : {p}, txs : TxBatches] \cup
                           {Payload(b) : b \in PeerLocks(p, h, r)} :
       /\ Len(state[n]) = h - 1
       /\ \A b \in PeerLocks(p, h, r) : q = Payload(b)
       /\ blocks' = blocks \cup {NewBlock(p, h, r, Append(state[n], q))}
  /\ UNCHANGED <<roundVars, lockVars, voteVars, chainVars, mutex, tasks,
                 ballots, seen>>

PeerPrevotes(p, h, r) == \E hash \in blocks \cup {Nil} :
  /\ Reached(p, h, r)
  /\ Cast(p, h, r, "PREVOTE") = {}
  /\ Cast(p, h, r, "PRECOMMIT") = {}
  /\ hash # Nil => /\ hash.height = h /\ hash.round = r
                   /\ \A b \in PeerLocks(p, h, r) : Payload(hash) = Payload(b)
  /\ Publishes(NewVote(p, "PREVOTE", hash, h, r))

PeerPrecommits(p, h, r) == \E hash \in blocks \cup {Nil} :
  /\ Reached(p, h, r)
  /\ Cast(p, h, r, "PRECOMMIT") = {}
  /\ hash # Nil => HasQuorum(ballots, h, r, "PREVOTE", hash)
  /\ Publishes(NewVote(p, "PRECOMMIT", hash, h, r))

PeerStep(p) ==
  \E h \in 1..MaxHeight, r \in PeerRounds :
     \/ PeerProposes(p, h, r)
     \/ PeerPrevotes(p, h, r)
     \/ PeerPrecommits(p, h, r)

-----------------------------------------------------------------------------
(* The specification.                                                      *)

Init ==
  /\ height   = [n \in Nodes |-> 0]
  /\ round    = [n \in Nodes |-> 0]
  /\ step     = [n \in Nodes |-> "PROPOSE"]
  /\ timer    = [n \in Nodes |-> FALSE]
  /\ locked   = [n \in Nodes |-> Nil]
  /\ pending  = [n \in Nodes |-> {}]
  /\ votes    = [n \in Nodes |-> {}]
  /\ slashed  = [n \in Nodes |-> {}]
  /\ mutex    = [n \in Nodes |-> FALSE]
  /\ tasks    = [n \in Nodes |-> Task(<<StartRound(1)>>)]
  /\ state    = [n \in Nodes |-> <<>>]
  /\ chain    = [n \in Nodes |-> <<>>]
  /\ seen     = [n \in Nodes |-> {}]
  /\ timeouts = 0
  /\ failures = 0
  /\ blocks   = {}
  /\ ballots  = {}

NodeStep(n) ==
  \/ StartRoundZero(n)
  \/ ProposalExecuted(n)
  \/ ProposalPublished(n)
  \/ BlockExecuted(n)
  \/ VotePublished(n)
  \/ SlashSaved(n)
  \/ TimeoutVoted(n)
  \/ VotesCounted(n)
  \/ JumpToRound(n)
  \/ PrecommitDecided(n)
  \/ CommitDecided(n)
  \/ NilDecided(n)
  \/ NothingDecided(n)
  \/ CommitLocked(n)
  \/ BlockCommitted(n)
  \/ ExecutionFailed(n)
  \/ CommitFailed(n)
  \/ ReceiveBlock(n)
  \/ ReceiveVote(n)
  \/ Timeout(n)

Next == (\E n \in Nodes : NodeStep(n)) \/ (\E p \in Peers : PeerStep(p))

Spec == Init /\ [][Next]_vars

-----------------------------------------------------------------------------
(* Properties.                                                             *)

Frames ==
       [op : {"publish"}, vote : Votes]
  \cup [op : {"checkQuorum"}, height : Nat, round : Nat, type : VoteTypes]
  \cup [op : {"quorum"}, height : Nat, round : Nat, type : VoteTypes,
        hash : Blocks \cup {Nil}]
  \cup [op : {"setStep"}, step : VoteTypes]
  \cup [op : {"saveSlashed"}]
  \cup [op : {"verify", "awaitCommit", "commit", "publishBlock"},
        block : Blocks]
  \cup [op : {"startRound"}, height : Nat]
  \cup [op : {"propose"}, root : Seq(Payloads) \ {<<>>}]

IsTasks(bag) ==
  \A s \in DOMAIN bag : s \in Seq(Frames) \ {<<>>} /\ bag[s] \in Nat \ {0}

\* Every variable has its type: what each field of the class can hold.
TypeOK ==
  /\ height \in [Nodes -> Nat]
  /\ round \in [Nodes -> Nat]
  /\ step \in [Nodes -> Steps]
  /\ timer \in [Nodes -> BOOLEAN]
  /\ mutex \in [Nodes -> BOOLEAN]
  /\ locked \in [Nodes -> Blocks \cup {Nil}]
  /\ pending \in [Nodes -> SUBSET Blocks]
  /\ votes \in [Nodes -> SUBSET Votes]
  /\ \A n \in Nodes : IsFiniteSet(votes[n])
  /\ slashed \in [Nodes -> SUBSET Voters]
  /\ DOMAIN tasks = Nodes
  /\ \A n \in Nodes : IsTasks(tasks[n])
  /\ state \in [Nodes -> Seq(Payloads)]
  /\ chain \in [Nodes -> Seq(Blocks)]
  /\ timeouts \in Nat
  /\ failures \in Nat
  /\ blocks \subseteq Blocks /\ IsFiniteSet(blocks)
  /\ ballots \subseteq Votes
  /\ seen \in [Nodes -> SUBSET Blocks]

\* The frames of n that hold the mutex.
Holders(n) == Waiting(n, "verify") \cup Waiting(n, "commit")

\* bft.ts:46, "Mutex for state access": a node verifies or commits at most
\* one block at any time, and the mutex is taken exactly while it does.
Exclusive ==
  \A n \in Nodes :
    /\ mutex[n] <=> Holders(n) # {}
    /\ \A s, t \in Holders(n) : s = t /\ tasks[n][s] = 1

\* The locked block is one the node can still commit: it has its body, and it
\* is of the height being decided (commitBlock() resets the lock).
LockIsPending ==
  \A n \in Nodes :
    locked[n] # Nil => /\ locked[n] \in pending[n]
                       /\ locked[n].height = height[n] + 1

\* Those outside the list whose votes n has counted.
Outsiders(n, h, r, ty) ==
  {v.validator : v \in {u \in votes[n] : /\ u.height = h
                                         /\ u.round = r
                                         /\ u.type = ty}} \ Validators

\* Two quorums of one height, round and type are for the same block, although a
\* node may send two votes and each receiver keeps whichever came first, unless
\* those outside the list who voted are more than a third of it: checkQuorum()
\* does not ask who votes (bft.ts:658-667).
OneDecision ==
  \A n \in Nodes : \A v \in votes[n] :
    \A a, b \in Decided(n, v.height, v.round, v.type) :
      a # b => 3 * Cardinality(Outsiders(n, v.height, v.round, v.type))
                 > Len(ValidatorList)

\* A node precommits a block only when it holds a quorum of prevotes for it,
\* and it keeps these votes: it can justify the precommit ever after.
PrecommitJustified ==
  \A v \in ballots :
    v.validator \in Nodes /\ v.type = "PRECOMMIT" /\ v.hash # Nil =>
      HasQuorum(votes[v.validator], v.height, v.round, "PREVOTE", v.hash)

\* A node prevotes a block only after it has executed it with success, and
\* keeps the body until the height is decided.
PrevoteHasBody ==
  \A v \in ballots :
    /\ v.validator \in Nodes /\ v.type = "PREVOTE" /\ v.hash # Nil
    /\ v.height > height[v.validator]
    => v.hash \in pending[v.validator]

\* Every block in the store was committed with a quorum of precommits for it
\* in one round, which the node still holds.
CommitCertified ==
  \A n \in Nodes : \A b \in {chain[n][i] : i \in DOMAIN chain[n]} :
    \E v \in votes[n] :
      /\ v.height = b.height /\ v.type = "PRECOMMIT" /\ v.hash = b
      /\ HasQuorum(votes[n], b.height, v.round, "PRECOMMIT", b)

\* The store of every node is a chain of verified blocks that only grows.
Chain == INSTANCE VerifiedChain WITH log <- chain

GrowsVerified == Chain!Spec

-----------------------------------------------------------------------------
(* A property that the documentation states and the code does not have.    *)

\* NETWORK.md:56, "Once a block is committed by >2/3 validators, it is
\* final": no node commits another block than one that has a quorum of
\* precommits.
CommittedIsFinal ==
  \A n \in Nodes : \A i \in DOMAIN chain[n] : \A v \in ballots :
    /\ v.height = i /\ v.type = "PRECOMMIT" /\ v.hash # Nil
    /\ HasQuorum(ballots, i, v.round, "PRECOMMIT", v.hash)
    => v.hash = chain[n][i]

-----------------------------------------------------------------------------
(* Liveness.  The worker answers or is given up after five seconds, the    *)
(* disk and the gossip publish answer, and the event loop runs every       *)
(* callback that is due: a suspended handler that can go on does go on.    *)
(* The mutex is polled every 10 ms and given to any waiter: one that can   *)
(* take it again and again takes it at last.                               *)

Resumes(n) ==
  \/ StartRoundZero(n)   \/ ProposalExecuted(n)  \/ ProposalPublished(n)
  \/ VotePublished(n)    \/ SlashSaved(n)        \/ TimeoutVoted(n)
  \/ VotesCounted(n)     \/ JumpToRound(n)       \/ PrecommitDecided(n)
  \/ CommitDecided(n)    \/ NilDecided(n)        \/ NothingDecided(n)

Fairness ==
  \A n \in Nodes : /\ WF_vars(Resumes(n))
                   /\ SF_vars(BlockExecuted(n))
                   /\ SF_vars(BlockCommitted(n))
                   /\ SF_vars(CommitLocked(n))

FairSpec == Spec /\ Fairness

\* A node that holds a block and a quorum of precommits for it commits that
\* height, whatever its step and whoever has the mutex, unless a commit fails or
\* the block has a transaction out of place.
DecidedCommits ==
  \A n \in Nodes : \A h \in 1..MaxHeight :
    (\E b \in pending[n] : /\ Ordered(b)
                           /\ b.height = h /\ height[n] = h - 1
                           /\ b \in Decided(n, h, b.round, "PRECOMMIT"))
      ~> (height[n] >= h \/ failures > 0)

\* bft.ts:606, "Outside Lock - Avoid Deadlock": the mutex is always released.
MutexReleased == \A n \in Nodes : mutex[n] ~> ~mutex[n]

=============================================================================
