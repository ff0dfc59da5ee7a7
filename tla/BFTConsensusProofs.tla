------------------------- MODULE BFTConsensusProofs -------------------------
(***************************************************************************)
(* Theorems about BFTConsensus for every set of nodes and peers, every     *)
(* list of validators and every bound, each part on top of the one before: *)
(*   - the types: a handler that resumes finds a frame that it left;       *)
(*   - what the votes guarantee: a quorum decides one block, and a         *)
(*     precommit is backed by a quorum of prevotes;                        *)
(*   - the mutex excludes: one handler of a node verifies or commits a     *)
(*     block at any time;                                                  *)
(*   - what a node keeps: it commits only blocks that a quorum             *)
(*     precommitted, has the body of what it prevoted and is locked on,    *)
(*     and, when no commit fails, its store is the chain of verified       *)
(*     blocks that VerifiedChain describes.                                *)
(***************************************************************************)
EXTENDS BFTConsensus, FiniteSetTheorems, TLAPS

-----------------------------------------------------------------------------
(* Bags of tasks.                                                          *)

\* The tasks of a union of two bags are those of either, their counts added.
LEMMA PlusDomain ==
  ASSUME NEW A, NEW B
  PROVE  /\ DOMAIN (A (+) B) = DOMAIN A \cup DOMAIN B
         /\ \A e \in DOMAIN (A (+) B) :
              (A (+) B)[e] = (IF e \in DOMAIN A THEN A[e] ELSE 0)
                             + (IF e \in DOMAIN B THEN B[e] ELSE 0)
  BY DEF (+)

\* Taking one copy of a task out of a bag leaves the other tasks alone.
LEMMA MinusDomain ==
  ASSUME NEW A, NEW s
  PROVE  /\ DOMAIN (A (-) SetToBag({s})) \subseteq DOMAIN A
         /\ \A e \in DOMAIN (A (-) SetToBag({s})) :
              /\ (A (-) SetToBag({s}))[e] = IF e = s THEN A[e] - 1 ELSE A[e]
              /\ (A (-) SetToBag({s}))[e] > 0
         /\ \A e \in DOMAIN A :
              (IF e = s THEN A[e] - 1 ELSE A[e]) > 0
                => e \in DOMAIN (A (-) SetToBag({s}))
  BY DEF (-), SetToBag

\* The bag of one task holds it once, and nothing if the handler returned.
LEMMA TaskDomain ==
  ASSUME NEW s
  PROVE  /\ DOMAIN Task(s) = {s} \ {<<>>}
         /\ \A e \in DOMAIN Task(s) : Task(s)[e] = 1
  BY DEF Task, SetToBag, EmptyBag

\* The tasks of a node and the handlers it starts are tasks.
LEMMA PlusTasks ==
  ASSUME NEW A, NEW B, IsTasks(A), IsTasks(B)
  PROVE  IsTasks(A (+) B)
<1> SUFFICES ASSUME NEW e \in DOMAIN (A (+) B)
             PROVE  e \in Seq(Frames) \ {<<>>} /\ (A (+) B)[e] \in Nat \ {0}
  BY DEF IsTasks
<1> DEFINE a == IF e \in DOMAIN A THEN A[e] ELSE 0
           b == IF e \in DOMAIN B THEN B[e] ELSE 0
<1>1. e \in DOMAIN A \/ e \in DOMAIN B
  BY DEF (+)
<1>2. e \in Seq(Frames) \ {<<>>}
  BY <1>1 DEF IsTasks
<1>3. a \in Nat /\ b \in Nat /\ (a # 0 \/ b # 0)
  BY <1>1 DEF IsTasks
<1>4. (A (+) B)[e] = a + b
  BY PlusDomain
<1> QED
  BY <1>2, <1>3, <1>4

\* The tasks of a node without the handler that resumes are tasks.
LEMMA MinusTasks ==
  ASSUME NEW A, NEW s, IsTasks(A)
  PROVE  IsTasks(A (-) SetToBag({s}))
<1> SUFFICES ASSUME NEW e \in DOMAIN (A (-) SetToBag({s}))
             PROVE  /\ e \in Seq(Frames) \ {<<>>}
                    /\ (A (-) SetToBag({s}))[e] \in Nat \ {0}
  BY DEF IsTasks
<1> DEFINE c == (A (-) SetToBag({s}))[e]
<1>1. e \in DOMAIN A
  BY MinusDomain
<1>2. e \in Seq(Frames) \ {<<>>} /\ A[e] \in Nat \ {0}
  BY <1>1 DEF IsTasks
<1>3. (c = IF e = s THEN A[e] - 1 ELSE A[e]) /\ c > 0
  BY MinusDomain
<1> QED
  BY <1>2, <1>3

\* A single stack of frames is a task, and the empty one is none.
LEMMA TaskTasks ==
  ASSUME NEW s \in Seq(Frames)
  PROVE  IsTasks(Task(s))
  BY DEF IsTasks, Task, SetToBag, EmptyBag

\* A handler of one frame is a task.
LEMMA FrameTask ==
  ASSUME NEW f \in Frames
  PROVE  IsTasks(Task(<<f>>))
  BY <<f>> \in Seq(Frames), TaskTasks

\* A set of stacks of frames, once each, is a bag of tasks.
LEMMA SetTasks ==
  ASSUME NEW S \in SUBSET (Seq(Frames) \ {<<>>})
  PROVE  IsTasks(SetToBag(S))
  BY DEF IsTasks, SetToBag

\* A handler that resumes and waits again leaves the tasks typed.
LEMMA BecomesTasks ==
  ASSUME NEW n, NEW s, NEW t \in Seq(Frames), IsTasks(tasks[n])
  PROVE  IsTasks(Becomes(n, s, t))
  BY MinusTasks, PlusTasks, TaskTasks DEF Becomes

\* The frame on top of a stack, and the stack below it.
LEMMA HeadFrame ==
  ASSUME NEW s \in Seq(Frames) \ {<<>>}
  PROVE  /\ Head(s) \in Frames
         /\ Tail(s) \in Seq(Frames)
  OBVIOUS

\* What each kind of frame carries.
LEMMA FrameFields ==
  ASSUME NEW f \in Frames
  PROVE  /\ f.op = "publish" => f.vote \in Votes
         /\ f.op = "checkQuorum" => /\ f.height \in Nat
                                    /\ f.round \in Nat
                                    /\ f.type \in VoteTypes
         /\ f.op = "quorum" => /\ f.height \in Nat
                               /\ f.round \in Nat
                               /\ f.type \in VoteTypes
                               /\ f.hash \in Blocks \cup {Nil}
         /\ f.op = "setStep" => f.step \in VoteTypes
         /\ f.op \in {"verify", "awaitCommit", "commit", "publishBlock"}
              => f.block \in Blocks
         /\ f.op = "startRound" => f.height \in Nat
         /\ f.op = "propose" => f.root \in Seq(Payloads) \ {<<>>}
  BY DEF Frames

\* The constructors of the frames build frames.
LEMMA FramesTyped ==
  /\ \A v \in Votes : Publish(v) \in Frames
  /\ \A h, r \in Nat : \A ty \in VoteTypes : CheckQuorum(h, r, ty) \in Frames
  /\ \A h, r \in Nat : \A ty \in VoteTypes : \A hash \in Blocks \cup {Nil} :
       Quorum(h, r, ty, hash) \in Frames
  /\ \A ty \in VoteTypes : SetStep(ty) \in Frames
  /\ SaveSlashed \in Frames
  /\ \A b \in Blocks : /\ Verify(b) \in Frames
                       /\ AwaitCommit(b) \in Frames
                       /\ Commit(b) \in Frames
                       /\ PublishBlock(b) \in Frames
  /\ \A h \in Nat : StartRound(h) \in Frames
  /\ \A root \in Seq(Payloads) \ {<<>>} : Propose(root) \in Frames
  BY DEF Frames, Publish, CheckQuorum, Quorum, SetStep, SaveSlashed, Verify,
         AwaitCommit, Commit, PublishBlock, StartRound, Propose

\* Run keeps the tasks of every node and the published votes typed.
LEMMA RunTyped ==
  ASSUME NEW n \in Nodes, NEW bag, IsTasks(bag), TypeOK, Run(n, bag)
  PROVE  /\ DOMAIN tasks' = Nodes
         /\ \A m \in Nodes : IsTasks(tasks'[m])
         /\ ballots' \subseteq Votes
<1>1. \A s \in DOMAIN bag : Head(s) \in Frames
  BY HeadFrame DEF IsTasks
<1>2. \A s \in DOMAIN bag : Head(s).op = "publish" => Head(s).vote \in Votes
  BY <1>1, FrameFields
<1>3. ballots' \subseteq Votes
  BY <1>2 DEF Run, TypeOK
<1>4. DOMAIN tasks' = Nodes
  BY DEF Run, TypeOK
<1>5. ASSUME NEW m \in Nodes PROVE IsTasks(tasks'[m])
  <2>1. tasks'[m] = IF m = n THEN bag ELSE tasks[m]
    BY DEF Run, TypeOK
  <2> QED
    BY <2>1 DEF TypeOK
<1> QED
  BY <1>3, <1>4, <1>5

-----------------------------------------------------------------------------
(* What the operators return.                                              *)

\* A suspended handler of n that waits for op, taken apart.
LEMMA WaitingFrame ==
  ASSUME TypeOK, NEW n \in Nodes, NEW op, NEW s \in Waiting(n, op)
  PROVE  /\ s \in Seq(Frames) \ {<<>>}
         /\ Head(s) \in Frames
         /\ Head(s).op = op
         /\ Tail(s) \in Seq(Frames)
         /\ IsTasks(tasks[n])
<1>1. IsTasks(tasks[n]) /\ s \in DOMAIN tasks[n] /\ Head(s).op = op
  BY DEF TypeOK, Waiting, Stacks
<1>2. s \in Seq(Frames) \ {<<>>}
  BY <1>1 DEF IsTasks
<1> QED
  BY <1>1, <1>2, HeadFrame

\* Pushing a frame on a stack.
LEMMA PushTyped ==
  ASSUME NEW f \in Frames, NEW t \in Seq(Frames)
  PROVE  <<f>> \o t \in Seq(Frames) /\ <<f>> \in Seq(Frames) \ {<<>>}
  OBVIOUS

\* Whoever proposes is a validator.
LEMMA ProposerTyped ==
  ASSUME NEW h \in Nat, NEW r \in Nat
  PROVE  getProposer(h, r) \in Validators
<1>1. Len(ValidatorList) \in Nat \ {0}
  BY ValidatorAssumption
<1>2. ((h + r) % Len(ValidatorList)) + 1 \in 1..Len(ValidatorList)
  BY <1>1
<1>3. DOMAIN ValidatorList = 1..Len(ValidatorList)
  BY ValidatorAssumption
<1> QED
  BY <1>2, <1>3 DEF getProposer, Validators

\* The nodes that run the code vote, in the list or not.
LEMMA NodeVotes ==
  ASSUME NEW n \in Nodes
  PROVE  n \in Voters
  BY DEF Voters

\* The payload of a block is a payload.
LEMMA PayloadTyped ==
  ASSUME NEW b \in Blocks
  PROVE  Payload(b) \in Payloads
<1>1. b.root \in Seq(Payloads) \ {<<>>}
  BY DEF Blocks
<1>2. Len(b.root) \in 1..Len(b.root) /\ DOMAIN b.root = 1..Len(b.root)
  BY <1>1
<1> QED
  BY <1>1, <1>2 DEF Payload

\* What a node proposes are payloads.
LEMMA ProposalsTyped ==
  ASSUME TypeOK, NEW n \in Nodes
  PROVE  Proposals(n) \subseteq Payloads
<1>1. CASE locked[n] # Nil
  <2>1. locked[n] \in Blocks
    BY <1>1 DEF TypeOK
  <2> QED
    BY <1>1, <2>1, PayloadTyped DEF Proposals
<1>2. CASE locked[n] = Nil
  BY <1>2, NodeVotes DEF Proposals, Payloads
<1> QED
  BY <1>1, <1>2

\* A new vote of a node is a vote.
LEMMA NewVoteTyped ==
  ASSUME NEW v \in Voters, NEW ty \in VoteTypes,
         NEW hash \in Blocks \cup {Nil}, NEW h \in Nat, NEW r \in Nat
  PROVE  NewVote(v, ty, hash, h, r) \in Votes
  BY DEF NewVote, Votes

\* A new block is a block: only finitely many were published before it.
LEMMA NewBlockTyped ==
  ASSUME TypeOK, NEW v \in Voters, NEW h \in Nat, NEW r \in Nat,
         NEW root \in Seq(Payloads) \ {<<>>}
  PROVE  NewBlock(v, h, r, root) \in Blocks
<1> DEFINE S == {b \in blocks : /\ b.height = h
                               /\ b.round = r
                               /\ b.proposer = v}
<1>1. IsFiniteSet(S)
  BY FS_Subset DEF TypeOK
<1>2. Cardinality(S) \in Nat
  BY <1>1, FS_CardinalityType
<1> HIDE DEF S
<1>3. NewBlock(v, h, r, root) = [height |-> h, round |-> r, proposer |-> v,
                                 root |-> root, nth |-> Cardinality(S)]
  BY DEF NewBlock, S
<1> QED
  BY <1>2, <1>3 DEF Blocks

\* The hashes with a quorum are hashes of votes.
LEMMA DecidedTyped ==
  ASSUME TypeOK, NEW n \in Nodes, NEW h, NEW r, NEW ty
  PROVE  Decided(n, h, r, ty) \subseteq Blocks \cup {Nil}
<1>1. votes[n] \subseteq Votes
  BY DEF TypeOK
<1>2. \A v \in Votes : v.hash \in Blocks \cup {Nil}
  BY DEF Votes
<1> QED
  BY <1>1, <1>2 DEF Decided

\* The bag of the prevotes that startRound() sends is a bag of tasks.
LEMMA PrevotesTyped ==
  ASSUME NEW n \in Nodes, NEW h \in Nat, NEW r \in Nat,
         NEW S \in SUBSET Blocks
  PROVE  IsTasks(SetToBag({<<Publish(NewVote(n, "PREVOTE", b, h, r))>> : b \in S}))
<1> DEFINE Stack(b) == <<Publish(NewVote(n, "PREVOTE", b, h, r))>>
<1>1. ASSUME NEW b \in S PROVE Stack(b) \in Seq(Frames) \ {<<>>}
  <2>1. NewVote(n, "PREVOTE", b, h, r) \in Votes
    BY NodeVotes, NewVoteTyped DEF VoteTypes
  <2>2. Publish(NewVote(n, "PREVOTE", b, h, r)) \in Frames
    BY <2>1, FramesTyped
  <2> QED
    BY <2>2
<1> HIDE DEF Stack
<1>2. {Stack(b) : b \in S} \in SUBSET (Seq(Frames) \ {<<>>})
  BY <1>1
<1>3. IsTasks(SetToBag({Stack(b) : b \in S}))
  BY <1>2, SetTasks
<1> QED
  BY <1>3 DEF Stack

-----------------------------------------------------------------------------
(* The parts that several handlers share keep the types.                   *)

\* startRound() leaves its round, its step, its timer and the tasks typed.
LEMMA EnterRoundTyped ==
  ASSUME TypeOK, NEW n \in Nodes, NEW h \in Nat, NEW r \in Nat, NEW rest,
         IsTasks(rest), state' \in [Nodes -> Seq(Payloads)],
         EnterRound(n, h, r, rest)
  PROVE  /\ round' \in [Nodes -> Nat]
         /\ step' \in [Nodes -> Steps]
         /\ timer' \in [Nodes -> BOOLEAN]
         /\ DOMAIN tasks' = Nodes
         /\ \A m \in Nodes : IsTasks(tasks'[m])
         /\ ballots' \subseteq Votes
<1>1. round' \in [Nodes -> Nat] /\ timer' \in [Nodes -> BOOLEAN]
  BY DEF EnterRound, TypeOK
<1>2. CASE getProposer(h, r) = n
  <2>1. step' \in [Nodes -> Steps]
    BY <1>2 DEF EnterRound, TypeOK, Steps
  <2>2. PICK p \in Proposals(n) :
           Run(n, rest (+) Task(<<Propose(Append(state'[n], p))>>))
    BY <1>2 DEF EnterRound
  <2>3. p \in Payloads
    BY ProposalsTyped
  <2>4. Append(state'[n], p) \in Seq(Payloads) \ {<<>>}
    BY <2>3
  <2>5. Propose(Append(state'[n], p)) \in Frames
    BY <2>4, FramesTyped
  <2>6. IsTasks(Task(<<Propose(Append(state'[n], p))>>))
    BY <2>5, FrameTask
  <2>7. IsTasks(rest (+) Task(<<Propose(Append(state'[n], p))>>))
    BY <2>6, PlusTasks
  <2> QED
    BY <1>1, <2>1, <2>2, <2>7, RunTyped
<1>3. CASE getProposer(h, r) # n
  <2>1. step' \in [Nodes -> Steps]
    BY <1>3 DEF EnterRound, TypeOK, Steps
  <2> DEFINE bag == SetToBag({<<Publish(NewVote(n, "PREVOTE", b, h, r))>>
                                : b \in Found(n, h, r)})
  <2>2. Run(n, rest (+) bag)
    BY <1>3 DEF EnterRound
  <2>3. Found(n, h, r) \in SUBSET Blocks
    BY DEF Found, TypeOK
  <2>4. IsTasks(bag)
    BY <2>3, PrevotesTyped
  <2>5. IsTasks(rest (+) bag)
    BY <2>4, PlusTasks
  <2> QED
    BY <1>1, <2>1, <2>2, <2>5, RunTyped
<1> QED
  BY <1>2, <1>3

\* handleVote() leaves the votes, the slashed validators and the tasks typed.
LEMMA HandleVoteTyped ==
  ASSUME TypeOK, NEW n \in Nodes, NEW v \in Votes, NEW others,
         IsTasks(others), NEW rest \in Seq(Frames),
         HandleVote(n, v, others, rest)
  PROVE  /\ votes' \in [Nodes -> SUBSET Votes]
         /\ \A m \in Nodes : IsFiniteSet(votes'[m])
         /\ slashed' \in [Nodes -> SUBSET Voters]
         /\ DOMAIN tasks' = Nodes
         /\ \A m \in Nodes : IsTasks(tasks'[m])
         /\ ballots' \subseteq Votes
<1>1. /\ v.height \in Nat /\ v.round \in Nat
      /\ v.type \in VoteTypes /\ v.validator \in Voters
  BY DEF Votes
<1>2. CheckQuorum(v.height, v.round, v.type) \in Frames /\ SaveSlashed \in Frames
  BY <1>1, FramesTyped
<1>3. PICK s \in Seq(Frames) : Run(n, others (+) Task(s))
  <2>1. /\ <<CheckQuorum(v.height, v.round, v.type)>> \o rest \in Seq(Frames)
        /\ <<SaveSlashed>> \o rest \in Seq(Frames)
    BY <1>2, PushTyped
  <2> QED
    BY <2>1 DEF HandleVote
<1>4. IsTasks(others (+) Task(s))
  BY TaskTasks, PlusTasks
<1>5. votes' \in [Nodes -> SUBSET Votes]
  BY SMTT(30) DEF HandleVote, TypeOK, voteVars
<1>6. \A m \in Nodes : IsFiniteSet(votes'[m])
  <2>1. votes' = votes \/ votes' = [votes EXCEPT ![n] = @ \cup {v}]
    BY DEF HandleVote, voteVars
  <2>2. \A m \in Nodes : votes'[m] = votes[m] \/ votes'[m] = votes[m] \cup {v}
    BY <2>1 DEF TypeOK
  <2>3. ASSUME NEW m \in Nodes PROVE IsFiniteSet(votes'[m])
    <3>1. IsFiniteSet(votes[m])
      BY DEF TypeOK
    <3>2. IsFiniteSet(votes[m] \cup {v})
      BY <3>1, FS_AddElement
    <3> QED
      BY <2>2, <3>1, <3>2
  <2> QED
    BY <2>3
<1>7. slashed' \in [Nodes -> SUBSET Voters]
  <2>1. \/ slashed' = slashed
        \/ slashed' = [slashed EXCEPT ![n] = @ \cup {v.validator}]
    BY DEF HandleVote, voteVars
  <2>2. slashed \in [Nodes -> SUBSET Voters]
    BY DEF TypeOK
  <2> QED
    BY <1>1, <2>1, <2>2
<1> QED
  BY <1>3, <1>4, <1>5, <1>6, <1>7, RunTyped

\* handleBlock() leaves the mutex and the tasks typed.
LEMMA HandleBlockTyped ==
  ASSUME TypeOK, NEW n \in Nodes, NEW b \in Blocks, NEW rest,
         IsTasks(rest), HandleBlock(n, b, rest)
  PROVE  /\ mutex' \in [Nodes -> BOOLEAN]
         /\ DOMAIN tasks' = Nodes
         /\ \A m \in Nodes : IsTasks(tasks'[m])
         /\ ballots' \subseteq Votes
<1>1. mutex' \in [Nodes -> BOOLEAN]
  BY DEF HandleBlock, TypeOK
<1>2. Verify(b) \in Frames
  BY FramesTyped
<1>3. IsTasks(rest (+) Task(<<Verify(b)>>))
  <2>1. IsTasks(Task(<<Verify(b)>>))
    BY <1>2, FrameTask
  <2> QED
    BY <2>1, PlusTasks
<1>4. Run(n, rest (+) Task(<<Verify(b)>>)) \/ Run(n, rest)
  BY DEF HandleBlock
<1> QED
  BY <1>1, <1>3, <1>4, RunTyped

-----------------------------------------------------------------------------
(* Every step keeps the types.                                             *)

\* startRound() leaves a node typed when it resumes.
LEMMA StartRoundZeroTyped ==
  ASSUME TypeOK, NEW n \in Nodes, StartRoundZero(n)
  PROVE  TypeOK'
<1>1. PICK s \in Waiting(n, "startRound") :
        EnterRound(n, Head(s).height, 0, Becomes(n, s, Tail(s)))
  BY DEF StartRoundZero
<1>2. UNCHANGED <<lockVars, voteVars, chainVars, blockVars, mutex, timeouts>>
  BY DEF StartRoundZero
<1>3. /\ Head(s) \in Frames /\ Head(s).op = "startRound"
      /\ Tail(s) \in Seq(Frames) /\ IsTasks(tasks[n])
  BY WaitingFrame
<1>4. Head(s).height \in Nat
  BY <1>3, FrameFields
<1>5. IsTasks(Becomes(n, s, Tail(s)))
  BY <1>3, BecomesTasks
<1>6. state' \in [Nodes -> Seq(Payloads)]
  BY <1>2 DEF TypeOK, chainVars
<1>7. /\ round' \in [Nodes -> Nat] /\ step' \in [Nodes -> Steps]
      /\ timer' \in [Nodes -> BOOLEAN] /\ ballots' \subseteq Votes
      /\ DOMAIN tasks' = Nodes /\ \A m \in Nodes : IsTasks(tasks'[m])
  BY <1>1, <1>4, <1>5, <1>6, EnterRoundTyped
<1> QED
  BY <1>2, <1>7 DEF TypeOK, lockVars, voteVars, chainVars, blockVars

\* proposeBlock() publishes a typed block.
LEMMA ProposalExecutedTyped ==
  ASSUME TypeOK, NEW n \in Nodes, ProposalExecuted(n)
  PROVE  TypeOK'
<1>1. PICK s \in Waiting(n, "propose") :
        LET b == NewBlock(n, height[n] + 1, round[n], Head(s).root)
        IN  /\ blocks' = blocks \cup {b}
            /\ Run(n, Becomes(n, s, <<PublishBlock(b)>>))
  BY DEF ProposalExecuted
<1>2. UNCHANGED <<roundVars, lockVars, voteVars, chainVars, seen, mutex>>
  BY DEF ProposalExecuted
<1> DEFINE b == NewBlock(n, height[n] + 1, round[n], Head(s).root)
<1>3. Head(s) \in Frames /\ Head(s).op = "propose" /\ IsTasks(tasks[n])
  BY WaitingFrame
<1>4. Head(s).root \in Seq(Payloads) \ {<<>>}
  BY <1>3, FrameFields
<1>5. height[n] + 1 \in Nat /\ round[n] \in Nat /\ n \in Voters
  BY NodeVotes DEF TypeOK
<1>6. b \in Blocks
  BY <1>4, <1>5, NewBlockTyped
<1> HIDE DEF b
<1>7. blocks' \subseteq Blocks /\ IsFiniteSet(blocks')
  BY <1>1, <1>6, FS_AddElement DEF TypeOK, b
<1>8. <<PublishBlock(b)>> \in Seq(Frames)
  BY <1>6, FramesTyped
<1>9. IsTasks(Becomes(n, s, <<PublishBlock(b)>>))
  BY <1>3, <1>8, BecomesTasks
<1>10. /\ ballots' \subseteq Votes
       /\ DOMAIN tasks' = Nodes /\ \A m \in Nodes : IsTasks(tasks'[m])
  BY <1>1, <1>9, RunTyped DEF b
<1> QED
  BY <1>2, <1>7, <1>10 DEF TypeOK, roundVars, lockVars, voteVars, chainVars

\* A node that handles its own block stays typed.
LEMMA ProposalPublishedTyped ==
  ASSUME TypeOK, NEW n \in Nodes, ProposalPublished(n)
  PROVE  TypeOK'
<1>1. PICK s \in Waiting(n, "publishBlock") :
        HandleBlock(n, Head(s).block, Becomes(n, s, Tail(s)))
  BY DEF ProposalPublished
<1>2. UNCHANGED <<roundVars, lockVars, voteVars, chainVars, blockVars>>
  BY DEF ProposalPublished
<1>3. /\ Head(s) \in Frames /\ Head(s).op = "publishBlock"
      /\ Tail(s) \in Seq(Frames) /\ IsTasks(tasks[n])
  BY WaitingFrame
<1>4. Head(s).block \in Blocks
  BY <1>3, FrameFields
<1>5. IsTasks(Becomes(n, s, Tail(s)))
  BY <1>3, BecomesTasks
<1>6. /\ mutex' \in [Nodes -> BOOLEAN] /\ ballots' \subseteq Votes
      /\ DOMAIN tasks' = Nodes /\ \A m \in Nodes : IsTasks(tasks'[m])
  BY <1>1, <1>4, <1>5, HandleBlockTyped
<1> QED
  BY <1>2, <1>6 DEF TypeOK, roundVars, lockVars, voteVars, chainVars, blockVars

\* A node that receives a block stays typed.
LEMMA ReceiveBlockTyped ==
  ASSUME TypeOK, NEW n \in Nodes, ReceiveBlock(n)
  PROVE  TypeOK'
<1>1. PICK b \in blocks : /\ seen' = [seen EXCEPT ![n] = @ \cup {b}]
                          /\ HandleBlock(n, b, tasks[n])
  BY DEF ReceiveBlock
<1>2. UNCHANGED <<roundVars, lockVars, voteVars, chainVars, blocks>>
  BY DEF ReceiveBlock
<1>3. b \in Blocks /\ IsTasks(tasks[n])
  BY DEF TypeOK
<1>4. seen' \in [Nodes -> SUBSET Blocks]
  BY <1>1, <1>3 DEF TypeOK
<1>5. /\ mutex' \in [Nodes -> BOOLEAN] /\ ballots' \subseteq Votes
      /\ DOMAIN tasks' = Nodes /\ \A m \in Nodes : IsTasks(tasks'[m])
  BY <1>1, <1>3, HandleBlockTyped
<1> QED
  BY <1>2, <1>4, <1>5 DEF TypeOK, roundVars, lockVars, voteVars, chainVars

\* A node that has executed a block stays typed.
LEMMA BlockExecutedTyped ==
  ASSUME TypeOK, NEW n \in Nodes, BlockExecuted(n)
  PROVE  TypeOK'
<1>1. PICK s \in Waiting(n, "verify") : BlockExecuted(n)!(s)
  BY DEF BlockExecuted
<1> DEFINE b      == Head(s).block
           quorum == CheckQuorum(b.height, b.round, "PREVOTE")
           vote   == NewVote(n, "PREVOTE", b, b.height, b.round)
<1>2. /\ Head(s) \in Frames /\ Head(s).op = "verify"
      /\ Tail(s) \in Seq(Frames) /\ IsTasks(tasks[n])
  BY WaitingFrame
<1>3. b \in Blocks
  BY <1>2, FrameFields
<1>4. b.height \in Nat /\ b.round \in Nat
  BY <1>3 DEF Blocks
<1>5. quorum \in Frames /\ Publish(vote) \in Frames
  BY <1>3, <1>4, NodeVotes, NewVoteTyped, FramesTyped DEF VoteTypes
<1>6. /\ <<Publish(vote), quorum>> \o Tail(s) \in Seq(Frames)
      /\ <<quorum>> \o Tail(s) \in Seq(Frames)
  <2>1. <<Publish(vote), quorum>> \in Seq(Frames) /\ <<quorum>> \in Seq(Frames)
    BY <1>5
  <2> HIDE DEF vote, quorum
  <2> QED
    BY <1>2, <2>1
<1>7. PICK t \in Seq(Frames) : Run(n, Becomes(n, s, t))
  BY <1>1, <1>2, <1>6
<1>8. /\ ballots' \subseteq Votes
      /\ DOMAIN tasks' = Nodes /\ \A m \in Nodes : IsTasks(tasks'[m])
  BY <1>2, <1>7, BecomesTasks, RunTyped
<1>9. pending' \in [Nodes -> SUBSET Blocks]
  <2>1. pending' = pending \/ pending' = [pending EXCEPT ![n] = @ \cup {b}]
    BY <1>1
  <2>2. pending \in [Nodes -> SUBSET Blocks]
    BY DEF TypeOK
  <2> QED
    BY <1>3, <2>1, <2>2
<1>10. /\ step' \in [Nodes -> Steps] /\ timer' \in [Nodes -> BOOLEAN]
       /\ mutex' \in [Nodes -> BOOLEAN]
  BY <1>1 DEF TypeOK, Steps
<1>11. UNCHANGED <<round, timeouts, locked, voteVars, chainVars, blockVars>>
  BY <1>1
<1> QED
  BY <1>8, <1>9, <1>10, <1>11 DEF TypeOK, voteVars, chainVars, blockVars

\* A node that handles its own vote stays typed.
LEMMA VotePublishedTyped ==
  ASSUME TypeOK, NEW n \in Nodes, VotePublished(n)
  PROVE  TypeOK'
<1>1. PICK s \in Waiting(n, "publish") :
        HandleVote(n, Head(s).vote, tasks[n] (-) SetToBag({s}), Tail(s))
  BY DEF VotePublished
<1>2. UNCHANGED <<roundVars, lockVars, chainVars, blockVars, mutex>>
  BY DEF VotePublished
<1>3. /\ Head(s) \in Frames /\ Head(s).op = "publish"
      /\ Tail(s) \in Seq(Frames) /\ IsTasks(tasks[n])
  BY WaitingFrame
<1>4. Head(s).vote \in Votes
  BY <1>3, FrameFields
<1>5. IsTasks(tasks[n] (-) SetToBag({s}))
  BY <1>3, MinusTasks
<1>6. /\ votes' \in [Nodes -> SUBSET Votes]
      /\ \A m \in Nodes : IsFiniteSet(votes'[m])
      /\ slashed' \in [Nodes -> SUBSET Voters] /\ ballots' \subseteq Votes
      /\ DOMAIN tasks' = Nodes /\ \A m \in Nodes : IsTasks(tasks'[m])
  BY <1>1, <1>3, <1>4, <1>5, HandleVoteTyped
<1> QED
  BY <1>2, <1>6 DEF TypeOK, roundVars, lockVars, chainVars, blockVars

\* A node that receives a vote stays typed.
LEMMA ReceiveVoteTyped ==
  ASSUME TypeOK, NEW n \in Nodes, ReceiveVote(n)
  PROVE  TypeOK'
<1>1. PICK v \in ballots : HandleVote(n, v, tasks[n], <<>>)
  BY DEF ReceiveVote
<1>2. UNCHANGED <<roundVars, lockVars, chainVars, blockVars, mutex>>
  BY DEF ReceiveVote
<1>3. v \in Votes /\ IsTasks(tasks[n]) /\ <<>> \in Seq(Frames)
  BY DEF TypeOK
<1>4. /\ votes' \in [Nodes -> SUBSET Votes]
      /\ \A m \in Nodes : IsFiniteSet(votes'[m])
      /\ slashed' \in [Nodes -> SUBSET Voters] /\ ballots' \subseteq Votes
      /\ DOMAIN tasks' = Nodes /\ \A m \in Nodes : IsTasks(tasks'[m])
  BY <1>1, <1>3, HandleVoteTyped
<1> QED
  BY <1>2, <1>4 DEF TypeOK, roundVars, lockVars, chainVars, blockVars

\* A handler that returns, or waits again, leaves the tasks typed.
LEMMA ResumesTyped ==
  ASSUME TypeOK, NEW n \in Nodes, NEW op, NEW s \in Waiting(n, op),
         NEW t \in Seq(Frames), Run(n, Becomes(n, s, t))
  PROVE  /\ DOMAIN tasks' = Nodes
         /\ \A m \in Nodes : IsTasks(tasks'[m])
         /\ ballots' \subseteq Votes
  BY WaitingFrame, BecomesTasks, RunTyped

\* slashValidator() leaves a node typed.
LEMMA SlashSavedTyped ==
  ASSUME TypeOK, NEW n \in Nodes, SlashSaved(n)
  PROVE  TypeOK'
<1>1. PICK s \in Waiting(n, "saveSlashed") : Run(n, Becomes(n, s, Tail(s)))
  BY DEF SlashSaved
<1>2. UNCHANGED <<roundVars, lockVars, voteVars, chainVars, blockVars, mutex>>
  BY DEF SlashSaved
<1>3. /\ ballots' \subseteq Votes
      /\ DOMAIN tasks' = Nodes /\ \A m \in Nodes : IsTasks(tasks'[m])
  BY <1>1, WaitingFrame, ResumesTyped
<1> QED
  BY <1>2, <1>3 DEF TypeOK, roundVars, lockVars, voteVars, chainVars, blockVars

\* The end of handleTimeout() leaves a node typed.
LEMMA TimeoutVotedTyped ==
  ASSUME TypeOK, NEW n \in Nodes, TimeoutVoted(n)
  PROVE  TypeOK'
<1>1. PICK s \in Waiting(n, "setStep") :
        /\ step' = [step EXCEPT ![n] = Head(s).step]
        /\ timer' = [timer EXCEPT ![n] = TRUE]
        /\ Run(n, Becomes(n, s, Tail(s)))
  BY DEF TimeoutVoted
<1>2. UNCHANGED <<round, timeouts, lockVars, voteVars, chainVars, blockVars, mutex>>
  BY DEF TimeoutVoted
<1>3. Head(s) \in Frames /\ Head(s).op = "setStep"
  BY WaitingFrame
<1>4. Head(s).step \in Steps
  BY <1>3, FrameFields DEF VoteTypes, Steps
<1>5. step' \in [Nodes -> Steps] /\ timer' \in [Nodes -> BOOLEAN]
  BY <1>1, <1>4 DEF TypeOK
<1>6. /\ ballots' \subseteq Votes
      /\ DOMAIN tasks' = Nodes /\ \A m \in Nodes : IsTasks(tasks'[m])
  BY <1>1, WaitingFrame, ResumesTyped
<1> QED
  BY <1>2, <1>5, <1>6 DEF TypeOK, lockVars, voteVars, chainVars, blockVars

\* The timer leaves a node typed, whatever the step it fires in.
LEMMA TimeoutTyped ==
  ASSUME TypeOK, NEW n \in Nodes, Timeout(n)
  PROVE  TypeOK'
<1> DEFINE h == height[n] + 1
           r == round[n]
           Nils(ty) == <<Publish(NewVote(n, ty, Nil, h, r)), SetStep(ty)>>
<1>1. /\ timeouts' = timeouts + 1
      /\ UNCHANGED <<lockVars, voteVars, chainVars, blockVars, mutex>>
  BY DEF Timeout
<1>2. h \in Nat /\ r \in Nat /\ r + 1 \in Nat /\ IsTasks(tasks[n])
  BY DEF TypeOK
<1>3. state' \in [Nodes -> Seq(Payloads)]
  BY <1>1 DEF TypeOK, chainVars
<1>4. \/ EnterRound(n, h, r + 1, tasks[n])
      \/ /\ timer' = [timer EXCEPT ![n] = FALSE]
         /\ UNCHANGED <<round, step>>
         /\ \/ \E ty \in VoteTypes : Run(n, tasks[n] (+) Task(Nils(ty)))
            \/ Run(n, tasks[n])
            \/ UNCHANGED <<tasks, ballots>>
  BY DEF Timeout, VoteTypes
<1>5. ASSUME NEW ty \in VoteTypes PROVE IsTasks(tasks[n] (+) Task(Nils(ty)))
  <2>1. NewVote(n, ty, Nil, h, r) \in Votes
    BY <1>2, NodeVotes, NewVoteTyped
  <2>2. Publish(NewVote(n, ty, Nil, h, r)) \in Frames /\ SetStep(ty) \in Frames
    BY <2>1, FramesTyped
  <2>3. Nils(ty) \in Seq(Frames)
    BY <2>2
  <2> HIDE DEF Nils
  <2>4. IsTasks(Task(Nils(ty)))
    BY <2>3, TaskTasks
  <2> QED
    BY <1>2, <2>4, PlusTasks
<1> HIDE DEF Nils, h, r
<1>6. /\ round' \in [Nodes -> Nat] /\ step' \in [Nodes -> Steps]
      /\ timer' \in [Nodes -> BOOLEAN] /\ ballots' \subseteq Votes
      /\ DOMAIN tasks' = Nodes /\ \A m \in Nodes : IsTasks(tasks'[m])
  <2>1. CASE EnterRound(n, h, r + 1, tasks[n])
    BY <1>2, <1>3, <2>1, EnterRoundTyped
  <2>2. CASE /\ timer' = [timer EXCEPT ![n] = FALSE]
             /\ UNCHANGED <<round, step>>
             /\ \/ \E ty \in VoteTypes : Run(n, tasks[n] (+) Task(Nils(ty)))
                \/ Run(n, tasks[n])
                \/ UNCHANGED <<tasks, ballots>>
    <3>1. /\ round' \in [Nodes -> Nat] /\ step' \in [Nodes -> Steps]
          /\ timer' \in [Nodes -> BOOLEAN]
      BY <2>2 DEF TypeOK
    <3>2. CASE \E ty \in VoteTypes : Run(n, tasks[n] (+) Task(Nils(ty)))
      BY <1>5, <3>1, <3>2, RunTyped
    <3>3. CASE Run(n, tasks[n])
      BY <1>2, <3>1, <3>3, RunTyped
    <3>4. CASE UNCHANGED <<tasks, ballots>>
      BY <3>1, <3>4 DEF TypeOK
    <3> QED
      BY <2>2, <3>2, <3>3, <3>4
  <2> QED
    BY <1>4, <2>1, <2>2
<1> QED
  BY <1>1, <1>6 DEF TypeOK, lockVars, voteVars, chainVars, blockVars

\* A node that jumps to the round of a quorum stays typed.
LEMMA JumpToRoundTyped ==
  ASSUME TypeOK, NEW n \in Nodes, JumpToRound(n)
  PROVE  TypeOK'
<1>1. PICK s \in Waiting(n, "quorum") :
        EnterRound(n, Head(s).height, Head(s).round, tasks[n])
  BY DEF JumpToRound
<1>2. UNCHANGED <<lockVars, voteVars, chainVars, blockVars, mutex, timeouts>>
  BY DEF JumpToRound
<1>3. Head(s) \in Frames /\ Head(s).op = "quorum" /\ IsTasks(tasks[n])
  BY WaitingFrame
<1>4. Head(s).height \in Nat /\ Head(s).round \in Nat
  BY <1>3, FrameFields
<1>5. state' \in [Nodes -> Seq(Payloads)]
  BY <1>2 DEF TypeOK, chainVars
<1>6. /\ round' \in [Nodes -> Nat] /\ step' \in [Nodes -> Steps]
      /\ timer' \in [Nodes -> BOOLEAN] /\ ballots' \subseteq Votes
      /\ DOMAIN tasks' = Nodes /\ \A m \in Nodes : IsTasks(tasks'[m])
  BY <1>1, <1>3, <1>4, <1>5, EnterRoundTyped
<1> QED
  BY <1>2, <1>6 DEF TypeOK, lockVars, voteVars, chainVars, blockVars

\* A pass of the loop for each hash with a quorum, in some order, is on the stack
\* that checkQuorum() leaves.
LEMMA PassesTyped ==
  ASSUME TypeOK, NEW n \in Nodes, NEW h \in Nat, NEW r \in Nat,
         NEW ty \in VoteTypes, NEW q \in Orders(Decided(n, h, r, ty)),
         NEW t \in Seq(Frames)
  PROVE  /\ [i \in DOMAIN q |-> Quorum(h, r, ty, q[i])] \in Seq(Frames)
         /\ [i \in DOMAIN q |-> Quorum(h, r, ty, q[i])] \o t \in Seq(Frames)
<1> DEFINE D == Decided(n, h, r, ty)
           k == Cardinality(D)
<1>1. D \subseteq Blocks \cup {Nil}
  BY DecidedTyped
<1>2. q \in [1..k -> D]
  BY DEF Orders
<1>3. k \in Nat
  <2>1. IsFiniteSet(votes[n])
    BY DEF TypeOK
  <2>2. [v \in votes[n] |-> v.hash] \in Surjection(votes[n], {v.hash : v \in votes[n]})
    BY DEF Surjection
  <2>3. IsFiniteSet({v.hash : v \in votes[n]})
    BY <2>1, <2>2, FS_Surjection
  <2>4. D \subseteq {v.hash : v \in votes[n]}
    BY DEF Decided
  <2> QED
    BY <2>3, <2>4, FS_Subset, FS_CardinalityType
<1> HIDE DEF D, k
<1>4. \A i \in 1..k : Quorum(h, r, ty, q[i]) \in Frames
  BY <1>1, <1>2, FramesTyped
<1>5. [i \in DOMAIN q |-> Quorum(h, r, ty, q[i])] \in Seq(Frames)
  BY <1>2, <1>3, <1>4
<1> QED
  BY <1>5

\* A node that counts its votes stays typed.
LEMMA VotesCountedTyped ==
  ASSUME TypeOK, NEW n \in Nodes, VotesCounted(n)
  PROVE  TypeOK'
<1>1. PICK s \in Waiting(n, "checkQuorum") : VotesCounted(n)!(s)
  BY DEF VotesCounted
<1> DEFINE h == Head(s).height
           r == Head(s).round
           ty == Head(s).type
<1>2. PICK q \in Orders(Decided(n, h, r, ty)) :
        Run(n, Becomes(n, s, [i \in DOMAIN q |-> Quorum(h, r, ty, q[i])] \o Tail(s)))
  BY <1>1
<1>3. UNCHANGED <<roundVars, lockVars, voteVars, chainVars, blockVars, mutex>>
  BY <1>1
<1>4. /\ Head(s) \in Frames /\ Head(s).op = "checkQuorum"
      /\ Tail(s) \in Seq(Frames)
  BY WaitingFrame
<1>5. h \in Nat /\ r \in Nat /\ ty \in VoteTypes
  BY <1>4, FrameFields
<1> HIDE DEF h, r, ty
<1>6. [i \in DOMAIN q |-> Quorum(h, r, ty, q[i])] \o Tail(s) \in Seq(Frames)
  BY <1>4, <1>5, PassesTyped
<1>7. /\ ballots' \subseteq Votes
      /\ DOMAIN tasks' = Nodes /\ \A m \in Nodes : IsTasks(tasks'[m])
  BY <1>2, <1>6, ResumesTyped
<1> QED
  BY <1>3, <1>7 DEF TypeOK, roundVars, lockVars, voteVars, chainVars, blockVars

\* A node that precommits stays typed.
LEMMA PrecommitDecidedTyped ==
  ASSUME TypeOK, NEW n \in Nodes, PrecommitDecided(n)
  PROVE  TypeOK'
<1>1. PICK s \in Waiting(n, "quorum") : PrecommitDecided(n)!(s)
  BY DEF PrecommitDecided
<1> DEFINE h == Head(s).height
           r == Head(s).round
           hash == Head(s).hash
<1>2. /\ locked' = [locked EXCEPT ![n] = Lock(n, hash)]
      /\ Run(n, Becomes(n, s,
                <<Publish(NewVote(n, "PRECOMMIT", hash, h, r)),
                  CheckQuorum(h, r, "PRECOMMIT")>> \o Tail(s)))
  BY <1>1
<1>3. /\ step' = [step EXCEPT ![n] = "PRECOMMIT"]
      /\ timer' = [timer EXCEPT ![n] = TRUE]
      /\ UNCHANGED <<round, timeouts, pending, voteVars, chainVars, blockVars, mutex>>
  BY <1>1
<1>4. /\ Head(s) \in Frames /\ Head(s).op = "quorum"
      /\ Tail(s) \in Seq(Frames)
  BY WaitingFrame
<1>5. h \in Nat /\ r \in Nat /\ hash \in Blocks \cup {Nil}
  BY <1>4, FrameFields
<1> HIDE DEF h, r, hash
<1>6. /\ Publish(NewVote(n, "PRECOMMIT", hash, h, r)) \in Frames
      /\ CheckQuorum(h, r, "PRECOMMIT") \in Frames
  BY <1>5, NodeVotes, NewVoteTyped, FramesTyped DEF VoteTypes
<1>7. <<Publish(NewVote(n, "PRECOMMIT", hash, h, r)),
        CheckQuorum(h, r, "PRECOMMIT")>> \o Tail(s) \in Seq(Frames)
  BY <1>4, <1>6
<1>8. /\ ballots' \subseteq Votes
      /\ DOMAIN tasks' = Nodes /\ \A m \in Nodes : IsTasks(tasks'[m])
  BY <1>2, <1>7, ResumesTyped
<1>9. Lock(n, hash) \in Blocks \cup {Nil}
  BY <1>5 DEF Lock, TypeOK
<1>10. /\ step' \in [Nodes -> Steps] /\ timer' \in [Nodes -> BOOLEAN]
       /\ locked' \in [Nodes -> Blocks \cup {Nil}]
  BY <1>2, <1>3, <1>9 DEF TypeOK, Steps
<1> QED
  BY <1>3, <1>8, <1>10 DEF TypeOK, voteVars, chainVars, blockVars

\* commitBlock() leaves the mutex and the tasks typed.
LEMMA CommitBlockTyped ==
  ASSUME TypeOK, NEW n \in Nodes, NEW op, NEW s \in Waiting(n, op),
         NEW b \in Blocks, commitBlock(n, b, s)
  PROVE  /\ mutex' \in [Nodes -> BOOLEAN]
         /\ DOMAIN tasks' = Nodes
         /\ \A m \in Nodes : IsTasks(tasks'[m])
         /\ ballots' \subseteq Votes
<1>1. Tail(s) \in Seq(Frames) /\ Commit(b) \in Frames
  BY WaitingFrame, FramesTyped
<1>2. <<Commit(b)>> \o Tail(s) \in Seq(Frames)
  BY <1>1, PushTyped
<1>3. PICK t \in Seq(Frames) : Run(n, Becomes(n, s, t))
  BY <1>1, <1>2 DEF commitBlock
<1>4. mutex' \in [Nodes -> BOOLEAN]
  BY DEF commitBlock, TypeOK
<1> QED
  BY <1>3, <1>4, ResumesTyped

\* A node that calls commitBlock() stays typed.
LEMMA CommitDecidedTyped ==
  ASSUME TypeOK, NEW n \in Nodes, CommitDecided(n)
  PROVE  TypeOK'
<1>1. PICK s \in Waiting(n, "quorum") : CommitDecided(n)!(s)
  BY DEF CommitDecided
<1> DEFINE b == Head(s).hash
<1>2. b \in Blocks
  BY <1>1 DEF TypeOK
<1>3. UNCHANGED <<roundVars, lockVars, voteVars, chainVars, blockVars>>
  BY <1>1
<1>4. \/ /\ Run(n, Becomes(n, s, <<AwaitCommit(b)>> \o Tail(s)))
         /\ UNCHANGED mutex
      \/ commitBlock(n, b, s)
  BY <1>1
<1> HIDE DEF b
<1>5. /\ mutex' \in [Nodes -> BOOLEAN] /\ ballots' \subseteq Votes
      /\ DOMAIN tasks' = Nodes /\ \A m \in Nodes : IsTasks(tasks'[m])
  <2>1. CASE /\ Run(n, Becomes(n, s, <<AwaitCommit(b)>> \o Tail(s)))
             /\ UNCHANGED mutex
    <3>1. Tail(s) \in Seq(Frames) /\ AwaitCommit(b) \in Frames
      BY <1>2, WaitingFrame, FramesTyped
    <3>2. <<AwaitCommit(b)>> \o Tail(s) \in Seq(Frames)
      BY <3>1, PushTyped
    <3>3. mutex' \in [Nodes -> BOOLEAN]
      BY <2>1 DEF TypeOK
    <3> QED
      BY <2>1, <3>2, <3>3, ResumesTyped
  <2>2. CASE commitBlock(n, b, s)
    BY <1>2, <2>2, CommitBlockTyped
  <2> QED
    BY <1>4, <2>1, <2>2
<1> QED
  BY <1>3, <1>5 DEF TypeOK, roundVars, lockVars, voteVars, chainVars, blockVars

\* A node that goes to the next round on a nil quorum stays typed.
LEMMA NilDecidedTyped ==
  ASSUME TypeOK, NEW n \in Nodes, NilDecided(n)
  PROVE  TypeOK'
<1>1. PICK s \in Waiting(n, "quorum") :
        EnterRound(n, height[n] + 1, round[n] + 1, Becomes(n, s, Tail(s)))
  BY DEF NilDecided
<1>2. UNCHANGED <<lockVars, voteVars, chainVars, blockVars, mutex, timeouts>>
  BY DEF NilDecided
<1>3. IsTasks(Becomes(n, s, Tail(s)))
  BY WaitingFrame, BecomesTasks
<1>4. height[n] + 1 \in Nat /\ round[n] + 1 \in Nat
  BY DEF TypeOK
<1>5. state' \in [Nodes -> Seq(Payloads)]
  BY <1>2 DEF TypeOK, chainVars
<1>6. /\ round' \in [Nodes -> Nat] /\ step' \in [Nodes -> Steps]
      /\ timer' \in [Nodes -> BOOLEAN] /\ ballots' \subseteq Votes
      /\ DOMAIN tasks' = Nodes /\ \A m \in Nodes : IsTasks(tasks'[m])
  BY <1>1, <1>3, <1>4, <1>5, EnterRoundTyped
<1> QED
  BY <1>2, <1>6 DEF TypeOK, lockVars, voteVars, chainVars, blockVars

\* A node whose quorum decides nothing stays typed.
LEMMA NothingDecidedTyped ==
  ASSUME TypeOK, NEW n \in Nodes, NothingDecided(n)
  PROVE  TypeOK'
<1>1. PICK s \in Waiting(n, "quorum") : Run(n, Becomes(n, s, Tail(s)))
  BY DEF NothingDecided
<1>2. UNCHANGED <<roundVars, lockVars, voteVars, chainVars, blockVars, mutex>>
  BY DEF NothingDecided
<1>3. /\ ballots' \subseteq Votes
      /\ DOMAIN tasks' = Nodes /\ \A m \in Nodes : IsTasks(tasks'[m])
  BY <1>1, WaitingFrame, ResumesTyped
<1> QED
  BY <1>2, <1>3 DEF TypeOK, roundVars, lockVars, voteVars, chainVars, blockVars

\* A commit that gets the mutex at last leaves the node typed.
LEMMA CommitLockedTyped ==
  ASSUME TypeOK, NEW n \in Nodes, CommitLocked(n)
  PROVE  TypeOK'
<1>1. PICK s \in Waiting(n, "awaitCommit") :
        /\ commitBlock(n, Head(s).block, s)
        /\ UNCHANGED <<roundVars, lockVars, voteVars, chainVars, blockVars>>
  BY DEF CommitLocked
<1>2. Head(s).block \in Blocks
  BY WaitingFrame, FrameFields
<1>3. /\ mutex' \in [Nodes -> BOOLEAN] /\ ballots' \subseteq Votes
      /\ DOMAIN tasks' = Nodes /\ \A m \in Nodes : IsTasks(tasks'[m])
  BY <1>1, <1>2, CommitBlockTyped
<1> QED
  BY <1>1, <1>3 DEF TypeOK, roundVars, lockVars, voteVars, chainVars, blockVars

\* Saving a block leaves all typed but the state and the failures, which its
\* caller sets.
LEMMA SaveBlockTyped ==
  ASSUME TypeOK, NEW n \in Nodes, NEW s \in Waiting(n, "commit"),
         SaveBlock(n, s), state' \in [Nodes -> Seq(Payloads)], failures' \in Nat
  PROVE  TypeOK'
<1> DEFINE b    == Head(s).block
           next == StartRound(b.height + 1)
<1>1. /\ s \in Seq(Frames) \ {<<>>} /\ Head(s) \in Frames
      /\ Head(s).op = "commit" /\ Tail(s) \in Seq(Frames) /\ IsTasks(tasks[n])
  BY WaitingFrame
<1>2. b \in Blocks
  BY <1>1, FrameFields
<1>3. b.height \in Nat /\ b.height + 1 \in Nat
  BY <1>2 DEF Blocks
<1>4. /\ chain'  = [chain EXCEPT ![n] = Append(@, b)]
      /\ height' = [height EXCEPT ![n] = b.height]
      /\ Run(n, Becomes(n, s, Tail(s)) (+) Task(<<next>>))
      /\ step'    = [step EXCEPT ![n] = "COMMIT"]
      /\ locked'  = [locked EXCEPT ![n] = Nil]
      /\ pending' = [pending EXCEPT ![n] = {}]
      /\ mutex'   = [mutex EXCEPT ![n] = FALSE]
      /\ UNCHANGED <<round, timer, timeouts, voteVars, blockVars>>
  BY DEF SaveBlock
<1>5. next \in Frames
  BY <1>3, FramesTyped
<1> HIDE DEF b, next
<1>6. IsTasks(Becomes(n, s, Tail(s)) (+) Task(<<next>>))
  BY <1>1, <1>5, BecomesTasks, FrameTask, PlusTasks
<1>7. /\ ballots' \subseteq Votes
      /\ DOMAIN tasks' = Nodes /\ \A m \in Nodes : IsTasks(tasks'[m])
  BY <1>4, <1>6, RunTyped
<1>8. chain' \in [Nodes -> Seq(Blocks)]
  <2>1. chain \in [Nodes -> Seq(Blocks)]
    BY DEF TypeOK
  <2> QED
    BY <1>2, <1>4, <2>1
<1>9. /\ height' \in [Nodes -> Nat] /\ step' \in [Nodes -> Steps]
      /\ locked' \in [Nodes -> Blocks \cup {Nil}]
      /\ pending' \in [Nodes -> SUBSET Blocks] /\ mutex' \in [Nodes -> BOOLEAN]
  BY <1>3, <1>4 DEF TypeOK, Steps
<1> QED
  BY <1>4, <1>7, <1>8, <1>9 DEF TypeOK, voteVars, blockVars

\* Executing the payload of a block leaves the state typed.
LEMMA StateTyped ==
  ASSUME TypeOK, NEW n \in Nodes, NEW s \in Waiting(n, "commit"),
         state' = [state EXCEPT ![n] = Append(@, Payload(Head(s).block))]
  PROVE  state' \in [Nodes -> Seq(Payloads)]
<1>1. Head(s) \in Frames /\ Head(s).op = "commit"
  BY WaitingFrame
<1>2. Payload(Head(s).block) \in Payloads
  BY <1>1, FrameFields, PayloadTyped
<1>3. state \in [Nodes -> Seq(Payloads)]
  BY DEF TypeOK
<1> QED
  BY <1>2, <1>3

\* A commit, with or without its execution, leaves the node typed.
LEMMA BlockCommittedTyped ==
  ASSUME TypeOK, NEW n \in Nodes, BlockCommitted(n) \/ ExecutionFailed(n)
  PROVE  TypeOK'
<1>1. CASE BlockCommitted(n)
  BY <1>1, StateTyped, SaveBlockTyped, ZenonT(40) DEF BlockCommitted, TypeOK
<1>2. CASE ExecutionFailed(n)
  <2>1. PICK s \in Waiting(n, "commit") : SaveBlock(n, s)
    BY <1>2 DEF ExecutionFailed
  <2>2. state' \in [Nodes -> Seq(Payloads)] /\ failures' \in Nat
    BY <1>2 DEF ExecutionFailed, TypeOK
  <2> QED
    BY <2>1, <2>2, SaveBlockTyped
<1> QED
  BY <1>1, <1>2

\* A commit that throws leaves the node typed.
LEMMA CommitFailedTyped ==
  ASSUME TypeOK, NEW n \in Nodes, CommitFailed(n)
  PROVE  TypeOK'
<1>1. PICK s \in Waiting(n, "commit") :
        /\ \/ UNCHANGED state
           \/ state' = [state EXCEPT ![n] = Append(@, Payload(Head(s).block))]
        /\ EnterRound(n, height[n] + 1, round[n] + 1, Becomes(n, s, Tail(s)))
  BY DEF CommitFailed
<1>2. /\ failures' = failures + 1
      /\ mutex' = [mutex EXCEPT ![n] = FALSE]
      /\ UNCHANGED <<lockVars, voteVars, height, chain, blockVars, timeouts>>
  BY DEF CommitFailed
<1>3. state' \in [Nodes -> Seq(Payloads)]
  <2>1. CASE UNCHANGED state
    BY <2>1 DEF TypeOK
  <2>2. CASE state' = [state EXCEPT ![n] = Append(@, Payload(Head(s).block))]
    BY <2>2, StateTyped
  <2> QED
    BY <1>1, <2>1, <2>2
<1>4. IsTasks(Becomes(n, s, Tail(s)))
  BY WaitingFrame, BecomesTasks
<1>5. height[n] + 1 \in Nat /\ round[n] + 1 \in Nat
  BY DEF TypeOK
<1>6. /\ round' \in [Nodes -> Nat] /\ step' \in [Nodes -> Steps]
      /\ timer' \in [Nodes -> BOOLEAN] /\ ballots' \subseteq Votes
      /\ DOMAIN tasks' = Nodes /\ \A m \in Nodes : IsTasks(tasks'[m])
  BY <1>1, <1>3, <1>4, <1>5, EnterRoundTyped
<1>7. failures' \in Nat /\ mutex' \in [Nodes -> BOOLEAN]
  BY <1>2 DEF TypeOK
<1> QED
  BY <1>2, <1>3, <1>6, <1>7 DEF TypeOK, lockVars, voteVars, blockVars

\* What the other validators publish is typed.
LEMMA PeerStepTyped ==
  ASSUME TypeOK, NEW p \in Peers, PeerStep(p)
  PROVE  TypeOK'
<1>1. PICK h \in 1..MaxHeight, r \in PeerRounds :
        PeerProposes(p, h, r) \/ PeerPrevotes(p, h, r) \/ PeerPrecommits(p, h, r)
  BY DEF PeerStep
<1>2. h \in Nat /\ r \in Nat /\ p \in Voters
  BY BoundAssumption DEF Voters
<1>3. CASE PeerProposes(p, h, r)
  <2>1. PICK n \in Nodes, q \in [coinbase : {p}, txs : TxBatches] \cup
                               {Payload(b) : b \in PeerLocks(p, h, r)} :
          blocks' = blocks \cup {NewBlock(p, h, r, Append(state[n], q))}
    BY <1>3 DEF PeerProposes
  <2>2. PeerLocks(p, h, r) \subseteq Blocks
    BY DEF PeerLocks, TypeOK, Votes
  <2>3. q \in Payloads
    <3>1. CASE q \in [coinbase : {p}, txs : TxBatches]
      BY <1>2, <3>1 DEF Payloads
    <3>2. CASE q \in {Payload(b) : b \in PeerLocks(p, h, r)}
      BY <2>2, <3>2, PayloadTyped
    <3> QED
      BY <3>1, <3>2
  <2>4. Append(state[n], q) \in Seq(Payloads) \ {<<>>}
    <3>1. state[n] \in Seq(Payloads)
      BY DEF TypeOK
    <3> QED
      BY <2>3, <3>1
  <2>5. NewBlock(p, h, r, Append(state[n], q)) \in Blocks
    BY <1>2, <2>4, NewBlockTyped
  <2>6. blocks' \subseteq Blocks /\ IsFiniteSet(blocks')
    BY <2>1, <2>5, FS_AddElement DEF TypeOK
  <2>7. UNCHANGED <<roundVars, lockVars, voteVars, chainVars, mutex, tasks,
                    ballots, seen>>
    BY <1>3 DEF PeerProposes
  <2> QED
    BY <2>6, <2>7 DEF TypeOK, roundVars, lockVars, voteVars, chainVars
<1>4. CASE PeerPrevotes(p, h, r) \/ PeerPrecommits(p, h, r)
  <2>1. PICK hash \in blocks \cup {Nil}, ty \in VoteTypes :
          Publishes(NewVote(p, ty, hash, h, r))
    BY <1>4 DEF PeerPrevotes, PeerPrecommits, VoteTypes
  <2>2. hash \in Blocks \cup {Nil}
    BY DEF TypeOK
  <2>3. NewVote(p, ty, hash, h, r) \in Votes
    BY <1>2, <2>2, NewVoteTyped
  <2> QED
    BY <2>1, <2>3 DEF Publishes, TypeOK, roundVars, lockVars, voteVars,
                      chainVars, blockVars
<1> QED
  BY <1>1, <1>3, <1>4

\* The engine starts typed: its one task is the startRound(1, 0) of start().
LEMMA InitTyped ==
  ASSUME Init
  PROVE  TypeOK
<1>1. StartRound(1) \in Frames
  BY FramesTyped
<1>2. IsTasks(Task(<<StartRound(1)>>))
  BY <1>1, FrameTask
<1>3. IsFiniteSet(blocks)
  BY FS_EmptySet DEF Init
<1> QED
  BY <1>2, <1>3 DEF Init, TypeOK, Steps

\* Every step keeps the types.
LEMMA NextTyped ==
  ASSUME TypeOK, [Next]_vars
  PROVE  TypeOK'
<1>1. ASSUME NEW n \in Nodes, NodeStep(n) PROVE TypeOK'
  BY <1>1, StartRoundZeroTyped, ProposalExecutedTyped, ProposalPublishedTyped,
     ReceiveBlockTyped, BlockExecutedTyped, VotePublishedTyped,
     ReceiveVoteTyped, SlashSavedTyped, TimeoutTyped, TimeoutVotedTyped,
     VotesCountedTyped, JumpToRoundTyped, PrecommitDecidedTyped, CommitDecidedTyped,
     NilDecidedTyped, NothingDecidedTyped, CommitLockedTyped,
     BlockCommittedTyped, CommitFailedTyped DEF NodeStep
<1>2. ASSUME NEW p \in Peers, PeerStep(p) PROVE TypeOK'
  BY <1>2, PeerStepTyped
<1>3. CASE UNCHANGED vars
  BY <1>3 DEF TypeOK, vars, roundVars, lockVars, voteVars, chainVars, blockVars
<1> QED
  BY <1>1, <1>2, <1>3 DEF Next

\* Every field of the engine keeps its type, for every set of nodes and peers,
\* every list of validators and however long the engine runs: what a handler
\* finds when it resumes is always a frame that it left.
THEOREM TypeCorrect == Spec => []TypeOK
<1>1. Init => TypeOK
  BY InitTyped
<1>2. TypeOK /\ [Next]_vars => TypeOK'
  BY NextTyped
<1> QED
  BY <1>1, <1>2, PTL DEF Spec

-----------------------------------------------------------------------------
(* Quorums.                                                                *)

\* There are no more validators than entries in their list.
LEMMA ValidatorsFinite ==
  IsFiniteSet(Validators) /\ Cardinality(Validators) <= Len(ValidatorList)
<1>1. /\ Len(ValidatorList) \in Nat
      /\ DOMAIN ValidatorList = 1..Len(ValidatorList)
  BY ValidatorAssumption
<1>2. ValidatorList \in [DOMAIN ValidatorList -> Validators]
  BY ValidatorAssumption DEF Validators
<1>3. ValidatorList \in Surjection(1..Len(ValidatorList), Validators)
  BY <1>1, <1>2 DEF Surjection, Validators
<1>4. ExistsSurjection(1..Len(ValidatorList), Validators)
  BY <1>3 DEF ExistsSurjection
<1> QED
  BY <1>1, <1>4, FS_NatSurjection, FS_SurjCardinalityBound

\* There are finitely many voters, those outside the list included.
LEMMA VotersFinite == IsFiniteSet(Voters)
<1>1. IsFiniteSet(Validators \cup (Nodes \cup Peers))
  BY ValidatorAssumption, ValidatorsFinite, FS_Union
<1>2. Validators \cup (Nodes \cup Peers) = Voters
  BY DEF Voters
<1> QED
  BY <1>1, <1>2

\* So there are finitely many voters for a hash.
LEMMA VotersForFinite ==
  ASSUME NEW pool \in SUBSET Votes, NEW h, NEW r, NEW ty, NEW hash
  PROVE  /\ VotersFor(pool, h, r, ty, hash) \subseteq Voters
         /\ IsFiniteSet(VotersFor(pool, h, r, ty, hash))
         /\ Cardinality(VotersFor(pool, h, r, ty, hash)) \in Nat
<1>1. VotersFor(pool, h, r, ty, hash) \subseteq Voters
  BY DEF VotersFor, Votes
<1> QED
  BY <1>1, VotersFinite, FS_Subset, FS_CardinalityType

\* Two quorums without a voter in common need voters outside the list, more
\* than a third of its length: getQuorum() rounds down, but the comparison
\* leaves no room for less.
LEMMA DisjointQuorums ==
  ASSUME NEW A \in SUBSET Voters, NEW B \in SUBSET Voters,
         Power * Cardinality(A) >= getQuorum,
         Power * Cardinality(B) >= getQuorum,
         A \cap B = {}
  PROVE  3 * Cardinality((A \cup B) \ Validators) > Len(ValidatorList)
<1> DEFINE U == A \cup B
           N == Len(ValidatorList)
           a == Cardinality(A)
           b == Cardinality(B)
           i == Cardinality(U \cap Validators)
           o == Cardinality(U \ Validators)
<1>1. N \in Nat
  BY ValidatorAssumption
<1>2. IsFiniteSet(A) /\ IsFiniteSet(B) /\ IsFiniteSet(U)
  BY VotersFinite, FS_Subset
<1>3. IsFiniteSet(U \cap Validators) /\ IsFiniteSet(U \ Validators)
  BY <1>2, FS_Subset
<1>4. a \in Nat /\ b \in Nat /\ i \in Nat /\ o \in Nat
  BY <1>2, <1>3, FS_CardinalityType
<1>5. Cardinality(U) = a + b
  <2>1. Cardinality(A \cap B) = 0
    BY FS_EmptySet
  <2>2. Cardinality(U) = a + b - Cardinality(A \cap B)
    BY <1>2, FS_Union
  <2> QED
    BY <1>4, <2>1, <2>2
<1>6. Cardinality(U) = i + o
  <2>1. /\ (U \cap Validators) \cup (U \ Validators) = U
        /\ (U \cap Validators) \cap (U \ Validators) = {}
    OBVIOUS
  <2>2. Cardinality({}) = 0
    BY FS_EmptySet
  <2>3. Cardinality((U \cap Validators) \cup (U \ Validators))
          = i + o - Cardinality((U \cap Validators) \cap (U \ Validators))
    BY <1>3, FS_Union
  <2>4. Cardinality(U) = i + o - 0
    BY <2>1, <2>2, <2>3
  <2> HIDE DEF i, o
  <2> QED
    BY <1>4, <2>4
<1>7. i <= N
  <2>1. i <= Cardinality(Validators) /\ Cardinality(Validators) \in Nat
    BY ValidatorsFinite, FS_Subset, FS_CardinalityType
  <2> QED
    BY <1>1, <1>4, <2>1, ValidatorsFinite
<1>8. 10 * a >= ((N * 10 * 2) \div 3) + 1 /\ 10 * b >= ((N * 10 * 2) \div 3) + 1
  BY DEF getQuorum, Power
<1> HIDE DEF a, b, i, o, N
<1>9. N * 10 * 2 = 20 * N
  BY <1>1
<1>10. 3 * ((20 * N) \div 3) >= 20 * N - 2
  BY <1>1
<1>11. 3 * o > N
  BY <1>1, <1>4, <1>5, <1>6, <1>7, <1>8, <1>9, <1>10
<1> QED
  BY <1>11 DEF o, N

-----------------------------------------------------------------------------
(* One vote for each voter, height, round and type.                        *)

\* handleVote() keeps the first vote of a voter, and no second one.
OneVote ==
  \A n \in Nodes : \A u, v \in votes[n] :
    /\ u.validator = v.validator
    /\ u.height = v.height
    /\ u.round = v.round
    /\ u.type = v.type
    => u = v

\* A step adds at most one vote to a node, and only where there was none.
LEMMA VotesStep ==
  ASSUME TypeOK, [Next]_vars, NEW n \in Nodes
  PROVE  \/ votes'[n] = votes[n]
         \/ \E v \in Votes : /\ Existing(n, v) = {}
                             /\ votes'[n] = votes[n] \cup {v}
<1>1. ASSUME NEW m \in Nodes, NEW v \in Votes, NEW others, NEW rest,
             HandleVote(m, v, others, rest)
      PROVE  \/ votes'[n] = votes[n]
             \/ Existing(n, v) = {} /\ votes'[n] = votes[n] \cup {v}
  <2>1. \/ votes' = votes
        \/ /\ Existing(m, v) = {}
           /\ votes' = [votes EXCEPT ![m] = @ \cup {v}]
    BY <1>1 DEF HandleVote, voteVars
  <2> QED
    BY <2>1 DEF TypeOK
<1>2. ASSUME NEW m \in Nodes, NodeStep(m),
             ~VotePublished(m), ~ReceiveVote(m)
      PROVE  votes' = votes
  BY <1>2 DEF NodeStep, StartRoundZero, ProposalExecuted, ProposalPublished,
     BlockExecuted, SlashSaved, TimeoutVoted, VotesCounted, JumpToRound,
     PrecommitDecided,
     CommitDecided, NilDecided, NothingDecided, CommitLocked, BlockCommitted,
     ExecutionFailed, CommitFailed, SaveBlock, ReceiveBlock, Timeout, voteVars
<1>3. ASSUME NEW m \in Nodes, VotePublished(m)
      PROVE  \E v \in Votes : \E others, rest : HandleVote(m, v, others, rest)
  <2>1. PICK s \in Waiting(m, "publish") :
          HandleVote(m, Head(s).vote, tasks[m] (-) SetToBag({s}), Tail(s))
    BY <1>3 DEF VotePublished
  <2>2. Head(s).vote \in Votes
    BY WaitingFrame, FrameFields
  <2> QED
    BY <2>1, <2>2
<1>4. ASSUME NEW m \in Nodes, ReceiveVote(m)
      PROVE  \E v \in Votes : \E others, rest : HandleVote(m, v, others, rest)
  <2>1. ballots \subseteq Votes
    BY DEF TypeOK
  <2> QED
    BY <1>4, <2>1 DEF ReceiveVote
<1>5. ASSUME NEW p \in Peers, PeerStep(p)
      PROVE  votes' = votes
  BY <1>5 DEF PeerStep, PeerProposes, PeerPrevotes, PeerPrecommits, Publishes,
     voteVars
<1>6. CASE UNCHANGED vars
  BY <1>6 DEF vars, voteVars
<1> QED
  BY <1>1, <1>2, <1>3, <1>4, <1>5, <1>6 DEF Next

\* At the start there are no votes.
LEMMA OneVoteInit == Init => OneVote
  BY DEF Init, OneVote

\* No step gives a node a second vote of a validator.
LEMMA OneVoteStep == TypeOK /\ OneVote /\ [Next]_vars => OneVote'
<1> SUFFICES ASSUME TypeOK, OneVote, [Next]_vars, NEW n \in Nodes,
                    NEW u \in votes'[n], NEW v \in votes'[n],
                    u.validator = v.validator, u.height = v.height,
                    u.round = v.round, u.type = v.type
             PROVE  u = v
  BY DEF OneVote
<1>1. CASE votes'[n] = votes[n]
  BY <1>1 DEF OneVote
<1>2. CASE \E w \in Votes : Existing(n, w) = {} /\ votes'[n] = votes[n] \cup {w}
  <2>1. PICK w \in Votes : /\ Existing(n, w) = {}
                           /\ votes'[n] = votes[n] \cup {w}
    BY <1>2
  <2>2. CASE u \in votes[n] /\ v \in votes[n]
    BY <2>2 DEF OneVote
  <2>3. CASE u = w \/ v = w
    BY <2>1, <2>3 DEF Existing
  <2> QED
    BY <2>1, <2>2, <2>3
<1> QED
  BY <1>1, <1>2, VotesStep

\* A node that has one vote of each voter sees two quorums only when enough of
\* those outside the list voted.
LEMMA TwoQuorums ==
  ASSUME TypeOK, OneVote, NEW n \in Nodes, NEW h, NEW r, NEW ty,
         NEW a \in Decided(n, h, r, ty), NEW b \in Decided(n, h, r, ty), a # b
  PROVE  3 * Cardinality(Outsiders(n, h, r, ty)) > Len(ValidatorList)
<1> DEFINE A == VotersFor(votes[n], h, r, ty, a)
           B == VotersFor(votes[n], h, r, ty, b)
           O == Outsiders(n, h, r, ty)
<1>1. votes[n] \in SUBSET Votes
  BY DEF TypeOK
<1>2. A \subseteq Voters /\ B \subseteq Voters
  BY <1>1, VotersForFinite
<1>3. Power * Cardinality(A) >= getQuorum /\ Power * Cardinality(B) >= getQuorum
  BY DEF Decided, HasQuorum
<1>4. A \cap B = {}
  <2> SUFFICES ASSUME NEW p \in A, p \in B PROVE FALSE
    OBVIOUS
  <2>1. PICK u \in votes[n] : /\ u.validator = p /\ u.hash = a
                              /\ u.height = h /\ u.round = r /\ u.type = ty
    BY DEF VotersFor
  <2>2. PICK v \in votes[n] : /\ v.validator = p /\ v.hash = b
                              /\ v.height = h /\ v.round = r /\ v.type = ty
    BY DEF VotersFor
  <2> QED
    BY <2>1, <2>2 DEF OneVote
<1>5. 3 * Cardinality((A \cup B) \ Validators) > Len(ValidatorList)
  BY <1>2, <1>3, <1>4, DisjointQuorums
<1>6. (A \cup B) \ Validators \subseteq O
  BY DEF VotersFor, Outsiders
<1>7. O \subseteq Voters
  BY <1>1 DEF Outsiders, Votes
<1>8. /\ Cardinality((A \cup B) \ Validators) <= Cardinality(O)
      /\ Cardinality((A \cup B) \ Validators) \in Nat /\ Cardinality(O) \in Nat
  BY <1>6, <1>7, VotersFinite, FS_Subset, FS_CardinalityType
<1>9. Len(ValidatorList) \in Nat
  BY ValidatorAssumption
<1> HIDE DEF A, B, O
<1>10. 3 * Cardinality(O) > Len(ValidatorList)
  BY <1>5, <1>8, <1>9
<1> QED
  BY <1>10 DEF O

\* The loop of checkQuorum() finds two hashes with a quorum for one height,
\* round and type only when more than a third of the list's length of voters
\* outside the list took part; without them it decides at most once, whoever
\* votes twice.
THEOREM Decision == Spec => []OneDecision
<1>1. Init => OneVote
  BY OneVoteInit
<1>2. TypeOK /\ OneVote /\ [Next]_vars => OneVote'
  BY OneVoteStep
<1>3. TypeOK /\ OneVote => OneDecision
  BY TwoQuorums DEF OneDecision
<1> QED
  BY <1>1, <1>2, <1>3, TypeCorrect, PTL DEF Spec

-----------------------------------------------------------------------------
(* What the suspended handlers may publish.                                *)

\* A pass of checkQuorum() for a hash is left only when n has a quorum for it.
Counted(n, f) ==
  f.op = "quorum" => HasQuorum(votes[n], f.height, f.round, f.type, f.hash)

\* Frames that wait for nothing: what a handler does after the call on top.
Quick(n, t) ==
  \A i \in DOMAIN t : /\ t[i].op \in {"checkQuorum", "quorum", "setStep"}
                       /\ Counted(n, t[i])

\* If v is a precommit of a node for a block, that node has the prevotes.
Backed(v) ==
  v.validator \in Nodes /\ v.type = "PRECOMMIT" /\ v.hash # Nil =>
    HasQuorum(votes[v.validator], v.height, v.round, "PREVOTE", v.hash)

\* Only the frame on top waits, a pass has its quorum, and a vote being
\* published is backed.
Fits(n, s) ==
  /\ Quick(n, Tail(s))
  /\ Counted(n, Head(s))
  /\ Head(s).op = "publish" => Backed(Head(s).vote)

TasksFit(n, bag) == \A s \in DOMAIN bag : Fits(n, s)

AllFit == \A n \in Nodes : TasksFit(n, tasks[n])

\* The tasks of a union of bags fit if those of both do.
LEMMA FitPlus ==
  ASSUME NEW n, NEW A, NEW B, TasksFit(n, A), TasksFit(n, B)
  PROVE  TasksFit(n, A (+) B)
<1>1. DOMAIN (A (+) B) = DOMAIN A \cup DOMAIN B
  BY PlusDomain
<1> QED
  BY <1>1 DEF TasksFit

\* Taking a task out of a bag leaves tasks that fit.
LEMMA FitMinus ==
  ASSUME NEW n, NEW A, NEW s, TasksFit(n, A)
  PROVE  TasksFit(n, A (-) SetToBag({s}))
  BY MinusDomain DEF TasksFit

\* One frame pushed on frames that wait for nothing fits, if its vote is backed.
LEMMA FitPush ==
  ASSUME NEW n, NEW f \in Frames, NEW t \in Seq(Frames), Quick(n, t),
         f.op = "publish" => Backed(f.vote), f.op # "quorum"
  PROVE  TasksFit(n, Task(<<f>> \o t))
<1>1. <<f>> \o t \in Seq(Frames) \ {<<>>}
  OBVIOUS
<1>2. Head(<<f>> \o t) = f /\ Tail(<<f>> \o t) = t
  OBVIOUS
<1>3. Fits(n, <<f>> \o t)
  BY <1>2 DEF Fits, Counted
<1>4. DOMAIN Task(<<f>> \o t) \subseteq {<<f>> \o t}
  BY TaskDomain
<1> QED
  BY <1>3, <1>4 DEF TasksFit

\* Frames that wait for nothing fit: the handler goes on with them.
LEMMA FitQuick ==
  ASSUME NEW n, NEW t \in Seq(Frames), Quick(n, t)
  PROVE  TasksFit(n, Task(t)) /\ (t # <<>> => Fits(n, t))
<1>1. CASE t = <<>>
  BY <1>1, TaskDomain DEF TasksFit
<1>2. CASE t # <<>>
  <2>1. Head(t) = t[1] /\ 1 \in DOMAIN t
    BY <1>2
  <2>2. Head(t).op # "publish" /\ Counted(n, Head(t))
    BY <2>1 DEF Quick
  <2>3. /\ Tail(t) \in Seq(Frames)
        /\ \A i \in DOMAIN Tail(t) : Tail(t)[i] = t[i+1] /\ i + 1 \in DOMAIN t
    BY <1>2
  <2>4. Quick(n, Tail(t))
    BY <2>3 DEF Quick
  <2>5. Fits(n, t)
    BY <2>2, <2>4 DEF Fits
  <2>6. DOMAIN Task(t) \subseteq {t}
    BY TaskDomain
  <2> QED
    BY <2>5, <2>6 DEF TasksFit
<1> QED
  BY <1>1, <1>2

\* Pushing a frame that does not wait keeps the frames quick.
LEMMA QuickPush ==
  ASSUME NEW n, NEW f \in Frames, NEW t \in Seq(Frames), Quick(n, t),
         f.op \in {"checkQuorum", "setStep"}
  PROVE  Quick(n, <<f>> \o t)
<1>1. \A i \in DOMAIN (<<f>> \o t) :
         (<<f>> \o t)[i] = f \/ \E j \in DOMAIN t : (<<f>> \o t)[i] = t[j]
  OBVIOUS
<1> QED
  BY <1>1 DEF Quick, Counted

\* A handler that goes on with tasks that fit.
LEMMA FitBecomes ==
  ASSUME AllFit, NEW n \in Nodes, NEW s, NEW t, TasksFit(n, Task(t))
  PROVE  TasksFit(n, Becomes(n, s, t))
  BY FitMinus, FitPlus DEF Becomes, AllFit

\* What is below the frame on top of a suspended handler waits for nothing.
LEMMA WaitingQuick ==
  ASSUME AllFit, NEW n \in Nodes, NEW op, NEW s \in Waiting(n, op)
  PROVE  Quick(n, Tail(s))
  BY DEF AllFit, TasksFit, Fits, Waiting, Stacks

\* A pass of checkQuorum() about to run has its quorum.
LEMMA WaitingCounted ==
  ASSUME AllFit, NEW n \in Nodes, NEW s \in Waiting(n, "quorum")
  PROVE  HasQuorum(votes[n], Head(s).height, Head(s).round, Head(s).type, Head(s).hash)
  BY DEF AllFit, TasksFit, Fits, Counted, Waiting, Stacks

\* What is in two sequences put together is in either of them.
LEMMA JoinedElement ==
  ASSUME NEW S, NEW p \in Seq(S), NEW q \in Seq(S), NEW i \in DOMAIN (p \o q)
  PROVE  \/ \E j \in DOMAIN p : (p \o q)[i] = p[j]
         \/ \E j \in DOMAIN q : (p \o q)[i] = q[j]
<1>1. CASE i <= Len(p)
  BY <1>1
<1>2. CASE i > Len(p)
  <2>1. i - Len(p) \in DOMAIN q /\ (p \o q)[i] = q[i - Len(p)]
    BY <1>2
  <2> QED
    BY <2>1
<1> QED
  BY <1>1, <1>2

\* A handler that just returns leaves tasks that fit.
LEMMA FitReturn ==
  ASSUME TypeOK, AllFit, NEW n \in Nodes, NEW op, NEW s \in Waiting(n, op)
  PROVE  TasksFit(n, Becomes(n, s, Tail(s)))
  BY WaitingFrame, WaitingQuick, FitQuick, FitBecomes

\* A handler that goes on with another frame leaves tasks that fit.
LEMMA FitResume ==
  ASSUME TypeOK, AllFit, NEW n \in Nodes, NEW op, NEW s \in Waiting(n, op),
         NEW f \in Frames, f.op = "publish" => Backed(f.vote), f.op # "quorum"
  PROVE  TasksFit(n, Becomes(n, s, <<f>> \o Tail(s)))
  BY WaitingFrame, WaitingQuick, FitPush, FitBecomes

\* A new handler of one frame fits.
LEMMA FitFrame ==
  ASSUME NEW n, NEW f \in Frames, f.op = "publish" => Backed(f.vote),
         f.op # "quorum"
  PROVE  TasksFit(n, Task(<<f>>))
<1>1. <<>> \in Seq(Frames) /\ Quick(n, <<>>) /\ <<f>> \o <<>> = <<f>>
  BY DEF Quick
<1> QED
  BY <1>1, FitPush

\* A new handler that publishes a vote and then sets the step fits.
LEMMA FitPair ==
  ASSUME NEW n, NEW f \in Frames, NEW g \in Frames, g.op = "setStep",
         f.op = "publish" => Backed(f.vote), f.op # "quorum"
  PROVE  TasksFit(n, Task(<<f, g>>))
<1>1. Head(<<f, g>>) = f /\ Tail(<<f, g>>) = <<g>>
  OBVIOUS
<1>2. Fits(n, <<f, g>>)
  BY <1>1 DEF Fits, Quick, Counted
<1>3. DOMAIN Task(<<f, g>>) \subseteq {<<f, g>>}
  BY TaskDomain
<1> QED
  BY <1>2, <1>3 DEF TasksFit

\* A step of n puts nothing in its tasks that does not fit.
Settles(n) ==
  UNCHANGED <<tasks, ballots>> \/ \E bag : TasksFit(n, bag) /\ Run(n, bag)

\* startRound() proposes, or prevotes: neither needs a quorum.
LEMMA EnterRoundSettles ==
  ASSUME TypeOK, NEW n \in Nodes, NEW h \in Nat, NEW r \in Nat, NEW rest,
         TasksFit(n, rest), state' \in [Nodes -> Seq(Payloads)],
         EnterRound(n, h, r, rest)
  PROVE  Settles(n)
<1>1. CASE getProposer(h, r) = n
  <2>1. PICK p \in Proposals(n) :
           Run(n, rest (+) Task(<<Propose(Append(state'[n], p))>>))
    BY <1>1 DEF EnterRound
  <2> DEFINE f == Propose(Append(state'[n], p))
  <2>2. Append(state'[n], p) \in Seq(Payloads) \ {<<>>}
    BY ProposalsTyped
  <2>3. f \in Frames /\ f.op = "propose"
    BY <2>2, FramesTyped DEF Propose
  <2> HIDE DEF f
  <2>4. TasksFit(n, Task(<<f>>))
    BY <2>3, FitFrame
  <2>5. TasksFit(n, rest (+) Task(<<f>>))
    BY <2>4, FitPlus
  <2> QED
    BY <2>1, <2>5 DEF Settles, f
<1>2. CASE getProposer(h, r) # n
  <2> DEFINE Stack(b) == <<Publish(NewVote(n, "PREVOTE", b, h, r))>>
             bag == SetToBag({Stack(b) : b \in Found(n, h, r)})
  <2>1. Run(n, rest (+) bag)
    BY <1>2 DEF EnterRound
  <2>2. ASSUME NEW b PROVE Fits(n, Stack(b))
    <3>1. /\ Head(Stack(b)).vote.type = "PREVOTE" /\ Tail(Stack(b)) = <<>>
          /\ Head(Stack(b)).op # "quorum"
      BY DEF Publish, NewVote
    <3> QED
      BY <3>1 DEF Fits, Quick, Counted, Backed
  <2>3. DOMAIN bag = {Stack(b) : b \in Found(n, h, r)}
    BY DEF SetToBag
  <2>4. TasksFit(n, bag)
    BY <2>2, <2>3 DEF TasksFit
  <2>5. TasksFit(n, rest (+) bag)
    BY <2>4, FitPlus
  <2> QED
    BY <2>1, <2>5 DEF Settles
<1> QED
  BY <1>1, <1>2

\* handleVote() publishes nothing.
LEMMA HandleVoteSettles ==
  ASSUME TypeOK, NEW n \in Nodes, NEW v \in Votes, NEW others,
         TasksFit(n, others), NEW rest \in Seq(Frames), Quick(n, rest),
         HandleVote(n, v, others, rest)
  PROVE  Settles(n)
<1> DEFINE f == CheckQuorum(v.height, v.round, v.type)
<1>1. /\ f \in Frames /\ f.op \notin {"publish", "quorum"}
      /\ SaveSlashed \in Frames /\ SaveSlashed.op \notin {"publish", "quorum"}
  BY FramesTyped DEF Votes, CheckQuorum, SaveSlashed
<1>2. /\ TasksFit(n, Task(<<f>> \o rest))
      /\ TasksFit(n, Task(<<SaveSlashed>> \o rest))
      /\ TasksFit(n, Task(rest))
  BY <1>1, FitPush, FitQuick
<1>3. \/ Run(n, others (+) Task(<<f>> \o rest))
      \/ Run(n, others (+) Task(<<SaveSlashed>> \o rest))
      \/ Run(n, others (+) Task(rest))
  BY DEF HandleVote
<1>4. /\ TasksFit(n, others (+) Task(<<f>> \o rest))
      /\ TasksFit(n, others (+) Task(<<SaveSlashed>> \o rest))
      /\ TasksFit(n, others (+) Task(rest))
  BY <1>2, FitPlus
<1> QED
  BY <1>3, <1>4 DEF Settles

\* handleBlock() publishes nothing before it has executed the block.
LEMMA HandleBlockSettles ==
  ASSUME TypeOK, NEW n \in Nodes, NEW b \in Blocks, NEW rest,
         TasksFit(n, rest), HandleBlock(n, b, rest)
  PROVE  Settles(n)
<1>1. Verify(b) \in Frames /\ Verify(b).op \notin {"publish", "quorum"}
  BY FramesTyped DEF Verify
<1>2. TasksFit(n, Task(<<Verify(b)>>))
  BY <1>1, FitFrame
<1>3. TasksFit(n, rest (+) Task(<<Verify(b)>>))
  BY <1>2, FitPlus
<1> QED
  BY <1>3 DEF HandleBlock, Settles

\* A frame that carries a block and is no vote: its handler goes on with it.
LEMMA BlockFrames ==
  ASSUME NEW b \in Blocks
  PROVE  /\ PublishBlock(b) \in Frames /\ PublishBlock(b).op \notin {"publish", "quorum"}
         /\ Commit(b) \in Frames /\ Commit(b).op \notin {"publish", "quorum"}
         /\ AwaitCommit(b) \in Frames /\ AwaitCommit(b).op \notin {"publish", "quorum"}
  BY FramesTyped DEF PublishBlock, Commit, AwaitCommit

\* The handlers of proposals and received blocks publish no precommit.
LEMMA BlockStepsSettle ==
  ASSUME TypeOK, AllFit, NEW n \in Nodes,
         ProposalExecuted(n) \/ ProposalPublished(n) \/ ReceiveBlock(n)
  PROVE  Settles(n)
<1>1. CASE ProposalExecuted(n)
  <2>1. PICK s \in Waiting(n, "propose") :
          LET b == NewBlock(n, height[n] + 1, round[n], Head(s).root)
          IN  Run(n, Becomes(n, s, <<PublishBlock(b)>>))
    BY <1>1 DEF ProposalExecuted
  <2> DEFINE b == NewBlock(n, height[n] + 1, round[n], Head(s).root)
  <2>2. Head(s).root \in Seq(Payloads) \ {<<>>}
    BY WaitingFrame, FrameFields
  <2>3. height[n] + 1 \in Nat /\ round[n] \in Nat /\ n \in Voters
    BY NodeVotes DEF TypeOK
  <2>4. b \in Blocks
    BY <2>2, <2>3, NewBlockTyped
  <2> HIDE DEF b
  <2>5. TasksFit(n, Task(<<PublishBlock(b)>>))
    BY <2>4, BlockFrames, FitFrame
  <2> QED
    BY <2>1, <2>5, FitBecomes DEF Settles, b
<1>2. CASE ProposalPublished(n)
  <2>1. PICK s \in Waiting(n, "publishBlock") :
          HandleBlock(n, Head(s).block, Becomes(n, s, Tail(s)))
    BY <1>2 DEF ProposalPublished
  <2>2. Head(s).block \in Blocks
    BY WaitingFrame, FrameFields
  <2> QED
    BY <2>1, <2>2, FitReturn, HandleBlockSettles
<1>3. CASE ReceiveBlock(n)
  BY <1>3, HandleBlockSettles DEF ReceiveBlock, TypeOK, AllFit
<1> QED
  BY <1>1, <1>2, <1>3

\* An executed block makes a node publish a prevote at most.
LEMMA BlockExecutedSettles ==
  ASSUME TypeOK, AllFit, NEW n \in Nodes, BlockExecuted(n)
  PROVE  Settles(n)
<1>1. PICK s \in Waiting(n, "verify") : BlockExecuted(n)!(s)
  BY DEF BlockExecuted
<1> DEFINE b      == Head(s).block
           quorum == CheckQuorum(b.height, b.round, "PREVOTE")
           vote   == NewVote(n, "PREVOTE", b, b.height, b.round)
           rest   == <<quorum>> \o Tail(s)
<1>2. b \in Blocks /\ Tail(s) \in Seq(Frames) /\ Quick(n, Tail(s))
  BY WaitingFrame, FrameFields, WaitingQuick
<1>3. b.height \in Nat /\ b.round \in Nat
  BY <1>2 DEF Blocks
<1>4. /\ quorum \in Frames /\ Publish(vote) \in Frames
      /\ quorum.op = "checkQuorum" /\ Publish(vote).vote.type = "PREVOTE"
      /\ Publish(vote).op = "publish"
  BY <1>2, <1>3, NodeVotes, NewVoteTyped, FramesTyped
     DEF VoteTypes, CheckQuorum, Publish, NewVote
<1> HIDE DEF b, quorum, vote
<1>5. rest \in Seq(Frames) /\ Quick(n, rest)
  BY <1>2, <1>4, QuickPush, PushTyped
<1>6. <<Publish(vote), quorum>> \o Tail(s) = <<Publish(vote)>> \o rest
  BY <1>2, <1>4
<1>7. Backed(Publish(vote).vote)
  BY <1>4 DEF Backed
<1> HIDE DEF rest
<1>8. /\ TasksFit(n, Task(<<Publish(vote)>> \o rest))
      /\ TasksFit(n, Task(rest)) /\ TasksFit(n, Task(Tail(s)))
  BY <1>2, <1>4, <1>5, <1>7, FitPush, FitQuick
<1>9. \/ Run(n, Becomes(n, s, <<Publish(vote)>> \o rest))
      \/ Run(n, Becomes(n, s, rest))
      \/ Run(n, Becomes(n, s, Tail(s)))
  BY <1>1, <1>6 DEF b, quorum, vote, rest
<1> QED
  BY <1>8, <1>9, FitBecomes DEF Settles

\* Handling a vote, one's own or another's, publishes nothing.
LEMMA VoteStepsSettle ==
  ASSUME TypeOK, AllFit, NEW n \in Nodes, VotePublished(n) \/ ReceiveVote(n)
  PROVE  Settles(n)
<1>1. CASE VotePublished(n)
  <2>1. PICK s \in Waiting(n, "publish") :
          HandleVote(n, Head(s).vote, tasks[n] (-) SetToBag({s}), Tail(s))
    BY <1>1 DEF VotePublished
  <2>2. /\ Head(s).vote \in Votes
        /\ Tail(s) \in Seq(Frames) /\ Quick(n, Tail(s))
    BY WaitingFrame, FrameFields, WaitingQuick
  <2>3. TasksFit(n, tasks[n] (-) SetToBag({s}))
    BY FitMinus DEF AllFit
  <2> QED
    BY <2>1, <2>2, <2>3, HandleVoteSettles
<1>2. CASE ReceiveVote(n)
  <2>1. PICK v \in ballots : HandleVote(n, v, tasks[n], <<>>)
    BY <1>2 DEF ReceiveVote
  <2>2. v \in Votes /\ <<>> \in Seq(Frames) /\ Quick(n, <<>>) /\ TasksFit(n, tasks[n])
    BY DEF TypeOK, Quick, AllFit
  <2> QED
    BY <2>1, <2>2, HandleVoteSettles
<1> QED
  BY <1>1, <1>2

\* Handlers that only return publish nothing.
LEMMA ReturnsSettle ==
  ASSUME TypeOK, AllFit, NEW n \in Nodes,
         SlashSaved(n) \/ TimeoutVoted(n) \/ NothingDecided(n)
  PROVE  Settles(n)
<1>1. PICK op \in {"saveSlashed", "setStep", "quorum"} :
        \E s \in Waiting(n, op) : Run(n, Becomes(n, s, Tail(s)))
  BY DEF SlashSaved, TimeoutVoted, NothingDecided
<1> QED
  BY <1>1, FitReturn DEF Settles

\* Rounds entered after a wait, a quorum or a failed commit propose or prevote.
LEMMA RoundStepsSettle ==
  ASSUME TypeOK, AllFit, NEW n \in Nodes,
         \/ StartRoundZero(n) \/ JumpToRound(n)
         \/ NilDecided(n) \/ CommitFailed(n)
  PROVE  Settles(n)
<1>1. height[n] + 1 \in Nat /\ round[n] + 1 \in Nat
  BY DEF TypeOK
<1>2. CASE StartRoundZero(n)
  <2>1. PICK s \in Waiting(n, "startRound") :
          EnterRound(n, Head(s).height, 0, Becomes(n, s, Tail(s)))
    BY <1>2 DEF StartRoundZero
  <2>2. Head(s).height \in Nat
    BY WaitingFrame, FrameFields
  <2>3. state' \in [Nodes -> Seq(Payloads)]
    BY <1>2 DEF StartRoundZero, TypeOK, chainVars
  <2> QED
    BY <2>1, <2>2, <2>3, FitReturn, EnterRoundSettles
<1>3. CASE JumpToRound(n)
  <2>1. PICK s \in Waiting(n, "quorum") :
          EnterRound(n, Head(s).height, Head(s).round, tasks[n])
    BY <1>3 DEF JumpToRound
  <2>2. Head(s).height \in Nat /\ Head(s).round \in Nat
    BY WaitingFrame, FrameFields
  <2>3. state' \in [Nodes -> Seq(Payloads)] /\ TasksFit(n, tasks[n])
    BY <1>3 DEF JumpToRound, TypeOK, chainVars, AllFit
  <2> QED
    BY <2>1, <2>2, <2>3, EnterRoundSettles
<1>4. CASE NilDecided(n)
  <2>1. PICK s \in Waiting(n, "quorum") :
          EnterRound(n, height[n] + 1, round[n] + 1, Becomes(n, s, Tail(s)))
    BY <1>4 DEF NilDecided
  <2>2. state' \in [Nodes -> Seq(Payloads)]
    BY <1>4 DEF NilDecided, TypeOK, chainVars
  <2> QED
    BY <1>1, <2>1, <2>2, FitReturn, EnterRoundSettles
<1>5. CASE CommitFailed(n)
  <2>1. PICK s \in Waiting(n, "commit") :
          /\ \/ UNCHANGED state
             \/ state' = [state EXCEPT ![n] = Append(@, Payload(Head(s).block))]
          /\ EnterRound(n, height[n] + 1, round[n] + 1, Becomes(n, s, Tail(s)))
    BY <1>5 DEF CommitFailed
  <2>2. state' \in [Nodes -> Seq(Payloads)]
    <3>1. CASE UNCHANGED state
      BY <3>1 DEF TypeOK
    <3>2. CASE state' = [state EXCEPT ![n] = Append(@, Payload(Head(s).block))]
      BY <3>2, StateTyped
    <3> QED
      BY <2>1, <3>1, <3>2
  <2> QED
    BY <1>1, <2>1, <2>2, FitReturn, EnterRoundSettles
<1> QED
  BY <1>2, <1>3, <1>4, <1>5

\* The timer makes a node vote nil, or enter the next round.
LEMMA TimeoutSettles ==
  ASSUME TypeOK, AllFit, NEW n \in Nodes, Timeout(n)
  PROVE  Settles(n)
<1> DEFINE h == height[n] + 1
           r == round[n]
           Nils(ty) == <<Publish(NewVote(n, ty, Nil, h, r)), SetStep(ty)>>
<1>1. h \in Nat /\ r \in Nat /\ r + 1 \in Nat /\ TasksFit(n, tasks[n])
  BY DEF TypeOK, AllFit
<1>2. state' \in [Nodes -> Seq(Payloads)]
  BY DEF Timeout, TypeOK, chainVars
<1>3. \/ EnterRound(n, h, r + 1, tasks[n])
      \/ \E ty \in VoteTypes : Run(n, tasks[n] (+) Task(Nils(ty)))
      \/ Run(n, tasks[n])
      \/ UNCHANGED <<tasks, ballots>>
  BY DEF Timeout, VoteTypes
<1>4. ASSUME NEW ty \in VoteTypes PROVE TasksFit(n, tasks[n] (+) Task(Nils(ty)))
  <2> DEFINE f == Publish(NewVote(n, ty, Nil, h, r))
  <2>1. NewVote(n, ty, Nil, h, r) \in Votes
    BY <1>1, NodeVotes, NewVoteTyped
  <2>2. /\ f \in Frames /\ f.vote.hash = Nil /\ f.op # "quorum"
        /\ SetStep(ty) \in Frames /\ SetStep(ty).op = "setStep"
    BY <2>1, FramesTyped DEF Publish, NewVote, SetStep
  <2> HIDE DEF f
  <2>3. Backed(f.vote)
    BY <2>2 DEF Backed
  <2>4. TasksFit(n, Task(<<f, SetStep(ty)>>))
    BY <2>2, <2>3, FitPair
  <2>5. TasksFit(n, Task(Nils(ty)))
    BY <2>4 DEF f
  <2> QED
    BY <1>1, <2>5, FitPlus
<1> HIDE DEF Nils, h, r
<1>5. CASE EnterRound(n, h, r + 1, tasks[n])
  BY <1>1, <1>2, <1>5, EnterRoundSettles
<1> QED
  BY <1>1, <1>3, <1>4, <1>5 DEF Settles

\* The passes that checkQuorum() leaves have a quorum each, by its count.
LEMMA CountedQuick ==
  ASSUME TypeOK, AllFit, NEW n \in Nodes, VotesCounted(n)
  PROVE  \E s \in Waiting(n, "checkQuorum"), t \in Seq(Frames) :
            Quick(n, t) /\ Run(n, Becomes(n, s, t))
<1>1. PICK s \in Waiting(n, "checkQuorum") : VotesCounted(n)!(s)
  BY DEF VotesCounted
<1> DEFINE h == Head(s).height
           r == Head(s).round
           ty == Head(s).type
<1>2. PICK q \in Orders(Decided(n, h, r, ty)) :
        Run(n, Becomes(n, s, [i \in DOMAIN q |-> Quorum(h, r, ty, q[i])] \o Tail(s)))
  BY <1>1
<1>3. /\ h \in Nat /\ r \in Nat /\ ty \in VoteTypes
      /\ Tail(s) \in Seq(Frames) /\ Quick(n, Tail(s))
  BY WaitingFrame, FrameFields, WaitingQuick
<1> HIDE DEF h, r, ty
<1> DEFINE p == [i \in DOMAIN q |-> Quorum(h, r, ty, q[i])]
           t == p \o Tail(s)
<1>4. p \in Seq(Frames) /\ t \in Seq(Frames)
  BY <1>3, PassesTyped
<1>5. \A i \in DOMAIN p : p[i].op = "quorum" /\ Counted(n, p[i])
  <2>1. \A i \in DOMAIN q : q[i] \in Decided(n, h, r, ty)
    BY DEF Orders
  <2>2. \A i \in DOMAIN q : HasQuorum(votes[n], h, r, ty, q[i])
    BY <2>1 DEF Decided
  <2> QED
    BY <2>2 DEF Quorum, Counted
<1> HIDE DEF p
<1>6. ASSUME NEW i \in DOMAIN t
      PROVE  \/ \E j \in DOMAIN p : t[i] = p[j]
             \/ \E j \in DOMAIN Tail(s) : t[i] = Tail(s)[j]
  <2> DEFINE u == Tail(s)
  <2>1. u \in Seq(Frames) /\ i \in DOMAIN (p \o u)
    BY <1>3
  <2> HIDE DEF u
  <2>2. \/ \E j \in DOMAIN p : (p \o u)[i] = p[j]
        \/ \E j \in DOMAIN u : (p \o u)[i] = u[j]
    BY <1>4, <2>1, JoinedElement, SMTT(30)
  <2> QED
    BY <2>2 DEF u
<1> HIDE DEF t
<1>7. Quick(n, t)
  BY <1>3, <1>5, <1>6 DEF Quick
<1>8. Run(n, Becomes(n, s, t)) /\ t \in Seq(Frames)
  BY <1>2, <1>4 DEF t, p
<1> QED
  BY <1>7, <1>8

\* So counting the votes leaves tasks that fit.
LEMMA VotesCountedSettles ==
  ASSUME TypeOK, AllFit, NEW n \in Nodes, VotesCounted(n)
  PROVE  Settles(n)
<1>1. PICK s \in Waiting(n, "checkQuorum"), t \in Seq(Frames) :
        Quick(n, t) /\ Run(n, Becomes(n, s, t))
  BY CountedQuick
<1>2. TasksFit(n, Becomes(n, s, t))
  BY <1>1, FitQuick, FitBecomes
<1> QED
  BY <1>1, <1>2 DEF Settles

\* checkQuorum() precommits what has a quorum of prevotes.
LEMMA PrecommitDecidedSettles ==
  ASSUME TypeOK, AllFit, NEW n \in Nodes, PrecommitDecided(n)
  PROVE  Settles(n)
<1>1. PICK s \in Waiting(n, "quorum") : PrecommitDecided(n)!(s)
  BY DEF PrecommitDecided
<1> DEFINE h == Head(s).height
           r == Head(s).round
           hash == Head(s).hash
<1>2. Run(n, Becomes(n, s, <<Publish(NewVote(n, "PRECOMMIT", hash, h, r)),
                             CheckQuorum(h, r, "PRECOMMIT")>> \o Tail(s)))
  BY <1>1
<1> DEFINE vote   == NewVote(n, "PRECOMMIT", hash, h, r)
           quorum == CheckQuorum(h, r, "PRECOMMIT")
           rest   == <<quorum>> \o Tail(s)
<1>3. /\ h \in Nat /\ r \in Nat /\ hash \in Blocks \cup {Nil}
      /\ Tail(s) \in Seq(Frames) /\ Quick(n, Tail(s))
  BY WaitingFrame, FrameFields, WaitingQuick
<1>4. HasQuorum(votes[n], h, r, "PREVOTE", hash)
  BY <1>1, WaitingCounted
<1>5. /\ vote \in Votes /\ vote.validator = n /\ vote.hash = hash
      /\ vote.height = h /\ vote.round = r
  BY <1>3, NodeVotes, NewVoteTyped DEF VoteTypes, NewVote
<1>6. Backed(vote)
  BY <1>4, <1>5 DEF Backed
<1>7. /\ quorum \in Frames /\ quorum.op = "checkQuorum"
      /\ Publish(vote) \in Frames /\ Publish(vote).vote = vote
      /\ Publish(vote).op = "publish"
  BY <1>3, <1>5, FramesTyped DEF VoteTypes, CheckQuorum, Publish
<1> HIDE DEF h, r, hash, vote, quorum
<1>8. rest \in Seq(Frames) /\ Quick(n, rest)
  BY <1>3, <1>7, QuickPush, PushTyped
<1>9. <<Publish(vote), quorum>> \o Tail(s) = <<Publish(vote)>> \o rest
  BY <1>3, <1>7
<1> HIDE DEF rest
<1>10. TasksFit(n, Task(<<Publish(vote)>> \o rest))
  BY <1>6, <1>7, <1>8, FitPush
<1>11. Run(n, Becomes(n, s, <<Publish(vote)>> \o rest))
  BY <1>2, <1>9 DEF vote, quorum
<1> QED
  BY <1>10, <1>11, FitBecomes DEF Settles

\* commitBlock() publishes nothing.
LEMMA CommitBlockSettles ==
  ASSUME TypeOK, AllFit, NEW n \in Nodes, NEW op, NEW s \in Waiting(n, op),
         NEW b \in Blocks, commitBlock(n, b, s)
  PROVE  Settles(n)
<1>1. Commit(b) \in Frames /\ Commit(b).op \notin {"publish", "quorum"}
  BY BlockFrames
<1> QED
  BY <1>1, FitReturn, FitResume DEF Settles, commitBlock

\* Nor do the handlers that call it, and what follows when it returns.
LEMMA CommitStepsSettle ==
  ASSUME TypeOK, AllFit, NEW n \in Nodes,
         \/ CommitDecided(n) \/ CommitLocked(n)
         \/ BlockCommitted(n) \/ ExecutionFailed(n)
  PROVE  Settles(n)
<1>1. CASE CommitDecided(n)
  <2>1. PICK s \in Waiting(n, "quorum") : CommitDecided(n)!(s)
    BY <1>1 DEF CommitDecided
  <2> DEFINE b == Head(s).hash
             f == AwaitCommit(b)
  <2>2. b \in Blocks
    BY <2>1 DEF TypeOK
  <2>3. Run(n, Becomes(n, s, <<f>> \o Tail(s))) \/ commitBlock(n, b, s)
    BY <2>1
  <2>4. f \in Frames /\ f.op \notin {"publish", "quorum"}
    BY <2>2, BlockFrames
  <2> HIDE DEF b, f
  <2> QED
    BY <2>2, <2>3, <2>4, FitResume, CommitBlockSettles DEF Settles
<1>2. CASE CommitLocked(n)
  <2>1. PICK s \in Waiting(n, "awaitCommit") : commitBlock(n, Head(s).block, s)
    BY <1>2 DEF CommitLocked
  <2>2. Head(s).block \in Blocks
    BY WaitingFrame, FrameFields
  <2> QED
    BY <2>1, <2>2, CommitBlockSettles
<1>3. CASE BlockCommitted(n) \/ ExecutionFailed(n)
  <2>1. PICK s \in Waiting(n, "commit") :
          Run(n, Becomes(n, s, Tail(s))
                 (+) Task(<<StartRound(Head(s).block.height + 1)>>))
    BY <1>3 DEF BlockCommitted, ExecutionFailed, SaveBlock
  <2> DEFINE f == StartRound(Head(s).block.height + 1)
  <2>2. Head(s).block.height + 1 \in Nat
    BY WaitingFrame, FrameFields DEF Blocks
  <2>3. f \in Frames /\ f.op \notin {"publish", "quorum"}
    BY <2>2, FramesTyped DEF StartRound
  <2> HIDE DEF f
  <2>4. TasksFit(n, Task(<<f>>)) /\ TasksFit(n, Becomes(n, s, Tail(s)))
    BY <2>3, FitFrame, FitReturn
  <2>5. TasksFit(n, Becomes(n, s, Tail(s)) (+) Task(<<f>>))
    BY <2>4, FitPlus
  <2> QED
    BY <2>1, <2>5 DEF Settles, f
<1> QED
  BY <1>1, <1>2, <1>3

\* Every step of a node leaves tasks that fit.
LEMMA NodeSettles ==
  ASSUME TypeOK, AllFit, NEW n \in Nodes, NodeStep(n)
  PROVE  Settles(n)
  BY BlockStepsSettle, BlockExecutedSettles, VoteStepsSettle, ReturnsSettle,
     RoundStepsSettle, TimeoutSettles, VotesCountedSettles, PrecommitDecidedSettles,
     CommitStepsSettle DEF NodeStep

-----------------------------------------------------------------------------
(* Precommits are backed by prevotes.                                      *)

\* A node forgets no vote, so a quorum stays one.
LEMMA QuorumStays ==
  ASSUME TypeOK, [Next]_vars, NEW n \in Nodes, NEW h, NEW r, NEW ty, NEW hash,
         HasQuorum(votes[n], h, r, ty, hash)
  PROVE  HasQuorum(votes'[n], h, r, ty, hash)
<1> DEFINE A == VotersFor(votes[n], h, r, ty, hash)
           B == VotersFor(votes'[n], h, r, ty, hash)
<1>1. votes[n] \subseteq votes'[n]
  BY VotesStep
<1>2. A \subseteq B
  BY <1>1 DEF VotersFor
<1>3. votes[n] \in SUBSET Votes /\ votes'[n] \in SUBSET Votes
  BY NextTyped DEF TypeOK
<1>4. IsFiniteSet(B) /\ Cardinality(A) \in Nat /\ Cardinality(B) \in Nat
  BY <1>3, VotersForFinite
<1>5. Cardinality(A) <= Cardinality(B)
  BY <1>2, <1>4, FS_Subset
<1>6. getQuorum \in Int
  BY ValidatorAssumption DEF getQuorum, Power
<1>7. 10 * Cardinality(A) >= getQuorum
  BY DEF HasQuorum, Power
<1> HIDE DEF A, B
<1>8. 10 * Cardinality(B) >= getQuorum
  BY <1>4, <1>5, <1>6, <1>7
<1> QED
  BY <1>8 DEF HasQuorum, Power, B

\* A precommit that is backed stays backed.
LEMMA BackedStays ==
  ASSUME TypeOK, [Next]_vars, NEW v, Backed(v)
  PROVE  Backed(v)'
  BY QuorumStays DEF Backed

\* A stack that fits still fits after any step.
LEMMA FitsStays ==
  ASSUME TypeOK, [Next]_vars, NEW n \in Nodes, NEW s, Fits(n, s)
  PROVE  Fits(n, s)'
<1>1. ASSUME NEW f, Counted(n, f) PROVE Counted(n, f)'
  BY <1>1, QuorumStays DEF Counted
<1>2. Quick(n, Tail(s))'
  BY <1>1 DEF Fits, Quick
<1> QED
  BY <1>1, <1>2, BackedStays DEF Fits

\* The published votes are backed, whoever publishes one more.
LEMMA JustifiedStep ==
  ASSUME TypeOK, AllFit, PrecommitJustified, [Next]_vars
  PROVE  AllFit' /\ PrecommitJustified'
<1>1. \A v \in ballots : Backed(v)
  BY DEF PrecommitJustified, Backed
<1>2. SUFFICES /\ \A n \in Nodes : \A s \in DOMAIN tasks'[n] : Fits(n, s)
               /\ \A v \in ballots' : Backed(v)
  <2>1. ASSUME \A n \in Nodes : \A s \in DOMAIN tasks'[n] : Fits(n, s)
        PROVE  AllFit'
    BY <2>1, FitsStays DEF AllFit, TasksFit
  <2>2. ASSUME \A v \in ballots' : Backed(v)
        PROVE  PrecommitJustified'
    <3>1. \A v \in ballots' : Backed(v)'
      BY <2>2, BackedStays
    <3> QED
      BY <3>1 DEF PrecommitJustified, Backed
  <2> QED
    BY <2>1, <2>2
<1>3. \A n \in Nodes : \A s \in DOMAIN tasks[n] : Fits(n, s)
  BY DEF AllFit, TasksFit
<1>4. CASE UNCHANGED <<tasks, ballots>>
  BY <1>1, <1>3, <1>4
<1>5. ASSUME NEW n \in Nodes, NEW bag, TasksFit(n, bag), Run(n, bag)
      PROVE  /\ \A m \in Nodes : \A s \in DOMAIN tasks'[m] : Fits(m, s)
             /\ \A v \in ballots' : Backed(v)
  <2>1. \A s \in DOMAIN bag : Fits(n, s)
    BY <1>5 DEF TasksFit
  <2>2. \A m \in Nodes : tasks'[m] = IF m = n THEN bag ELSE tasks[m]
    BY <1>5 DEF Run, TypeOK
  <2>3. \A m \in Nodes : \A s \in DOMAIN tasks'[m] : Fits(m, s)
    BY <1>3, <2>1, <2>2
  <2>4. ASSUME NEW v \in ballots', v \notin ballots PROVE Backed(v)
    <3>1. PICK s \in DOMAIN bag : Head(s).op = "publish" /\ v = Head(s).vote
      BY <1>5, <2>4 DEF Run
    <3> QED
      BY <2>1, <3>1 DEF Fits
  <2> QED
    BY <1>1, <2>3, <2>4
<1>6. ASSUME NEW p \in Peers, PeerStep(p)
      PROVE  /\ \A m \in Nodes : \A s \in DOMAIN tasks'[m] : Fits(m, s)
             /\ \A v \in ballots' : Backed(v)
  <2>1. tasks' = tasks /\ p \notin Nodes
    BY <1>6, ValidatorAssumption
       DEF PeerStep, PeerProposes, PeerPrevotes, PeerPrecommits, Publishes
  <2>2. \A v \in ballots' : v \in ballots \/ v.validator = p
    BY <1>6 DEF PeerStep, PeerProposes, PeerPrevotes, PeerPrecommits,
                Publishes, NewVote
  <2> QED
    BY <1>1, <1>3, <2>1, <2>2 DEF Backed
<1>7. CASE UNCHANGED vars
  BY <1>4, <1>7 DEF vars
<1>8. ASSUME NEW n \in Nodes, NodeStep(n)
      PROVE  /\ \A m \in Nodes : \A s \in DOMAIN tasks'[m] : Fits(m, s)
             /\ \A v \in ballots' : Backed(v)
  BY <1>4, <1>5, <1>8, NodeSettles DEF Settles
<1> QED
  BY <1>6, <1>7, <1>8 DEF Next

\* At the start nothing is published, and startRound() will publish no vote.
LEMMA JustifiedInit == Init => AllFit /\ PrecommitJustified
<1> SUFFICES ASSUME Init PROVE AllFit /\ PrecommitJustified
  OBVIOUS
<1>1. StartRound(1) \in Frames /\ StartRound(1).op \notin {"publish", "quorum"}
  BY FramesTyped DEF StartRound
<1>2. \A n \in Nodes : TasksFit(n, Task(<<StartRound(1)>>))
  BY <1>1, FitFrame
<1> QED
  BY <1>2 DEF Init, AllFit, PrecommitJustified

\* At every moment the suspended handlers fit and the precommits are backed.
LEMMA AlwaysFit == Spec => [](AllFit /\ PrecommitJustified)
<1>1. Init => AllFit /\ PrecommitJustified
  BY JustifiedInit
<1>2. TypeOK /\ AllFit /\ PrecommitJustified /\ [Next]_vars
        => AllFit' /\ PrecommitJustified'
  BY JustifiedStep
<1> QED
  BY <1>1, <1>2, TypeCorrect, PTL DEF Spec

\* A node that precommits a block holds, then and ever after, a quorum of
\* prevotes for it: however its handlers interleave, and whatever the timer
\* and the round jumps do between the count and the publication.
THEOREM Justified == Spec => []PrecommitJustified
  BY AlwaysFit, PTL

-----------------------------------------------------------------------------
(* Bags of tasks in which nobody, or one handler, holds the mutex.         *)

Holds(s) == Head(s).op \in {"verify", "commit"}

Idle(bag) == \A s \in DOMAIN bag : ~Holds(s)

HeldBy(bag, s) ==
  /\ s \in DOMAIN bag /\ bag[s] = 1 /\ Holds(s)
  /\ \A t \in DOMAIN bag : Holds(t) => t = s

\* The mutex of n is taken exactly while one handler of n holds it.
MutexFits(n) ==
  \/ ~mutex[n] /\ Idle(tasks[n])
  \/ mutex[n] /\ \E s : HeldBy(tasks[n], s)

\* Handlers that do not hold the mutex, added to a bag, leave the holder.
LEMMA PlusIdle ==
  ASSUME NEW A, NEW B, IsTasks(A), IsTasks(B), Idle(B)
  PROVE  /\ Idle(A) => Idle(A (+) B)
         /\ \A s : HeldBy(A, s) => HeldBy(A (+) B, s)
<1>1. /\ DOMAIN (A (+) B) = DOMAIN A \cup DOMAIN B
      /\ \A e \in DOMAIN (A (+) B) :
           (A (+) B)[e] = (IF e \in DOMAIN A THEN A[e] ELSE 0)
                          + (IF e \in DOMAIN B THEN B[e] ELSE 0)
  BY PlusDomain
<1>2. Idle(A) => Idle(A (+) B)
  BY <1>1 DEF Idle
<1>3. ASSUME NEW s, HeldBy(A, s) PROVE HeldBy(A (+) B, s)
  <2>1. s \in DOMAIN A /\ A[s] = 1 /\ s \notin DOMAIN B
    BY <1>3 DEF HeldBy, Idle
  <2>2. s \in DOMAIN (A (+) B) /\ (A (+) B)[s] = 1
    BY <1>1, <2>1
  <2>3. \A t \in DOMAIN (A (+) B) : Holds(t) => t = s
    BY <1>1, <1>3 DEF HeldBy, Idle
  <2> QED
    BY <1>3, <2>2, <2>3 DEF HeldBy
<1> QED
  BY <1>2, <1>3

\* A handler that does not hold the mutex, taken out of a bag, leaves the
\* holder; the holder taken out leaves nobody.
LEMMA MinusHolder ==
  ASSUME NEW A, NEW s, IsTasks(A)
  PROVE  /\ Idle(A) => Idle(A (-) SetToBag({s}))
         /\ HeldBy(A, s) => Idle(A (-) SetToBag({s}))
         /\ ~Holds(s) =>
              \A t : HeldBy(A, t) => HeldBy(A (-) SetToBag({s}), t)
<1> DEFINE C == A (-) SetToBag({s})
<1>1. /\ DOMAIN C \subseteq DOMAIN A
      /\ \A e \in DOMAIN C : C[e] = (IF e = s THEN A[e] - 1 ELSE A[e]) /\ C[e] > 0
      /\ \A e \in DOMAIN A :
           (IF e = s THEN A[e] - 1 ELSE A[e]) > 0 => e \in DOMAIN C
  BY MinusDomain
<1> HIDE DEF C
<1>2. Idle(A) => Idle(C)
  BY <1>1 DEF Idle
<1>3. ASSUME HeldBy(A, s) PROVE Idle(C)
  <2>1. s \notin DOMAIN C
    BY <1>1, <1>3 DEF HeldBy
  <2> QED
    BY <1>1, <1>3, <2>1 DEF HeldBy, Idle
<1>4. ASSUME ~Holds(s), NEW t, HeldBy(A, t) PROVE HeldBy(C, t)
  <2>1. t # s /\ t \in DOMAIN A /\ A[t] = 1
    BY <1>4 DEF HeldBy
  <2>2. t \in DOMAIN C /\ C[t] = 1
    BY <1>1, <2>1
  <2> QED
    BY <1>1, <1>4, <2>2 DEF HeldBy
<1> QED
  BY <1>2, <1>3, <1>4 DEF C

\* A holder added to a bag without one is the one holder.
LEMMA PlusHolder ==
  ASSUME NEW A, NEW s, s # <<>>, Holds(s), Idle(A)
  PROVE  HeldBy(A (+) Task(s), s)
<1>1. /\ DOMAIN (A (+) Task(s)) = DOMAIN A \cup DOMAIN Task(s)
      /\ \A e \in DOMAIN (A (+) Task(s)) :
           (A (+) Task(s))[e] = (IF e \in DOMAIN A THEN A[e] ELSE 0)
                              + (IF e \in DOMAIN Task(s) THEN Task(s)[e] ELSE 0)
  BY PlusDomain
<1>2. DOMAIN Task(s) = {s} /\ Task(s)[s] = 1
  BY TaskDomain
<1>3. s \notin DOMAIN A
  BY DEF Idle
<1>4. s \in DOMAIN (A (+) Task(s)) /\ (A (+) Task(s))[s] = 1
  BY <1>1, <1>2, <1>3
<1> QED
  BY <1>1, <1>2, <1>4 DEF HeldBy, Idle

\* Frames that wait for nothing, or one frame that is no holder, are idle.
LEMMA IdleTask ==
  ASSUME NEW t \in Seq(Frames), t # <<>> => ~Holds(t)
  PROVE  Idle(Task(t))
  BY TaskDomain DEF Idle

\* The frames below a suspended one hold nothing.
LEMMA QuickIdle ==
  ASSUME NEW n, NEW t \in Seq(Frames), Quick(n, t)
  PROVE  (t # <<>> => ~Holds(t)) /\ Idle(Task(t))
<1>1. ASSUME t # <<>> PROVE ~Holds(t)
  <2>1. Head(t) = t[1] /\ 1 \in DOMAIN t
    BY <1>1
  <2> QED
    BY <2>1 DEF Quick, Holds
<1> QED
  BY <1>1, IdleTask

-----------------------------------------------------------------------------
(* Steps that neither take nor release the mutex.                          *)

\* B has the holder that A has, if A has one.
Keeps(A, B) ==
  /\ Idle(A) => Idle(B)
  /\ \A s : HeldBy(A, s) => HeldBy(B, s)

\* What a step does to the tasks of the nodes.
LEMMA RunTasks ==
  ASSUME TypeOK, NEW n \in Nodes, NEW bag, Run(n, bag)
  PROVE  tasks'[n] = bag /\ \A m \in Nodes : m # n => tasks'[m] = tasks[m]
  BY DEF Run, TypeOK

\* More handlers that hold nothing keep the holder.
LEMMA PlusKeeps ==
  ASSUME NEW A, NEW B, NEW C, IsTasks(B), IsTasks(C), Keeps(A, B), Idle(C)
  PROVE  Keeps(A, B (+) C)
  BY PlusIdle DEF Keeps

\* A handler that holds nothing and goes on holding nothing.
LEMMA BecomesKeeps ==
  ASSUME TypeOK, NEW n \in Nodes, NEW op, NEW s \in Waiting(n, op),
         op \notin {"verify", "commit"},
         NEW t \in Seq(Frames), t # <<>> => ~Holds(t)
  PROVE  Keeps(tasks[n], Becomes(n, s, t))
<1> DEFINE C == tasks[n] (-) SetToBag({s})
<1>1. IsTasks(tasks[n]) /\ ~Holds(s)
  BY WaitingFrame DEF Holds
<1>2. Keeps(tasks[n], C)
  BY <1>1, MinusHolder DEF Keeps
<1>3. IsTasks(C) /\ IsTasks(Task(t)) /\ Idle(Task(t))
  BY <1>1, MinusTasks, TaskTasks, IdleTask
<1> HIDE DEF C
<1>4. Keeps(tasks[n], C (+) Task(t))
  BY <1>2, <1>3, PlusKeeps
<1> QED
  BY <1>4 DEF Becomes, C

\* A handler that holds nothing and returns.
LEMMA ReturnKeeps ==
  ASSUME TypeOK, AllFit, NEW n \in Nodes, NEW op, NEW s \in Waiting(n, op),
         op \notin {"verify", "commit"}
  PROVE  Keeps(tasks[n], Becomes(n, s, Tail(s))) /\ IsTasks(Becomes(n, s, Tail(s)))
  BY WaitingFrame, WaitingQuick, QuickIdle, BecomesKeeps, BecomesTasks

\* A handler that holds nothing and waits for something but the mutex.
LEMMA ResumeKeeps ==
  ASSUME TypeOK, NEW n \in Nodes, NEW op, NEW s \in Waiting(n, op),
         op \notin {"verify", "commit"},
         NEW f \in Frames, f.op \notin {"verify", "commit"}, NEW t \in Seq(Frames)
  PROVE  Keeps(tasks[n], Becomes(n, s, <<f>> \o t))
<1>1. <<f>> \o t \in Seq(Frames) /\ Head(<<f>> \o t) = f
  OBVIOUS
<1>2. ~Holds(<<f>> \o t)
  BY <1>1 DEF Holds
<1> QED
  BY <1>1, <1>2, BecomesKeeps

\* Two frames pushed on a stack.
LEMMA PushPair ==
  ASSUME NEW f \in Frames, NEW g \in Frames, NEW t \in Seq(Frames)
  PROVE  <<f, g>> \o t \in Seq(Frames) /\ Head(<<f, g>> \o t) = f
  OBVIOUS

\* startRound() starts handlers that hold nothing.
LEMMA EnterRoundKeeps ==
  ASSUME TypeOK, NEW n \in Nodes, NEW h \in Nat, NEW r \in Nat, NEW rest,
         IsTasks(rest), state' \in [Nodes -> Seq(Payloads)],
         EnterRound(n, h, r, rest), NEW A, Keeps(A, rest)
  PROVE  Keeps(A, tasks'[n])
<1>1. CASE getProposer(h, r) = n
  <2>1. PICK p \in Proposals(n) :
           Run(n, rest (+) Task(<<Propose(Append(state'[n], p))>>))
    BY <1>1 DEF EnterRound
  <2> DEFINE f == Propose(Append(state'[n], p))
  <2>2. Append(state'[n], p) \in Seq(Payloads) \ {<<>>}
    BY ProposalsTyped
  <2>3. f \in Frames /\ f.op = "propose"
    BY <2>2, FramesTyped DEF Propose
  <2> HIDE DEF f
  <2>4. <<f>> \in Seq(Frames) /\ ~Holds(<<f>>)
    BY <2>3 DEF Holds
  <2>5. IsTasks(Task(<<f>>)) /\ Idle(Task(<<f>>))
    BY <2>4, TaskTasks, IdleTask
  <2>6. Keeps(A, rest (+) Task(<<f>>))
    BY <2>5, PlusKeeps
  <2> QED
    BY <2>1, <2>6, RunTasks DEF f
<1>2. CASE getProposer(h, r) # n
  <2> DEFINE Stack(b) == <<Publish(NewVote(n, "PREVOTE", b, h, r))>>
             bag == SetToBag({Stack(b) : b \in Found(n, h, r)})
  <2>1. Run(n, rest (+) bag)
    BY <1>2 DEF EnterRound
  <2>2. ASSUME NEW b PROVE ~Holds(Stack(b))
    BY DEF Holds, Publish
  <2>3. DOMAIN bag = {Stack(b) : b \in Found(n, h, r)}
    BY DEF SetToBag
  <2>4. Idle(bag)
    BY <2>2, <2>3 DEF Idle
  <2>5. Found(n, h, r) \in SUBSET Blocks
    BY DEF Found, TypeOK
  <2>6. IsTasks(bag)
    BY <2>5, PrevotesTyped
  <2> HIDE DEF bag
  <2>7. Keeps(A, rest (+) bag)
    BY <2>4, <2>6, PlusKeeps
  <2> QED
    BY <2>1, <2>7, RunTasks
<1> QED
  BY <1>1, <1>2

\* handleVote() goes on holding nothing.
LEMMA HandleVoteKeeps ==
  ASSUME TypeOK, NEW n \in Nodes, NEW v \in Votes, NEW others,
         IsTasks(others), NEW rest \in Seq(Frames), Quick(n, rest),
         HandleVote(n, v, others, rest), NEW A, Keeps(A, others)
  PROVE  Keeps(A, tasks'[n])
<1> DEFINE f == CheckQuorum(v.height, v.round, v.type)
<1>1. /\ f \in Frames /\ f.op = "checkQuorum"
      /\ SaveSlashed \in Frames /\ SaveSlashed.op = "saveSlashed"
  BY FramesTyped DEF Votes, CheckQuorum, SaveSlashed
<1>2. ASSUME NEW g \in Frames, g.op \in {"checkQuorum", "saveSlashed"}
      PROVE  IsTasks(Task(<<g>> \o rest)) /\ Idle(Task(<<g>> \o rest))
  <2>1. <<g>> \o rest \in Seq(Frames) /\ Head(<<g>> \o rest) = g
    OBVIOUS
  <2>2. ~Holds(<<g>> \o rest)
    BY <1>2, <2>1 DEF Holds
  <2> QED
    BY <2>1, <2>2, TaskTasks, IdleTask
<1>3. IsTasks(Task(rest)) /\ Idle(Task(rest))
  BY TaskTasks, QuickIdle
<1>4. PICK t : /\ IsTasks(Task(t)) /\ Idle(Task(t))
               /\ Run(n, others (+) Task(t))
  BY <1>1, <1>2, <1>3 DEF HandleVote
<1>5. Keeps(A, others (+) Task(t))
  BY <1>4, PlusKeeps
<1> QED
  BY <1>4, <1>5, RunTasks

\* startRound(), when it resumes, on a nil quorum or on a jump.
LEMMA RoundStepsKeep ==
  ASSUME TypeOK, AllFit, NEW n \in Nodes,
         StartRoundZero(n) \/ JumpToRound(n) \/ NilDecided(n)
  PROVE  mutex' = mutex /\ Keeps(tasks[n], tasks'[n])
<1>1. height[n] + 1 \in Nat /\ round[n] + 1 \in Nat
  BY DEF TypeOK
<1>2. mutex' = mutex /\ state' = state
  BY DEF StartRoundZero, JumpToRound, NilDecided, chainVars
<1>3. state' \in [Nodes -> Seq(Payloads)]
  BY <1>2 DEF TypeOK
<1>4. IsTasks(tasks[n]) /\ Keeps(tasks[n], tasks[n])
  BY DEF TypeOK, Keeps
<1>5. CASE StartRoundZero(n)
  <2>1. PICK s \in Waiting(n, "startRound") :
          EnterRound(n, Head(s).height, 0, Becomes(n, s, Tail(s)))
    BY <1>5 DEF StartRoundZero
  <2>2. Head(s).height \in Nat
    BY WaitingFrame, FrameFields
  <2>3. /\ Keeps(tasks[n], Becomes(n, s, Tail(s)))
        /\ IsTasks(Becomes(n, s, Tail(s)))
    BY ReturnKeeps
  <2> QED
    BY <1>2, <1>3, <2>1, <2>2, <2>3, EnterRoundKeeps
<1>6. CASE JumpToRound(n)
  <2>1. PICK s \in Waiting(n, "quorum") :
          EnterRound(n, Head(s).height, Head(s).round, tasks[n])
    BY <1>6 DEF JumpToRound
  <2>2. Head(s).height \in Nat /\ Head(s).round \in Nat
    BY WaitingFrame, FrameFields
  <2> QED
    BY <1>2, <1>3, <1>4, <2>1, <2>2, EnterRoundKeeps
<1>7. CASE NilDecided(n)
  <2>1. PICK s \in Waiting(n, "quorum") :
          EnterRound(n, height[n] + 1, round[n] + 1, Becomes(n, s, Tail(s)))
    BY <1>7 DEF NilDecided
  <2>2. /\ Keeps(tasks[n], Becomes(n, s, Tail(s)))
        /\ IsTasks(Becomes(n, s, Tail(s)))
    BY ReturnKeeps
  <2> QED
    BY <1>1, <1>2, <1>3, <2>1, <2>2, EnterRoundKeeps
<1> QED
  BY <1>5, <1>6, <1>7

\* A timer that fires starts handlers that hold nothing.
LEMMA TimeoutKeeps ==
  ASSUME TypeOK, AllFit, NEW n \in Nodes, Timeout(n)
  PROVE  mutex' = mutex /\ Keeps(tasks[n], tasks'[n])
<1> DEFINE h == height[n] + 1
           r == round[n]
           Nils(ty) == <<Publish(NewVote(n, ty, Nil, h, r)), SetStep(ty)>>
<1>1. /\ h \in Nat /\ r \in Nat /\ r + 1 \in Nat /\ IsTasks(tasks[n])
      /\ Keeps(tasks[n], tasks[n])
  BY DEF TypeOK, Keeps
<1>2. mutex' = mutex /\ state' \in [Nodes -> Seq(Payloads)]
  BY DEF Timeout, TypeOK, chainVars
<1>3. \/ EnterRound(n, h, r + 1, tasks[n])
      \/ \E ty \in VoteTypes : Run(n, tasks[n] (+) Task(Nils(ty)))
      \/ Run(n, tasks[n])
      \/ UNCHANGED <<tasks, ballots>>
  BY DEF Timeout, VoteTypes
<1>4. ASSUME NEW ty \in VoteTypes PROVE Keeps(tasks[n], tasks[n] (+) Task(Nils(ty)))
  <2> DEFINE f == Publish(NewVote(n, ty, Nil, h, r))
             g == SetStep(ty)
  <2>1. NewVote(n, ty, Nil, h, r) \in Votes
    BY <1>1, NodeVotes, NewVoteTyped
  <2>2. f \in Frames /\ f.op = "publish" /\ g \in Frames
    BY <2>1, FramesTyped DEF Publish
  <2> HIDE DEF f, g
  <2>3. <<f, g>> \in Seq(Frames) /\ Head(<<f, g>>) = f
    BY <2>2
  <2>4. ~Holds(<<f, g>>)
    BY <2>2, <2>3 DEF Holds
  <2>5. IsTasks(Task(<<f, g>>)) /\ Idle(Task(<<f, g>>))
    BY <2>3, <2>4, TaskTasks, IdleTask
  <2>6. Keeps(tasks[n], tasks[n] (+) Task(<<f, g>>))
    BY <1>1, <2>5, PlusKeeps
  <2> QED
    BY <2>6 DEF f, g
<1> HIDE DEF Nils, h, r
<1>5. CASE EnterRound(n, h, r + 1, tasks[n])
  BY <1>1, <1>2, <1>5, EnterRoundKeeps
<1> QED
  BY <1>1, <1>2, <1>3, <1>4, <1>5, RunTasks

\* Handlers of votes and their ends hold nothing.
LEMMA VoteStepsKeep ==
  ASSUME TypeOK, AllFit, NEW n \in Nodes,
         \/ VotePublished(n) \/ ReceiveVote(n)
         \/ SlashSaved(n) \/ TimeoutVoted(n) \/ NothingDecided(n)
         \/ VotesCounted(n)
  PROVE  mutex' = mutex /\ Keeps(tasks[n], tasks'[n])
<1>1. mutex' = mutex
  BY DEF VotePublished, ReceiveVote, SlashSaved, TimeoutVoted, NothingDecided,
         VotesCounted
<1>2. IsTasks(tasks[n]) /\ Keeps(tasks[n], tasks[n])
  BY DEF TypeOK, Keeps
<1>3. CASE VotePublished(n)
  <2>1. PICK s \in Waiting(n, "publish") :
          HandleVote(n, Head(s).vote, tasks[n] (-) SetToBag({s}), Tail(s))
    BY <1>3 DEF VotePublished
  <2>2. /\ Head(s).vote \in Votes /\ ~Holds(s)
        /\ Tail(s) \in Seq(Frames) /\ Quick(n, Tail(s))
    BY WaitingFrame, FrameFields, WaitingQuick DEF Holds
  <2>3. /\ IsTasks(tasks[n] (-) SetToBag({s}))
        /\ Keeps(tasks[n], tasks[n] (-) SetToBag({s}))
    BY <1>2, <2>2, MinusTasks, MinusHolder DEF Keeps
  <2> QED
    BY <1>1, <2>1, <2>2, <2>3, HandleVoteKeeps
<1>4. CASE ReceiveVote(n)
  <2>1. PICK v \in ballots : HandleVote(n, v, tasks[n], <<>>)
    BY <1>4 DEF ReceiveVote
  <2>2. v \in Votes /\ <<>> \in Seq(Frames) /\ Quick(n, <<>>)
    BY DEF TypeOK, Quick
  <2> QED
    BY <1>1, <1>2, <2>1, <2>2, HandleVoteKeeps
<1>5. CASE SlashSaved(n) \/ TimeoutVoted(n) \/ NothingDecided(n)
  <2>1. PICK op \in {"saveSlashed", "setStep", "quorum"} :
          \E s \in Waiting(n, op) : Run(n, Becomes(n, s, Tail(s)))
    BY <1>5 DEF SlashSaved, TimeoutVoted, NothingDecided
  <2> QED
    BY <1>1, <2>1, ReturnKeeps, RunTasks
<1>6. CASE VotesCounted(n)
  <2>1. PICK s \in Waiting(n, "checkQuorum"), t \in Seq(Frames) :
          Quick(n, t) /\ Run(n, Becomes(n, s, t))
    BY <1>6, CountedQuick
  <2>2. Keeps(tasks[n], Becomes(n, s, t))
    BY <2>1, QuickIdle, BecomesKeeps
  <2> QED
    BY <1>1, <2>1, <2>2, RunTasks
<1> QED
  BY <1>3, <1>4, <1>5, <1>6

\* A proposal built, and a precommit decided, need no mutex.
LEMMA PublishStepsKeep ==
  ASSUME TypeOK, AllFit, NEW n \in Nodes,
         ProposalExecuted(n) \/ PrecommitDecided(n)
  PROVE  mutex' = mutex /\ Keeps(tasks[n], tasks'[n])
<1>1. CASE ProposalExecuted(n)
  <2>1. PICK s \in Waiting(n, "propose") :
          LET b == NewBlock(n, height[n] + 1, round[n], Head(s).root)
          IN  Run(n, Becomes(n, s, <<PublishBlock(b)>>))
    BY <1>1 DEF ProposalExecuted
  <2> DEFINE b == NewBlock(n, height[n] + 1, round[n], Head(s).root)
             f == PublishBlock(b)
  <2>2. Head(s).root \in Seq(Payloads) \ {<<>>}
    BY WaitingFrame, FrameFields
  <2>3. height[n] + 1 \in Nat /\ round[n] \in Nat /\ n \in Voters
    BY NodeVotes DEF TypeOK
  <2>4. b \in Blocks
    BY <2>2, <2>3, NewBlockTyped
  <2> HIDE DEF b
  <2>5. f \in Frames /\ f.op = "publishBlock"
    BY <2>4, FramesTyped DEF PublishBlock
  <2> HIDE DEF f
  <2>6. Keeps(tasks[n], Becomes(n, s, <<f>>))
    <3>1. <<f>> \in Seq(Frames) /\ ~Holds(<<f>>)
      BY <2>5 DEF Holds
    <3> QED
      BY <3>1, BecomesKeeps
  <2>7. mutex' = mutex
    BY <1>1 DEF ProposalExecuted
  <2> QED
    BY <2>1, <2>6, <2>7, RunTasks DEF b, f
<1>2. CASE PrecommitDecided(n)
  <2>1. PICK s \in Waiting(n, "quorum") : PrecommitDecided(n)!(s)
    BY <1>2 DEF PrecommitDecided
  <2> DEFINE h == Head(s).height
             r == Head(s).round
             hash == Head(s).hash
  <2>2. Run(n, Becomes(n, s, <<Publish(NewVote(n, "PRECOMMIT", hash, h, r)),
                               CheckQuorum(h, r, "PRECOMMIT")>> \o Tail(s)))
    BY <2>1
  <2> DEFINE f == Publish(NewVote(n, "PRECOMMIT", hash, h, r))
             g == CheckQuorum(h, r, "PRECOMMIT")
  <2>3. h \in Nat /\ r \in Nat /\ hash \in Blocks \cup {Nil}
    BY WaitingFrame, FrameFields
  <2>4. Tail(s) \in Seq(Frames)
    BY WaitingFrame
  <2>5. f \in Frames /\ f.op = "publish" /\ g \in Frames
    BY <2>3, NodeVotes, NewVoteTyped, FramesTyped
       DEF VoteTypes, Publish
  <2> HIDE DEF h, r, hash, f, g
  <2>6. /\ <<f, g>> \o Tail(s) \in Seq(Frames)
        /\ Head(<<f, g>> \o Tail(s)) = f
    BY <2>4, <2>5, PushPair
  <2>7. ~Holds(<<f, g>> \o Tail(s))
    BY <2>5, <2>6 DEF Holds
  <2>8. Keeps(tasks[n], Becomes(n, s, <<f, g>> \o Tail(s)))
    BY <2>6, <2>7, BecomesKeeps
  <2>9. mutex' = mutex
    BY <2>1
  <2> QED
    BY <2>2, <2>8, <2>9, RunTasks DEF f, g
<1> QED
  BY <1>1, <1>2

-----------------------------------------------------------------------------
(* Steps that take or release the mutex.                                   *)

\* handleBlock() takes the mutex only when nobody holds it.
LEMMA HandleBlockFits ==
  ASSUME TypeOK, NEW n \in Nodes, MutexFits(n), NEW b \in Blocks, NEW rest,
         IsTasks(rest), Keeps(tasks[n], rest), HandleBlock(n, b, rest)
  PROVE  MutexFits(n)'
<1>1. ~mutex[n] /\ Idle(rest)
  BY DEF HandleBlock, MutexFits, Keeps
<1>2. CASE mutex' = mutex /\ Run(n, rest)
  <2>1. tasks'[n] = rest
    BY <1>2, RunTasks
  <2> QED
    BY <1>1, <1>2, <2>1 DEF MutexFits
<1>3. CASE /\ mutex' = [mutex EXCEPT ![n] = TRUE]
           /\ Run(n, rest (+) Task(<<Verify(b)>>))
  <2>1. tasks'[n] = rest (+) Task(<<Verify(b)>>)
    BY <1>3, RunTasks
  <2>2. Holds(<<Verify(b)>>) /\ <<Verify(b)>> # <<>>
    BY DEF Holds, Verify
  <2>3. HeldBy(tasks'[n], <<Verify(b)>>)
    BY <1>1, <2>1, <2>2, PlusHolder
  <2>4. mutex'[n]
    BY <1>3 DEF TypeOK
  <2> QED
    BY <2>3, <2>4 DEF MutexFits
<1> QED
  BY <1>2, <1>3 DEF HandleBlock

\* The holder that goes on without the mutex leaves nobody holding it.
LEMMA ReleaseIdle ==
  ASSUME TypeOK, NEW n \in Nodes, MutexFits(n),
         NEW op \in {"verify", "commit"}, NEW s \in Waiting(n, op),
         NEW t \in Seq(Frames), t # <<>> => ~Holds(t)
  PROVE  Idle(Becomes(n, s, t)) /\ IsTasks(Becomes(n, s, t))
<1>1. s \in DOMAIN tasks[n] /\ Holds(s) /\ IsTasks(tasks[n])
  BY WaitingFrame DEF Waiting, Stacks, Holds
<1>2. HeldBy(tasks[n], s)
  BY <1>1 DEF MutexFits, Idle, HeldBy
<1>3. Idle(tasks[n] (-) SetToBag({s})) /\ IsTasks(tasks[n] (-) SetToBag({s}))
  BY <1>1, <1>2, MinusHolder, MinusTasks
<1>4. Idle(Task(t)) /\ IsTasks(Task(t))
  BY TaskTasks, IdleTask
<1>5. Idle(Becomes(n, s, t))
  BY <1>3, <1>4, PlusIdle DEF Becomes
<1> QED
  BY <1>1, <1>5, BecomesTasks

\* A node that handles its own block or another's.
LEMMA BlockStepsFit ==
  ASSUME TypeOK, AllFit, NEW n \in Nodes, MutexFits(n),
         ProposalPublished(n) \/ ReceiveBlock(n)
  PROVE  MutexFits(n)'
<1>1. CASE ProposalPublished(n)
  <2>1. PICK s \in Waiting(n, "publishBlock") :
          HandleBlock(n, Head(s).block, Becomes(n, s, Tail(s)))
    BY <1>1 DEF ProposalPublished
  <2>2. Head(s).block \in Blocks
    BY WaitingFrame, FrameFields
  <2>3. /\ Keeps(tasks[n], Becomes(n, s, Tail(s)))
        /\ IsTasks(Becomes(n, s, Tail(s)))
    BY ReturnKeeps
  <2> QED
    BY <2>1, <2>2, <2>3, HandleBlockFits
<1>2. CASE ReceiveBlock(n)
  <2>1. PICK b \in blocks : HandleBlock(n, b, tasks[n])
    BY <1>2 DEF ReceiveBlock
  <2>2. b \in Blocks /\ IsTasks(tasks[n]) /\ Keeps(tasks[n], tasks[n])
    BY DEF TypeOK, Keeps
  <2> QED
    BY <2>1, <2>2, HandleBlockFits
<1> QED
  BY <1>1, <1>2

\* The end of handleBlock() releases the mutex.
LEMMA BlockExecutedFits ==
  ASSUME TypeOK, AllFit, NEW n \in Nodes, MutexFits(n), BlockExecuted(n)
  PROVE  MutexFits(n)'
<1>1. PICK s \in Waiting(n, "verify") : BlockExecuted(n)!(s)
  BY DEF BlockExecuted
<1> DEFINE b      == Head(s).block
           quorum == CheckQuorum(b.height, b.round, "PREVOTE")
           vote   == NewVote(n, "PREVOTE", b, b.height, b.round)
<1>2. b \in Blocks /\ Tail(s) \in Seq(Frames) /\ Quick(n, Tail(s))
  BY WaitingFrame, FrameFields, WaitingQuick
<1>3. b.height \in Nat /\ b.round \in Nat
  BY <1>2 DEF Blocks
<1>4. /\ quorum \in Frames /\ quorum.op = "checkQuorum"
      /\ Publish(vote) \in Frames /\ Publish(vote).op = "publish"
  BY <1>2, <1>3, NodeVotes, NewVoteTyped, FramesTyped
     DEF VoteTypes, CheckQuorum, Publish
<1> HIDE DEF b, quorum, vote
<1>5. /\ <<Publish(vote), quorum>> \o Tail(s) \in Seq(Frames)
      /\ ~Holds(<<Publish(vote), quorum>> \o Tail(s))
  BY <1>2, <1>4, PushPair DEF Holds
<1>6. <<quorum>> \o Tail(s) \in Seq(Frames) /\ ~Holds(<<quorum>> \o Tail(s))
  <2>1. <<quorum>> \o Tail(s) \in Seq(Frames) /\ Head(<<quorum>> \o Tail(s)) = quorum
    BY <1>2, <1>4
  <2> QED
    BY <1>4, <2>1 DEF Holds
<1>7. Tail(s) # <<>> => ~Holds(Tail(s))
  BY <1>2, QuickIdle
<1>8. PICK t \in Seq(Frames) : /\ t # <<>> => ~Holds(t)
                               /\ Run(n, Becomes(n, s, t))
  BY <1>1, <1>2, <1>5, <1>6, <1>7 DEF b, quorum, vote
<1>9. Idle(tasks'[n])
  BY <1>8, ReleaseIdle, RunTasks
<1>10. ~mutex'[n]
  BY <1>1 DEF TypeOK
<1> QED
  BY <1>9, <1>10 DEF MutexFits

\* commitBlock() takes the mutex that is free, or returns.
LEMMA CommitBlockFits ==
  ASSUME TypeOK, AllFit, NEW n \in Nodes, MutexFits(n), ~mutex[n],
         NEW op, op \notin {"verify", "commit"}, NEW s \in Waiting(n, op),
         NEW b \in Blocks, commitBlock(n, b, s)
  PROVE  MutexFits(n)'
<1> DEFINE t == <<Commit(b)>> \o Tail(s)
<1>1. Idle(tasks[n])
  BY DEF MutexFits
<1>2. CASE mutex' = mutex /\ Run(n, Becomes(n, s, Tail(s)))
  <2>1. Keeps(tasks[n], tasks'[n])
    BY <1>2, ReturnKeeps, RunTasks
  <2> QED
    BY <1>1, <1>2, <2>1 DEF MutexFits, Keeps
<1>3. CASE mutex' = [mutex EXCEPT ![n] = TRUE] /\ Run(n, Becomes(n, s, t))
  <2>1. /\ Tail(s) \in Seq(Frames)
        /\ Commit(b) \in Frames /\ Commit(b).op = "commit"
    BY WaitingFrame, FramesTyped DEF Commit
  <2>2. t # <<>> /\ Head(t) = Commit(b)
    BY <2>1
  <2>3. Holds(t)
    BY <2>1, <2>2 DEF Holds
  <2>4. Idle(tasks[n] (-) SetToBag({s}))
    BY <1>1, WaitingFrame, MinusHolder
  <2> HIDE DEF t
  <2>5. HeldBy(Becomes(n, s, t), t)
    BY <2>2, <2>3, <2>4, PlusHolder DEF Becomes
  <2>6. tasks'[n] = Becomes(n, s, t) /\ mutex'[n]
    BY <1>3, RunTasks DEF TypeOK
  <2> QED
    BY <2>5, <2>6 DEF MutexFits
<1> QED
  BY <1>2, <1>3 DEF commitBlock

\* A commit takes the mutex that is free, or waits for it.
LEMMA CommitDecidedFits ==
  ASSUME TypeOK, AllFit, NEW n \in Nodes, MutexFits(n), CommitDecided(n)
  PROVE  MutexFits(n)'
<1>1. PICK s \in Waiting(n, "quorum") : CommitDecided(n)!(s)
  BY DEF CommitDecided
<1> DEFINE b == Head(s).hash
<1>2. b \in Blocks
  BY <1>1 DEF TypeOK
<1>3. \/ /\ mutex[n] /\ UNCHANGED mutex
         /\ Run(n, Becomes(n, s, <<AwaitCommit(b)>> \o Tail(s)))
      \/ ~mutex[n] /\ commitBlock(n, b, s)
  BY <1>1
<1> HIDE DEF b
<1>4. CASE ~mutex[n] /\ commitBlock(n, b, s)
  BY <1>2, <1>4, CommitBlockFits
<1>5. CASE /\ mutex[n] /\ UNCHANGED mutex
           /\ Run(n, Becomes(n, s, <<AwaitCommit(b)>> \o Tail(s)))
  <2>1. /\ Tail(s) \in Seq(Frames)
        /\ AwaitCommit(b) \in Frames /\ AwaitCommit(b).op = "awaitCommit"
    BY <1>2, WaitingFrame, FramesTyped DEF AwaitCommit
  <2>2. Keeps(tasks[n], Becomes(n, s, <<AwaitCommit(b)>> \o Tail(s)))
    BY <2>1, ResumeKeeps
  <2>3. Keeps(tasks[n], tasks'[n])
    BY <1>5, <2>2, RunTasks
  <2> QED
    BY <1>5, <2>3 DEF MutexFits, Keeps
<1> QED
  BY <1>3, <1>4, <1>5

\* A commit that has waited for the mutex takes it, or gives up.
LEMMA CommitLockedFits ==
  ASSUME TypeOK, AllFit, NEW n \in Nodes, MutexFits(n), CommitLocked(n)
  PROVE  MutexFits(n)'
<1>1. PICK s \in Waiting(n, "awaitCommit") :
        ~mutex[n] /\ commitBlock(n, Head(s).block, s)
  BY DEF CommitLocked
<1>2. Head(s).block \in Blocks
  BY WaitingFrame, FrameFields
<1> QED
  BY <1>1, <1>2, CommitBlockFits

\* The end of commitBlock() releases the mutex, failed or not.
LEMMA CommitEndsFit ==
  ASSUME TypeOK, AllFit, NEW n \in Nodes, MutexFits(n),
         BlockCommitted(n) \/ ExecutionFailed(n) \/ CommitFailed(n)
  PROVE  MutexFits(n)'
<1>1. ASSUME NEW s \in Waiting(n, "commit")
      PROVE  /\ Idle(Becomes(n, s, Tail(s))) /\ IsTasks(Becomes(n, s, Tail(s)))
  BY WaitingFrame, WaitingQuick, QuickIdle, ReleaseIdle
<1>2. ~mutex'[n]
  BY DEF BlockCommitted, ExecutionFailed, SaveBlock, CommitFailed, TypeOK
<1>3. CASE BlockCommitted(n) \/ ExecutionFailed(n)
  <2>1. PICK s \in Waiting(n, "commit") :
          Run(n, Becomes(n, s, Tail(s))
                 (+) Task(<<StartRound(Head(s).block.height + 1)>>))
    BY <1>3 DEF BlockCommitted, ExecutionFailed, SaveBlock
  <2> DEFINE f == StartRound(Head(s).block.height + 1)
  <2>2. Head(s).block.height + 1 \in Nat
    BY WaitingFrame, FrameFields DEF Blocks
  <2>3. f \in Frames /\ f.op = "startRound"
    BY <2>2, FramesTyped DEF StartRound
  <2> HIDE DEF f
  <2>4. <<f>> \in Seq(Frames) /\ ~Holds(<<f>>)
    BY <2>3 DEF Holds
  <2>5. IsTasks(Task(<<f>>)) /\ Idle(Task(<<f>>))
    BY <2>4, TaskTasks, IdleTask
  <2>6. Idle(Becomes(n, s, Tail(s)) (+) Task(<<f>>))
    BY <1>1, <2>5, PlusIdle
  <2>7. Idle(tasks'[n])
    BY <2>1, <2>6, RunTasks DEF f
  <2> QED
    BY <1>2, <2>7 DEF MutexFits
<1>4. CASE CommitFailed(n)
  <2>1. PICK s \in Waiting(n, "commit") :
          /\ \/ UNCHANGED state
             \/ state' = [state EXCEPT ![n] = Append(@, Payload(Head(s).block))]
          /\ EnterRound(n, height[n] + 1, round[n] + 1, Becomes(n, s, Tail(s)))
    BY <1>4 DEF CommitFailed
  <2>2. state' \in [Nodes -> Seq(Payloads)]
    <3>1. CASE UNCHANGED state
      BY <3>1 DEF TypeOK
    <3>2. CASE state' = [state EXCEPT ![n] = Append(@, Payload(Head(s).block))]
      BY <3>2, StateTyped
    <3> QED
      BY <2>1, <3>1, <3>2
  <2>3. height[n] + 1 \in Nat /\ round[n] + 1 \in Nat
    BY DEF TypeOK
  <2> DEFINE A == Becomes(n, s, Tail(s))
  <2>4. IsTasks(A) /\ Idle(A) /\ Keeps(A, A)
    BY <1>1 DEF Keeps
  <2> HIDE DEF A
  <2>5. Keeps(A, tasks'[n])
    BY <2>1, <2>2, <2>3, <2>4, EnterRoundKeeps DEF A
  <2> QED
    BY <1>2, <2>4, <2>5 DEF MutexFits, Keeps
<1> QED
  BY <1>3, <1>4

-----------------------------------------------------------------------------
(* The mutex excludes.                                                     *)

AllMutexFit == \A n \in Nodes : MutexFits(n)

\* The step of a node leaves its mutex with its one holder, if it has one.
LEMMA NodeMutexFits ==
  ASSUME TypeOK, AllFit, NEW n \in Nodes, MutexFits(n), NodeStep(n)
  PROVE  MutexFits(n)'
<1>1. ASSUME mutex' = mutex /\ Keeps(tasks[n], tasks'[n])
      PROVE  MutexFits(n)'
  BY <1>1 DEF MutexFits, Keeps
<1> QED
  BY <1>1, RoundStepsKeep, TimeoutKeeps, VoteStepsKeep, PublishStepsKeep,
     BlockStepsFit, BlockExecutedFits, CommitDecidedFits, CommitLockedFits,
     CommitEndsFit DEF NodeStep

\* The step of a node changes the tasks and the mutex of no other node.
LEMMA OtherNodes ==
  ASSUME TypeOK, AllFit, NEW n \in Nodes, NodeStep(n),
         NEW m \in Nodes, m # n
  PROVE  tasks'[m] = tasks[m] /\ mutex'[m] = mutex[m]
<1>1. tasks'[m] = tasks[m]
  BY NodeSettles, RunTasks DEF Settles
<1>2. \/ mutex' = mutex
      \/ \E x \in BOOLEAN : mutex' = [mutex EXCEPT ![n] = x]
  BY DEF NodeStep, StartRoundZero, ProposalExecuted, ProposalPublished,
     BlockExecuted, VotePublished, SlashSaved, TimeoutVoted, VotesCounted,
     JumpToRound, PrecommitDecided, CommitDecided, NilDecided, NothingDecided,
     CommitLocked, BlockCommitted, ExecutionFailed, CommitFailed, SaveBlock,
     ReceiveBlock, ReceiveVote, Timeout, HandleBlock, commitBlock
<1>3. mutex'[m] = mutex[m]
  BY <1>2 DEF TypeOK
<1> QED
  BY <1>1, <1>3

\* No step makes two holders.
LEMMA MutexStep == TypeOK /\ AllFit /\ AllMutexFit /\ [Next]_vars => AllMutexFit'
<1> SUFFICES ASSUME TypeOK, AllFit, AllMutexFit, [Next]_vars, NEW m \in Nodes
             PROVE  MutexFits(m)'
  BY DEF AllMutexFit
<1>1. MutexFits(m)
  BY DEF AllMutexFit
<1>2. ASSUME NEW n \in Nodes, NodeStep(n) PROVE MutexFits(m)'
  <2>1. CASE m = n
    BY <1>1, <1>2, <2>1, NodeMutexFits
  <2>2. CASE m # n
    BY <1>1, <1>2, <2>2, OtherNodes DEF MutexFits
  <2> QED
    BY <2>1, <2>2
<1>3. ASSUME NEW p \in Peers, PeerStep(p) PROVE MutexFits(m)'
  BY <1>1, <1>3 DEF PeerStep, PeerProposes, PeerPrevotes, PeerPrecommits,
                    Publishes, MutexFits
<1>4. CASE UNCHANGED vars
  BY <1>1, <1>4 DEF vars, MutexFits
<1> QED
  BY <1>2, <1>3, <1>4 DEF Next

\* At the start the mutex is free.
LEMMA MutexInit == Init => AllMutexFit
<1> SUFFICES ASSUME Init, NEW n \in Nodes PROVE MutexFits(n)
  BY DEF AllMutexFit
<1>1. <<StartRound(1)>> \in Seq(Frames) /\ ~Holds(<<StartRound(1)>>)
  BY FramesTyped DEF Holds, StartRound
<1>2. Idle(Task(<<StartRound(1)>>))
  BY <1>1, IdleTask
<1> QED
  BY <1>2 DEF Init, MutexFits

\* One holder and a flag that is set exactly then is what Exclusive says.
LEMMA MutexExcludes == TypeOK /\ AllMutexFit => Exclusive
<1> SUFFICES ASSUME TypeOK, AllMutexFit, NEW n \in Nodes
             PROVE  /\ mutex[n] <=> Holders(n) # {}
                    /\ \A s, t \in Holders(n) : s = t /\ tasks[n][s] = 1
  BY DEF Exclusive
<1>1. Holders(n) = {s \in DOMAIN tasks[n] : Holds(s)}
  BY DEF Holders, Holds, Waiting, Stacks
<1> QED
  BY <1>1 DEF AllMutexFit, MutexFits, Idle, HeldBy

\* A node never verifies or commits two blocks at once, and its mutex is
\* taken exactly while it does: every early return, failed commit and commit
\* that waited gives it back, and none takes it from its holder.
THEOREM MutualExclusion == Spec => []Exclusive
<1>1. Init => AllMutexFit
  BY MutexInit
<1>2. TypeOK /\ AllFit /\ AllMutexFit /\ [Next]_vars => AllMutexFit'
  BY MutexStep
<1>3. TypeOK /\ AllMutexFit => Exclusive
  BY MutexExcludes
<1> QED
  BY <1>1, <1>2, <1>3, TypeCorrect, AlwaysFit, PTL DEF Spec

-----------------------------------------------------------------------------
(* What a node has to have for its suspended handlers to go on safely.     *)

\* The node n, and what of its state the handlers rely on.
Env(n) == [node |-> n, height |-> height[n], pending |-> pending[n],
           votes |-> votes[n], state |-> state[n]]

\* A vote is for a block of its own height, or for none.
HashFits(v) == v.hash # Nil => v.hash.height = v.height

\* A prevote is for a block that the node has, or of a height that is decided.
VoteIn(v, e) ==
  v.type = "PREVOTE" /\ v.hash # Nil =>
    /\ v.height <= e.height + 1
    /\ v.height > e.height => v.hash \in e.pending

\* The node holds a quorum of precommits for b, all of one round.
Certified(b, e) ==
  \E v \in e.votes :
    /\ v.height = b.height /\ v.type = "PRECOMMIT" /\ v.hash = b
    /\ HasQuorum(e.votes, b.height, v.round, "PRECOMMIT", b)

\* The node may commit b, unless its height has been decided.
Committable(b, e) ==
  /\ Certified(b, e)
  /\ b.height <= e.height + 1
  /\ MaxFailures = 0 /\ b.height = e.height + 1
       => b.root = Append(e.state, Payload(b))

\* What the frame on top of a stack stands for holds in e.
ReadyIn(f, e) ==
  /\ f.op = "publish" => /\ f.vote.validator = e.node
                         /\ HashFits(f.vote)
                         /\ VoteIn(f.vote, e)
  /\ f.op = "startRound" => f.height <= e.height + 1
  /\ f.op \in {"awaitCommit", "commit"} => Committable(f.block, e)
  /\ f.op = "commit" => f.block.height = e.height + 1

TasksIn(bag, e) == \A s \in DOMAIN bag : ReadyIn(Head(s), e)

\* The frames of which ReadyIn asks nothing.
Plain(f) == f.op \notin {"publish", "startRound", "awaitCommit", "commit"}

LEMMA PlainReady ==
  ASSUME NEW f, NEW e, Plain(f)
  PROVE  ReadyIn(f, e)
  BY DEF Plain, ReadyIn

\* The tasks of a union of bags are ready if those of both are.
LEMMA PlusIn ==
  ASSUME NEW A, NEW B, NEW e, TasksIn(A, e), TasksIn(B, e)
  PROVE  TasksIn(A (+) B, e)
<1>1. DOMAIN (A (+) B) = DOMAIN A \cup DOMAIN B
  BY PlusDomain
<1> QED
  BY <1>1 DEF TasksIn

\* A handler is ready if the frame on top of it is.
LEMMA TaskIn ==
  ASSUME NEW t, NEW e, t # <<>> => ReadyIn(Head(t), e)
  PROVE  TasksIn(Task(t), e)
<1>1. DOMAIN Task(t) = {t} \ {<<>>}
  BY TaskDomain
<1> QED
  BY <1>1 DEF TasksIn

\* Taking a task out of a bag leaves tasks that are ready.
LEMMA MinusIn ==
  ASSUME NEW A, NEW s, NEW e, TasksIn(A, e)
  PROVE  TasksIn(A (-) SetToBag({s}), e)
  BY MinusDomain DEF TasksIn

\* A handler that goes on with a frame that is ready.
LEMMA BecomesIn ==
  ASSUME NEW n, NEW s, NEW t, NEW e, TasksIn(tasks[n], e),
         t # <<>> => ReadyIn(Head(t), e)
  PROVE  TasksIn(Becomes(n, s, t), e)
  BY MinusIn, TaskIn, PlusIn DEF Becomes

\* Frames that wait for nothing are ready.
LEMMA QuickReady ==
  ASSUME NEW n, NEW t \in Seq(Frames), Quick(n, t), NEW e
  PROVE  (t # <<>> => ReadyIn(Head(t), e)) /\ TasksIn(Task(t), e)
<1>1. ASSUME t # <<>> PROVE ReadyIn(Head(t), e)
  <2>1. Head(t) = t[1] /\ 1 \in DOMAIN t
    BY <1>1
  <2>2. Head(t).op \in {"checkQuorum", "quorum", "setStep"}
    BY <2>1 DEF Quick
  <2> QED
    BY <2>2, PlainReady DEF Plain
<1> QED
  BY <1>1, TaskIn

\* A frame pushed on others is the one that has to be ready.
LEMMA PushReady ==
  ASSUME NEW f \in Frames, NEW t \in Seq(Frames), NEW e, ReadyIn(f, e)
  PROVE  /\ <<f>> \o t # <<>> => ReadyIn(Head(<<f>> \o t), e)
         /\ TasksIn(Task(<<f>> \o t), e)
         /\ TasksIn(Task(<<f>>), e)
<1>1. Head(<<f>> \o t) = f /\ Head(<<f>>) = f
  OBVIOUS
<1> QED
  BY <1>1, TaskIn

\* The same for two frames pushed.
LEMMA PairReady ==
  ASSUME NEW f \in Frames, NEW g \in Frames, NEW t \in Seq(Frames), NEW e,
         ReadyIn(f, e)
  PROVE  /\ <<f, g>> \o t # <<>> => ReadyIn(Head(<<f, g>> \o t), e)
         /\ TasksIn(Task(<<f, g>>), e)
<1>1. Head(<<f, g>> \o t) = f /\ Head(<<f, g>>) = f
  OBVIOUS
<1> QED
  BY <1>1, TaskIn

\* A handler that just returns.
LEMMA ReturnIn ==
  ASSUME TypeOK, AllFit, NEW n \in Nodes, NEW op, NEW s \in Waiting(n, op),
         NEW e, TasksIn(tasks[n], e)
  PROVE  TasksIn(Becomes(n, s, Tail(s)), e)
  BY WaitingFrame, WaitingQuick, QuickReady, BecomesIn

\* A handler that goes on with another frame.
LEMMA ResumeIn ==
  ASSUME TypeOK, NEW n \in Nodes, NEW op, NEW s \in Waiting(n, op),
         NEW e, TasksIn(tasks[n], e), NEW f \in Frames, ReadyIn(f, e)
  PROVE  TasksIn(Becomes(n, s, <<f>> \o Tail(s)), e)
  BY WaitingFrame, PushReady, BecomesIn

\* The frame on top of a suspended handler is ready.
LEMMA WaitingReady ==
  ASSUME NEW n, NEW op, NEW s \in Waiting(n, op), NEW e, TasksIn(tasks[n], e)
  PROVE  ReadyIn(Head(s), e)
  BY DEF TasksIn, Waiting, Stacks

-----------------------------------------------------------------------------
(* Quorums have voters.                                                    *)

LEMMA QuorumVoter ==
  ASSUME NEW pool \in SUBSET Votes, NEW h, NEW r, NEW ty, NEW hash,
         HasQuorum(pool, h, r, ty, hash)
  PROVE  \E v \in pool : /\ v.height = h /\ v.round = r
                         /\ v.type = ty /\ v.hash = hash
<1> DEFINE A == VotersFor(pool, h, r, ty, hash)
           N == Len(ValidatorList)
<1>1. N \in Nat
  BY ValidatorAssumption
<1>2. 10 * Cardinality(A) >= ((N * 10 * 2) \div 3) + 1
  BY DEF HasQuorum, getQuorum, Power
<1> HIDE DEF N
<1>3. (N * 10 * 2) \div 3 >= 0
  <2>1. N * 10 * 2 \in Nat
    BY <1>1
  <2> QED
    BY <2>1
<1>4. (N * 10 * 2) \div 3 \in Int
  BY <1>1
<1>5. A # {}
  <2>1. Cardinality({}) = 0
    BY FS_EmptySet
  <2> SUFFICES ASSUME A = {} PROVE FALSE
    OBVIOUS
  <2>2. Cardinality(A) = 0
    BY <2>1
  <2> HIDE DEF A
  <2> QED
    BY <1>2, <1>3, <1>4, <2>2
<1> QED
  BY <1>5 DEF VotersFor

\* What a quorum decides is a block of the height it decides, or none.
LEMMA QuorumHeight ==
  ASSUME TypeOK, NEW n \in Nodes, NEW h, NEW r, NEW ty, NEW hash,
         \A v \in votes[n] : HashFits(v),
         HasQuorum(votes[n], h, r, ty, hash)
  PROVE  /\ hash # Nil => hash.height = h
         /\ \E v \in votes[n] : /\ v.height = h /\ v.round = r
                                /\ v.type = ty /\ v.hash = hash
<1>1. PICK v \in votes[n] : /\ v.height = h /\ v.round = r
                            /\ v.type = ty /\ v.hash = hash
  BY QuorumVoter DEF TypeOK
<1> QED
  BY <1>1 DEF HashFits

-----------------------------------------------------------------------------
(* Every step of a node leaves its handlers ready for what it leaves.      *)

SettlesIn(n, e) ==
  UNCHANGED <<tasks, ballots>> \/ \E bag : TasksIn(bag, e) /\ Run(n, bag)

\* e has the name of n, and all of its pending blocks or none that matter.
Reads(n, e) ==
  /\ e.node = n
  /\ e.height = height[n]
  /\ pending[n] \subseteq e.pending

\* startRound() proposes, or prevotes a block that the node has.
LEMMA EnterRoundIn ==
  ASSUME TypeOK, NEW n \in Nodes, NEW h \in Nat, NEW r \in Nat, NEW rest,
         NEW e, Reads(n, e), h <= height[n] + 1, TasksIn(rest, e),
         state' \in [Nodes -> Seq(Payloads)], EnterRound(n, h, r, rest)
  PROVE  SettlesIn(n, e)
<1>1. CASE getProposer(h, r) = n
  <2>1. PICK p \in Proposals(n) :
           Run(n, rest (+) Task(<<Propose(Append(state'[n], p))>>))
    BY <1>1 DEF EnterRound
  <2> DEFINE f == Propose(Append(state'[n], p))
  <2>2. ReadyIn(f, e)
    BY PlainReady DEF Plain, Propose
  <2> HIDE DEF f
  <2>3. TasksIn(Task(<<f>>), e)
    BY <2>2, TaskIn
  <2>4. TasksIn(rest (+) Task(<<f>>), e)
    BY <2>3, PlusIn
  <2> QED
    BY <2>1, <2>4 DEF SettlesIn, f
<1>2. CASE getProposer(h, r) # n
  <2> DEFINE Stack(b) == <<Publish(NewVote(n, "PREVOTE", b, h, r))>>
             bag == SetToBag({Stack(b) : b \in Found(n, h, r)})
  <2>1. Run(n, rest (+) bag)
    BY <1>2 DEF EnterRound
  <2>2. ASSUME NEW b \in Found(n, h, r) PROVE ReadyIn(Head(Stack(b)), e)
    <3> DEFINE v == NewVote(n, "PREVOTE", b, h, r)
    <3>1. b \in pending[n] /\ b.height = h
      BY DEF Found
    <3>2. /\ v.validator = n /\ v.type = "PREVOTE"
          /\ v.hash = b /\ v.height = h
      BY DEF NewVote
    <3> HIDE DEF v
    <3>3. HashFits(v) /\ VoteIn(v, e)
      BY <3>1, <3>2 DEF HashFits, VoteIn, Reads
    <3>4. ReadyIn(Publish(v), e)
      BY <3>2, <3>3 DEF ReadyIn, Publish, Reads
    <3> QED
      BY <3>4 DEF v
  <2>3. DOMAIN bag = {Stack(b) : b \in Found(n, h, r)}
    BY DEF SetToBag
  <2> HIDE DEF bag
  <2>4. TasksIn(bag, e)
    <3> SUFFICES ASSUME NEW s \in DOMAIN bag PROVE ReadyIn(Head(s), e)
      BY DEF TasksIn
    <3>1. PICK b \in Found(n, h, r) : s = Stack(b)
      BY <2>3
    <3> QED
      BY <2>2, <3>1
  <2>5. TasksIn(rest (+) bag, e)
    BY <2>4, PlusIn
  <2> QED
    BY <2>1, <2>5 DEF SettlesIn
<1> QED
  BY <1>1, <1>2

\* handleVote() publishes and commits nothing.
LEMMA HandleVoteIn ==
  ASSUME TypeOK, NEW n \in Nodes, NEW v \in Votes, NEW others,
         NEW e, TasksIn(others, e), NEW rest \in Seq(Frames), Quick(n, rest),
         HandleVote(n, v, others, rest)
  PROVE  SettlesIn(n, e)
<1> DEFINE f == CheckQuorum(v.height, v.round, v.type)
<1>1. f \in Frames /\ SaveSlashed \in Frames
  BY FramesTyped DEF Votes
<1>2. ReadyIn(f, e) /\ ReadyIn(SaveSlashed, e)
  BY PlainReady DEF Plain, CheckQuorum, SaveSlashed
<1>3. /\ TasksIn(Task(<<f>> \o rest), e)
      /\ TasksIn(Task(<<SaveSlashed>> \o rest), e)
      /\ TasksIn(Task(rest), e)
  BY <1>1, <1>2, PushReady, QuickReady
<1>4. \/ Run(n, others (+) Task(<<f>> \o rest))
      \/ Run(n, others (+) Task(<<SaveSlashed>> \o rest))
      \/ Run(n, others (+) Task(rest))
  BY DEF HandleVote
<1> HIDE DEF f
<1> QED
  BY <1>3, <1>4, PlusIn DEF SettlesIn

\* Handling a block, one's own or another's, starts a verification at most.
LEMMA BlockStepsIn ==
  ASSUME TypeOK, AllFit, NEW n \in Nodes, NEW e, TasksIn(tasks[n], e),
         ProposalPublished(n) \/ ReceiveBlock(n)
  PROVE  SettlesIn(n, e)
<1>1. ASSUME NEW b, NEW rest, TasksIn(rest, e), HandleBlock(n, b, rest)
      PROVE  SettlesIn(n, e)
  <2>1. ReadyIn(Verify(b), e)
    BY PlainReady DEF Plain, Verify
  <2>2. TasksIn(Task(<<Verify(b)>>), e)
    BY <2>1, TaskIn
  <2>3. Run(n, rest) \/ Run(n, rest (+) Task(<<Verify(b)>>))
    BY <1>1 DEF HandleBlock
  <2> QED
    BY <1>1, <2>2, <2>3, PlusIn DEF SettlesIn
<1>2. CASE ProposalPublished(n)
  <2>1. PICK s \in Waiting(n, "publishBlock") :
          HandleBlock(n, Head(s).block, Becomes(n, s, Tail(s)))
    BY <1>2 DEF ProposalPublished
  <2> QED
    BY <1>1, <2>1, ReturnIn
<1>3. CASE ReceiveBlock(n)
  BY <1>1, <1>3 DEF ReceiveBlock
<1> QED
  BY <1>2, <1>3

\* Handling a vote, one's own or another's, and the ends of handlers.
LEMMA VoteStepsIn ==
  ASSUME TypeOK, AllFit, NEW n \in Nodes, NEW e, TasksIn(tasks[n], e),
         \/ VotePublished(n) \/ ReceiveVote(n)
         \/ SlashSaved(n) \/ TimeoutVoted(n) \/ NothingDecided(n)
         \/ VotesCounted(n)
  PROVE  SettlesIn(n, e)
<1>1. CASE VotePublished(n)
  <2>1. PICK s \in Waiting(n, "publish") :
          HandleVote(n, Head(s).vote, tasks[n] (-) SetToBag({s}), Tail(s))
    BY <1>1 DEF VotePublished
  <2>2. /\ Head(s).vote \in Votes
        /\ Tail(s) \in Seq(Frames) /\ Quick(n, Tail(s))
    BY WaitingFrame, FrameFields, WaitingQuick
  <2>3. TasksIn(tasks[n] (-) SetToBag({s}), e)
    BY MinusIn
  <2> QED
    BY <2>1, <2>2, <2>3, HandleVoteIn
<1>2. CASE ReceiveVote(n)
  <2>1. PICK v \in ballots : HandleVote(n, v, tasks[n], <<>>)
    BY <1>2 DEF ReceiveVote
  <2>2. v \in Votes /\ <<>> \in Seq(Frames) /\ Quick(n, <<>>)
    BY DEF TypeOK, Quick
  <2> QED
    BY <2>1, <2>2, HandleVoteIn
<1>3. CASE SlashSaved(n) \/ TimeoutVoted(n) \/ NothingDecided(n)
  <2>1. PICK op \in {"saveSlashed", "setStep", "quorum"} :
          \E s \in Waiting(n, op) : Run(n, Becomes(n, s, Tail(s)))
    BY <1>3 DEF SlashSaved, TimeoutVoted, NothingDecided
  <2> QED
    BY <2>1, ReturnIn DEF SettlesIn
<1>4. CASE VotesCounted(n)
  <2>1. PICK s \in Waiting(n, "checkQuorum"), t \in Seq(Frames) :
          Quick(n, t) /\ Run(n, Becomes(n, s, t))
    BY <1>4, CountedQuick
  <2>2. TasksIn(Becomes(n, s, t), e)
    BY <2>1, QuickReady, BecomesIn
  <2> QED
    BY <2>1, <2>2 DEF SettlesIn
<1> QED
  BY <1>1, <1>2, <1>3, <1>4

\* A proposal built is published.
LEMMA ProposalExecutedIn ==
  ASSUME TypeOK, AllFit, NEW n \in Nodes, NEW e, TasksIn(tasks[n], e),
         ProposalExecuted(n)
  PROVE  SettlesIn(n, e)
<1>1. PICK s \in Waiting(n, "propose") :
        LET b == NewBlock(n, height[n] + 1, round[n], Head(s).root)
        IN  Run(n, Becomes(n, s, <<PublishBlock(b)>>))
  BY DEF ProposalExecuted
<1> DEFINE b == NewBlock(n, height[n] + 1, round[n], Head(s).root)
           f == PublishBlock(b)
<1>2. ReadyIn(f, e)
  BY PlainReady DEF Plain, PublishBlock
<1> HIDE DEF f
<1>3. TasksIn(Becomes(n, s, <<f>>), e)
  BY <1>2, BecomesIn
<1> QED
  BY <1>1, <1>3 DEF SettlesIn, f

\* The rounds entered after a wait, a quorum or a failed commit.
LEMMA RoundStepsIn ==
  ASSUME TypeOK, AllFit, NEW n \in Nodes, NEW e, Reads(n, e),
         TasksIn(tasks[n], e),
         \/ StartRoundZero(n) \/ JumpToRound(n)
         \/ NilDecided(n) \/ CommitFailed(n)
  PROVE  SettlesIn(n, e)
<1>1. height[n] + 1 \in Nat /\ round[n] + 1 \in Nat
  BY DEF TypeOK
<1>2. CASE StartRoundZero(n)
  <2>1. PICK s \in Waiting(n, "startRound") :
          EnterRound(n, Head(s).height, 0, Becomes(n, s, Tail(s)))
    BY <1>2 DEF StartRoundZero
  <2>2. Head(s).height \in Nat /\ Head(s).op = "startRound"
    BY WaitingFrame, FrameFields
  <2>3. state' \in [Nodes -> Seq(Payloads)]
    BY <1>2 DEF StartRoundZero, TypeOK, chainVars
  <2>4. Head(s).height <= height[n] + 1
    BY <2>2, WaitingReady DEF ReadyIn, Reads
  <2>5. TasksIn(Becomes(n, s, Tail(s)), e)
    BY ReturnIn
  <2> QED
    BY <2>1, <2>2, <2>3, <2>4, <2>5, EnterRoundIn
<1>3. CASE JumpToRound(n)
  <2>1. PICK s \in Waiting(n, "quorum") :
          /\ EnterRound(n, Head(s).height, Head(s).round, tasks[n])
          /\ Head(s).height = height[n] + 1
    BY <1>3 DEF JumpToRound, Behind
  <2>2. Head(s).height \in Nat /\ Head(s).round \in Nat
    BY WaitingFrame, FrameFields
  <2>3. state' \in [Nodes -> Seq(Payloads)]
    BY <1>3 DEF JumpToRound, TypeOK, chainVars
  <2>4. Head(s).height <= height[n] + 1
    BY <2>1, <2>2
  <2> QED
    BY <2>1, <2>2, <2>3, <2>4, EnterRoundIn
<1>4. CASE NilDecided(n)
  <2>1. PICK s \in Waiting(n, "quorum") :
          EnterRound(n, height[n] + 1, round[n] + 1, Becomes(n, s, Tail(s)))
    BY <1>4 DEF NilDecided
  <2>2. state' \in [Nodes -> Seq(Payloads)]
    BY <1>4 DEF NilDecided, TypeOK, chainVars
  <2>3. TasksIn(Becomes(n, s, Tail(s)), e)
    BY ReturnIn
  <2>4. height[n] + 1 <= height[n] + 1
    BY <1>1
  <2> QED
    BY <1>1, <2>1, <2>2, <2>3, <2>4, EnterRoundIn
<1>5. CASE CommitFailed(n)
  <2>1. PICK s \in Waiting(n, "commit") :
          /\ \/ UNCHANGED state
             \/ state' = [state EXCEPT ![n] = Append(@, Payload(Head(s).block))]
          /\ EnterRound(n, height[n] + 1, round[n] + 1, Becomes(n, s, Tail(s)))
    BY <1>5 DEF CommitFailed
  <2>2. state' \in [Nodes -> Seq(Payloads)]
    <3>1. CASE UNCHANGED state
      BY <3>1 DEF TypeOK
    <3>2. CASE state' = [state EXCEPT ![n] = Append(@, Payload(Head(s).block))]
      BY <3>2, StateTyped
    <3> QED
      BY <2>1, <3>1, <3>2
  <2>3. TasksIn(Becomes(n, s, Tail(s)), e) /\ height[n] + 1 <= height[n] + 1
    BY <1>1, ReturnIn
  <2> QED
    BY <1>1, <2>1, <2>2, <2>3, EnterRoundIn
<1> QED
  BY <1>2, <1>3, <1>4, <1>5

\* The timer makes a node vote nil, or enter the next round.
LEMMA TimeoutIn ==
  ASSUME TypeOK, AllFit, NEW n \in Nodes, NEW e, Reads(n, e),
         TasksIn(tasks[n], e), Timeout(n)
  PROVE  SettlesIn(n, e)
<1> DEFINE h == height[n] + 1
           r == round[n]
           Nils(ty) == <<Publish(NewVote(n, ty, Nil, h, r)), SetStep(ty)>>
<1>1. h \in Nat /\ r \in Nat /\ r + 1 \in Nat /\ h <= height[n] + 1
  BY DEF TypeOK
<1>2. state' \in [Nodes -> Seq(Payloads)]
  BY DEF Timeout, TypeOK, chainVars
<1>3. \/ EnterRound(n, h, r + 1, tasks[n])
      \/ \E ty \in VoteTypes : Run(n, tasks[n] (+) Task(Nils(ty)))
      \/ Run(n, tasks[n])
      \/ UNCHANGED <<tasks, ballots>>
  BY DEF Timeout, VoteTypes
<1>4. ASSUME NEW ty \in VoteTypes
      PROVE  TasksIn(tasks[n] (+) Task(Nils(ty)), e)
  <2> DEFINE v == NewVote(n, ty, Nil, h, r)
  <2>1. v.validator = n /\ v.hash = Nil
    BY DEF NewVote
  <2> HIDE DEF v
  <2>2. ReadyIn(Publish(v), e)
    BY <2>1 DEF ReadyIn, Publish, HashFits, VoteIn, Reads
  <2>3. Head(Nils(ty)) = Publish(v)
    BY DEF v
  <2>4. TasksIn(Task(Nils(ty)), e)
    BY <2>2, <2>3, TaskIn
  <2> QED
    BY <2>4, PlusIn
<1> HIDE DEF Nils, h, r
<1>5. CASE EnterRound(n, h, r + 1, tasks[n])
  BY <1>1, <1>2, <1>5, EnterRoundIn
<1> QED
  BY <1>3, <1>4, <1>5 DEF SettlesIn

\* handleBlock() prevotes the block it has just stored.
LEMMA BlockExecutedIn ==
  ASSUME TypeOK, AllFit, NEW n \in Nodes, NEW e, Reads(n, e),
         pending'[n] \subseteq e.pending,
         TasksIn(tasks[n], e), BlockExecuted(n)
  PROVE  SettlesIn(n, e)
<1>1. PICK s \in Waiting(n, "verify") : BlockExecuted(n)!(s)
  BY DEF BlockExecuted
<1> DEFINE b      == Head(s).block
           quorum == CheckQuorum(b.height, b.round, "PREVOTE")
           vote   == NewVote(n, "PREVOTE", b, b.height, b.round)
<1>2. b \in Blocks /\ Tail(s) \in Seq(Frames)
  BY WaitingFrame, FrameFields
<1>3. b.height \in Nat /\ b.round \in Nat /\ height[n] \in Nat
  BY <1>2 DEF Blocks, TypeOK
<1>4. quorum \in Frames /\ Publish(vote) \in Frames
  BY <1>2, <1>3, NodeVotes, NewVoteTyped, FramesTyped DEF VoteTypes
<1>5. /\ vote.validator = n /\ vote.type = "PREVOTE"
      /\ vote.hash = b /\ vote.height = b.height
  BY DEF NewVote
<1>6. ReadyIn(quorum, e)
  BY PlainReady DEF Plain, CheckQuorum
<1>7. TasksIn(Becomes(n, s, <<quorum>> \o Tail(s)), e)
  BY <1>4, <1>6, ResumeIn
<1>8. TasksIn(Becomes(n, s, Tail(s)), e)
  BY ReturnIn
<1>9. ASSUME b.height = height[n] + 1,
             pending' = [pending EXCEPT ![n] = @ \cup {b}]
      PROVE  TasksIn(Becomes(n, s, <<Publish(vote), quorum>> \o Tail(s)), e)
  <2>1. b \in e.pending
    BY <1>9 DEF TypeOK
  <2> HIDE DEF b, quorum, vote
  <2>2. HashFits(vote) /\ VoteIn(vote, e)
    BY <1>3, <1>5, <1>9, <2>1 DEF HashFits, VoteIn, Reads
  <2>3. ReadyIn(Publish(vote), e)
    BY <1>5, <2>2 DEF ReadyIn, Publish, Reads
  <2> QED
    BY <1>2, <1>4, <2>3, PairReady, BecomesIn
<1> HIDE DEF quorum, vote
<1>10. \/ /\ b.height = height[n] + 1
          /\ pending' = [pending EXCEPT ![n] = @ \cup {b}]
          /\ Run(n, Becomes(n, s, <<Publish(vote), quorum>> \o Tail(s)))
       \/ Run(n, Becomes(n, s, <<quorum>> \o Tail(s)))
       \/ Run(n, Becomes(n, s, Tail(s)))
  BY <1>1 DEF quorum, vote
<1> HIDE DEF b
<1> QED
  BY <1>7, <1>8, <1>9, <1>10 DEF SettlesIn

\* checkQuorum() precommits a block of the height of its quorum.
LEMMA PrecommitDecidedIn ==
  ASSUME TypeOK, AllFit, NEW n \in Nodes, NEW e, Reads(n, e),
         \A v \in votes[n] : HashFits(v),
         TasksIn(tasks[n], e), PrecommitDecided(n)
  PROVE  SettlesIn(n, e)
<1>1. PICK s \in Waiting(n, "quorum") : PrecommitDecided(n)!(s)
  BY DEF PrecommitDecided
<1> DEFINE h == Head(s).height
           r == Head(s).round
           hash == Head(s).hash
           vote   == NewVote(n, "PRECOMMIT", hash, h, r)
           quorum == CheckQuorum(h, r, "PRECOMMIT")
<1>2. Run(n, Becomes(n, s, <<Publish(vote), quorum>> \o Tail(s)))
  BY <1>1
<1>3. /\ h \in Nat /\ r \in Nat /\ hash \in Blocks \cup {Nil}
      /\ Tail(s) \in Seq(Frames)
  BY WaitingFrame, FrameFields
<1>4. hash # Nil => hash.height = h
  <2> DEFINE ty == Head(s).type
  <2>1. HasQuorum(votes[n], h, r, ty, hash)
    BY WaitingCounted
  <2> HIDE DEF h, r, ty, hash
  <2> QED
    BY <2>1, QuorumHeight
<1>5. quorum \in Frames /\ Publish(vote) \in Frames
  BY <1>3, NodeVotes, NewVoteTyped, FramesTyped DEF VoteTypes
<1>6. /\ vote.validator = n /\ vote.type = "PRECOMMIT"
      /\ vote.hash = hash /\ vote.height = h
  BY DEF NewVote
<1> HIDE DEF vote, quorum, h, r, hash
<1>7. HashFits(vote) /\ VoteIn(vote, e)
  BY <1>4, <1>6 DEF HashFits, VoteIn
<1>8. ReadyIn(Publish(vote), e)
  BY <1>6, <1>7 DEF ReadyIn, Publish, Reads
<1>9. TasksIn(Becomes(n, s, <<Publish(vote), quorum>> \o Tail(s)), e)
  BY <1>3, <1>5, <1>8, PairReady, BecomesIn
<1> QED
  BY <1>2, <1>9 DEF SettlesIn

\* commitBlock() goes on when its height is still the next one.
LEMMA CommitBlockIn ==
  ASSUME TypeOK, AllFit, NEW n \in Nodes, NEW e, Reads(n, e),
         TasksIn(tasks[n], e), NEW op, NEW s \in Waiting(n, op),
         NEW b \in Blocks, Committable(b, e), commitBlock(n, b, s)
  PROVE  SettlesIn(n, e)
<1>1. b.height \in Nat /\ height[n] \in Nat /\ Commit(b) \in Frames
  BY FramesTyped DEF Blocks, TypeOK
<1>2. ASSUME ~Superseded(n, b)
      PROVE  TasksIn(Becomes(n, s, <<Commit(b)>> \o Tail(s)), e)
  <2>1. b.height = e.height + 1
    BY <1>1, <1>2 DEF Superseded, Committable, Reads
  <2>2. ReadyIn(Commit(b), e)
    BY <2>1 DEF ReadyIn, Commit
  <2> QED
    BY <1>1, <2>2, ResumeIn
<1> QED
  BY <1>2, ReturnIn DEF SettlesIn, commitBlock

\* checkQuorum() commits a block that the node has and a quorum precommitted.
LEMMA CommitDecidedIn ==
  ASSUME TypeOK, AllFit, NEW n \in Nodes, NEW e, Reads(n, e),
         e.votes = votes[n], e.state = state[n],
         \A v \in votes[n] : HashFits(v),
         MaxFailures = 0 => \A b \in pending[n] : Executes(n, b),
         TasksIn(tasks[n], e), CommitDecided(n)
  PROVE  SettlesIn(n, e)
<1>1. PICK s \in Waiting(n, "quorum") : CommitDecided(n)!(s)
  BY DEF CommitDecided
<1> DEFINE h == height[n] + 1
           r == Head(s).round
           b == Head(s).hash
<1>2. /\ b \in pending[n] /\ Head(s).height = h /\ Head(s).type = "PRECOMMIT"
      /\ \/ Run(n, Becomes(n, s, <<AwaitCommit(b)>> \o Tail(s)))
         \/ commitBlock(n, b, s)
  BY <1>1 DEF CanCommit
<1>3. b \in Blocks /\ Tail(s) \in Seq(Frames)
  BY <1>2, WaitingFrame DEF TypeOK
<1>4. HasQuorum(votes[n], h, r, "PRECOMMIT", b)
  BY <1>2, WaitingCounted
<1> HIDE DEF h, r, b
<1>5. /\ b # Nil => b.height = h
      /\ \E v \in votes[n] : /\ v.height = h /\ v.round = r
                             /\ v.type = "PRECOMMIT" /\ v.hash = b
  BY <1>4, QuorumHeight
<1>6. b.height = h
  BY <1>3, <1>5, NilAssumption
<1>7. Certified(b, e)
  BY <1>4, <1>5, <1>6 DEF Certified
<1>8. h \in Nat /\ h = e.height + 1
  BY DEF TypeOK, Reads, h
<1>9. Committable(b, e)
  BY <1>2, <1>6, <1>7, <1>8 DEF Committable, Executes
<1>10. CASE commitBlock(n, b, s)
  BY <1>3, <1>9, <1>10, CommitBlockIn
<1>11. CASE Run(n, Becomes(n, s, <<AwaitCommit(b)>> \o Tail(s)))
  <2>1. AwaitCommit(b) \in Frames
    BY <1>3, FramesTyped
  <2>2. ReadyIn(AwaitCommit(b), e)
    BY <1>9 DEF ReadyIn, AwaitCommit
  <2>3. TasksIn(Becomes(n, s, <<AwaitCommit(b)>> \o Tail(s)), e)
    BY <2>1, <2>2, ResumeIn
  <2> QED
    BY <1>11, <2>3 DEF SettlesIn
<1> QED
  BY <1>2, <1>10, <1>11

\* So does a commit that has waited for the mutex.
LEMMA CommitLockedIn ==
  ASSUME TypeOK, AllFit, NEW n \in Nodes, NEW e, Reads(n, e),
         TasksIn(tasks[n], e), CommitLocked(n)
  PROVE  SettlesIn(n, e)
<1>1. PICK s \in Waiting(n, "awaitCommit") : commitBlock(n, Head(s).block, s)
  BY DEF CommitLocked
<1> DEFINE b == Head(s).block
<1>2. Head(s).op = "awaitCommit" /\ b \in Blocks
  BY WaitingFrame, FrameFields
<1>3. Committable(b, e)
  BY <1>2, WaitingReady DEF ReadyIn
<1> QED
  BY <1>1, <1>2, <1>3, CommitBlockIn

-----------------------------------------------------------------------------
(* Frames that are ready stay ready.                                       *)

\* e is what d becomes by a step that does not end the height.
Grown(d, e) ==
  /\ e.node = d.node /\ e.height = d.height
  /\ d.pending \subseteq e.pending
  /\ \A b : Certified(b, d) => Certified(b, e)
  /\ MaxFailures = 0 => e.state = d.state

LEMMA ReadyGrows ==
  ASSUME NEW f, NEW d, NEW e, ReadyIn(f, d), Grown(d, e)
  PROVE  ReadyIn(f, e)
<1>1. ASSUME NEW v, VoteIn(v, d) PROVE VoteIn(v, e)
  BY <1>1 DEF VoteIn, Grown
<1>2. ASSUME NEW b, Committable(b, d) PROVE Committable(b, e)
  BY <1>2 DEF Committable, Grown
<1> QED
  BY <1>1, <1>2 DEF ReadyIn, Grown

\* e is what d becomes by a commit.
Ended(d, e) ==
  /\ e.node = d.node
  /\ d.height \in Nat /\ e.height = d.height + 1
  /\ \A b : Certified(b, d) => Certified(b, e)

\* A commit leaves the votes of its height and the waiting commits behind.
LEMMA ReadyEnded ==
  ASSUME NEW f \in Frames, NEW d, NEW e, ReadyIn(f, d), Ended(d, e),
         f.op # "commit"
  PROVE  ReadyIn(f, e)
<1>1. CASE f.op = "publish"
  <2>1. f.vote \in Votes
    BY <1>1, FrameFields
  <2>2. f.vote.height \in Nat
    BY <2>1 DEF Votes
  <2>3. VoteIn(f.vote, e)
    BY <1>1, <2>2 DEF ReadyIn, VoteIn, Ended
  <2> QED
    BY <1>1, <2>3 DEF ReadyIn, Ended
<1>2. CASE f.op = "startRound"
  <2>1. f.height \in Nat
    BY <1>2, FrameFields
  <2>2. f.height <= e.height + 1
    BY <1>2, <2>1 DEF ReadyIn, Ended
  <2> QED
    BY <1>2, <2>2 DEF ReadyIn
<1>3. CASE f.op = "awaitCommit"
  <2>1. f.block \in Blocks
    BY <1>3, FrameFields
  <2>2. f.block.height \in Nat
    BY <2>1 DEF Blocks
  <2>3. Committable(f.block, d)
    BY <1>3 DEF ReadyIn
  <2>4. Certified(f.block, e)
    BY <2>3 DEF Committable, Ended
  <2>5. f.block.height <= e.height + 1 /\ f.block.height # e.height + 1
    BY <2>2, <2>3 DEF Committable, Ended
  <2>6. Committable(f.block, e)
    BY <2>4, <2>5 DEF Committable
  <2> QED
    BY <1>3, <2>6 DEF ReadyIn
<1> QED
  BY <1>1, <1>2, <1>3, PlainReady DEF Plain

\* Votes that are in d stay in what d becomes.
LEMMA VoteStays ==
  ASSUME NEW v \in Votes, NEW d, NEW e, VoteIn(v, d), Grown(d, e) \/ Ended(d, e)
  PROVE  VoteIn(v, e)
<1>1. v.height \in Nat
  BY DEF Votes
<1> QED
  BY <1>1 DEF VoteIn, Grown, Ended

-----------------------------------------------------------------------------
(* The invariant.                                                          *)

\* What n has stored, and what has been executed to reach its state.
StoreIn(n) ==
  /\ Len(chain[n]) = height[n]
  /\ \A i \in DOMAIN chain[n] : Certified(chain[n][i], Env(n))
  /\ MaxFailures = 0 => /\ state[n] = Chain!Root(chain[n])
                        /\ \A b \in pending[n] : Executes(n, b)

LockIn(n) ==
  locked[n] # Nil => /\ locked[n] \in pending[n]
                     /\ locked[n].height = height[n] + 1

VotesIn(n) ==
  /\ \A v \in votes[n] : HashFits(v)
  /\ \A v \in ballots : v.validator = n => VoteIn(v, Env(n))

NodeIn(n) ==
  TasksIn(tasks[n], Env(n)) /\ LockIn(n) /\ VotesIn(n) /\ StoreIn(n)

BallotsFit == \A v \in ballots : HashFits(v)

AllIn == BallotsFit /\ \A n \in Nodes : NodeIn(n)

-----------------------------------------------------------------------------
(* What the steps of a node leave alone.                                   *)

\* Only the end of a commit changes the height and the store of a node, and
\* only a block that has been executed joins those it keeps.
LEMMA Ordinary ==
  ASSUME TypeOK, NEW n \in Nodes, NodeStep(n),
         ~BlockCommitted(n), ~ExecutionFailed(n)
  PROVE  /\ height' = height /\ chain' = chain
         /\ \/ pending' = pending
            \/ \E b : /\ Executes(n, b)
                      /\ pending' = [pending EXCEPT ![n] = @ \cup {b}]
         /\ MaxFailures = 0 => state' = state
<1>1. CASE CommitFailed(n)
  <2>1. MaxFailures # 0
    BY <1>1 DEF CommitFailed, TypeOK
  <2> QED
    BY <1>1, <2>1 DEF CommitFailed, lockVars
<1>2. CASE BlockExecuted(n)
  BY <1>2 DEF BlockExecuted, chainVars
<1>3. CASE ~CommitFailed(n) /\ ~BlockExecuted(n)
  BY <1>3 DEF NodeStep, StartRoundZero, ProposalExecuted, ProposalPublished,
     VotePublished, SlashSaved, TimeoutVoted, VotesCounted, JumpToRound,
     PrecommitDecided, CommitDecided, NilDecided, NothingDecided, CommitLocked, ReceiveBlock,
     ReceiveVote, Timeout, chainVars, lockVars
<1> QED
  BY <1>1, <1>2, <1>3

\* The blocks that a node keeps while the height lasts.
LEMMA PendingGrows ==
  ASSUME TypeOK, NEW n \in Nodes, NodeStep(n),
         ~BlockCommitted(n), ~ExecutionFailed(n)
  PROVE  /\ pending[n] \subseteq pending'[n]
         /\ \A b \in pending'[n] : b \in pending[n] \/ Executes(n, b)
<1>1. CASE pending' = pending
  BY <1>1
<1>2. ASSUME NEW b, Executes(n, b),
             pending' = [pending EXCEPT ![n] = @ \cup {b}]
      PROVE  /\ pending[n] \subseteq pending'[n]
             /\ \A c \in pending'[n] : c \in pending[n] \/ Executes(n, c)
  <2>1. pending'[n] = pending[n] \cup {b}
    BY <1>2 DEF TypeOK
  <2> QED
    BY <1>2, <2>1
<1> QED
  BY <1>1, <1>2, Ordinary

\* A step of n changes what belongs to n.
LEMMA OtherEnv ==
  ASSUME TypeOK, AllFit, NEW n \in Nodes, NodeStep(n),
         NEW m \in Nodes, m # n
  PROVE  /\ tasks'[m] = tasks[m] /\ locked'[m] = locked[m]
         /\ height'[m] = height[m] /\ pending'[m] = pending[m]
         /\ votes'[m] = votes[m] /\ state'[m] = state[m]
         /\ chain'[m] = chain[m]
<1>1. tasks'[m] = tasks[m]
  BY OtherNodes
<1>2. CASE BlockCommitted(n) \/ ExecutionFailed(n)
  <2>1. votes' = votes
    BY <1>2 DEF BlockCommitted, ExecutionFailed, SaveBlock, voteVars
  <2> QED
    BY <1>1, <1>2, <2>1
       DEF BlockCommitted, ExecutionFailed, SaveBlock, TypeOK
<1>3. CASE ~BlockCommitted(n) /\ ~ExecutionFailed(n)
  <2>1. height' = height /\ chain' = chain /\ pending'[m] = pending[m]
    BY <1>3, Ordinary, ZenonT(40) DEF TypeOK
  <2>2. \/ state' = state
        \/ \E x : state' = [state EXCEPT ![n] = x]
    BY <1>3 DEF NodeStep, StartRoundZero, ProposalExecuted, ProposalPublished,
       BlockExecuted, VotePublished, SlashSaved, TimeoutVoted, VotesCounted,
       JumpToRound, PrecommitDecided, CommitDecided, NilDecided, NothingDecided,
       CommitLocked, CommitFailed, ReceiveBlock, ReceiveVote, Timeout, chainVars
  <2>3. \/ locked' = locked
        \/ \E x : locked' = [locked EXCEPT ![n] = x]
    BY <1>3 DEF NodeStep, StartRoundZero, ProposalExecuted, ProposalPublished,
       BlockExecuted, VotePublished, SlashSaved, TimeoutVoted, VotesCounted,
       JumpToRound, PrecommitDecided, CommitDecided, NilDecided, NothingDecided,
       CommitLocked, CommitFailed, ReceiveBlock, ReceiveVote, Timeout, lockVars
  <2>4. \/ votes' = votes
        \/ \E x : votes' = [votes EXCEPT ![n] = x]
    BY <1>3 DEF NodeStep, StartRoundZero, ProposalExecuted, ProposalPublished,
       BlockExecuted, VotePublished, SlashSaved, TimeoutVoted, VotesCounted,
       JumpToRound, PrecommitDecided, CommitDecided, NilDecided, NothingDecided,
       CommitLocked, CommitFailed, ReceiveBlock, ReceiveVote, Timeout,
       HandleVote, voteVars
  <2>5. state'[m] = state[m] /\ locked'[m] = locked[m] /\ votes'[m] = votes[m]
    BY <2>2, <2>3, <2>4 DEF TypeOK
  <2> QED
    BY <1>1, <2>1, <2>5
<1> QED
  BY <1>2, <1>3

\* A certified block stays certified.
LEMMA CertifiedStays ==
  ASSUME TypeOK, [Next]_vars, NEW n \in Nodes, NEW d, NEW e,
         d.votes = votes[n], e.votes = votes'[n], NEW b, Certified(b, d)
  PROVE  Certified(b, e)
<1>1. PICK v \in votes[n] :
        /\ v.height = b.height /\ v.type = "PRECOMMIT" /\ v.hash = b
        /\ HasQuorum(votes[n], b.height, v.round, "PRECOMMIT", b)
  BY DEF Certified
<1>2. v \in votes'[n]
  BY VotesStep
<1>3. HasQuorum(votes'[n], b.height, v.round, "PRECOMMIT", b)
  BY <1>1, QuorumStays
<1> QED
  BY <1>1, <1>2, <1>3 DEF Certified

\* The votes of a node fit: it takes them from what is published, or from a
\* handler of its own.
LEMMA VotesFit ==
  ASSUME TypeOK, NEW n \in Nodes, NodeStep(n), NodeIn(n), BallotsFit
  PROVE  \A v \in votes'[n] : HashFits(v)
<1>1. \A v \in votes[n] : HashFits(v)
  BY DEF NodeIn, VotesIn
<1>2. ASSUME NEW v, HashFits(v), NEW others, NEW rest,
             HandleVote(n, v, others, rest)
      PROVE  \A w \in votes'[n] : HashFits(w)
  <2>1. votes' = votes \/ votes' = [votes EXCEPT ![n] = @ \cup {v}]
    BY <1>2 DEF HandleVote, voteVars
  <2> QED
    BY <1>1, <1>2, <2>1 DEF TypeOK
<1>3. CASE VotePublished(n)
  <2>1. PICK s \in Waiting(n, "publish") :
          HandleVote(n, Head(s).vote, tasks[n] (-) SetToBag({s}), Tail(s))
    BY <1>3 DEF VotePublished
  <2>2. Head(s).op = "publish" /\ ReadyIn(Head(s), Env(n))
    BY WaitingFrame, WaitingReady DEF NodeIn
  <2>3. HashFits(Head(s).vote)
    BY <2>2 DEF ReadyIn
  <2> QED
    BY <1>2, <2>1, <2>3
<1>4. CASE ReceiveVote(n)
  BY <1>2, <1>4 DEF ReceiveVote, BallotsFit
<1>5. CASE ~VotePublished(n) /\ ~ReceiveVote(n)
  <2>1. votes' = votes
    BY <1>5 DEF NodeStep, StartRoundZero, ProposalExecuted,
       ProposalPublished, BlockExecuted, SlashSaved, TimeoutVoted,
       VotesCounted, JumpToRound, PrecommitDecided, CommitDecided, NilDecided,
       NothingDecided, CommitLocked, BlockCommitted, ExecutionFailed,
       CommitFailed, SaveBlock, ReceiveBlock, Timeout, voteVars
  <2> QED
    BY <1>1, <2>1
<1> QED
  BY <1>3, <1>4, <1>5

-----------------------------------------------------------------------------
(* Every step keeps the invariant.                                         *)

\* The handlers of n, and the votes published for it, after a step of n that
\* leaves e.
LEMMA RunIn ==
  ASSUME TypeOK, NEW n \in Nodes, BallotsFit, NEW e, e.node = n,
         NEW bag, TasksIn(bag, e), Run(n, bag),
         \A v \in ballots : v.validator = n => VoteIn(v, e)
  PROVE  /\ TasksIn(tasks'[n], e)
         /\ \A v \in ballots' : /\ HashFits(v)
                                /\ v.validator = n => VoteIn(v, e)
                                /\ v \in ballots \/ v.validator = n
<1>1. tasks'[n] = bag
  BY RunTasks
<1>2. ASSUME NEW v \in ballots', v \notin ballots
      PROVE  HashFits(v) /\ VoteIn(v, e) /\ v.validator = n
  <2>1. PICK s \in DOMAIN bag : Head(s).op = "publish" /\ v = Head(s).vote
    BY <1>2 DEF Run
  <2> QED
    BY <2>1 DEF TasksIn, ReadyIn
<1> QED
  BY <1>1, <1>2 DEF BallotsFit

\* The same, of a step that may leave the handlers alone.
LEMMA Settled ==
  ASSUME TypeOK, NEW n \in Nodes, BallotsFit, NEW e, e.node = n,
         SettlesIn(n, e), TasksIn(tasks[n], e),
         \A v \in ballots : v.validator = n => VoteIn(v, e)
  PROVE  /\ TasksIn(tasks'[n], e)
         /\ \A v \in ballots' : /\ HashFits(v)
                                /\ v.validator = n => VoteIn(v, e)
                                /\ v \in ballots \/ v.validator = n
<1>1. CASE UNCHANGED <<tasks, ballots>>
  BY <1>1 DEF BallotsFit
<1> QED
  BY <1>1, RunIn DEF SettlesIn

\* What a node needs, said of the state that a step leaves.
LEMMA NodeInPrime ==
  ASSUME NEW n \in Nodes, NEW e, e = Env(n)',
         TasksIn(tasks'[n], e), LockIn(n)', \A v \in votes'[n] : HashFits(v),
         \A v \in ballots' : v.validator = n => VoteIn(v, e),
         Len(chain'[n]) = height'[n],
         \A i \in DOMAIN chain'[n] : Certified(chain'[n][i], e),
         MaxFailures = 0 =>
           /\ state'[n] = Chain!Root(chain'[n])
           /\ \A b \in pending'[n] : b.root = Append(state'[n], Payload(b))
  PROVE  NodeIn(n)'
<1>1. TasksIn(tasks[n], Env(n))'
  OBVIOUS
<1>2. VotesIn(n)'
  BY DEF VotesIn
<1>3. StoreIn(n)'
  BY DEF StoreIn, Executes
<1> QED
  BY <1>1, <1>2, <1>3 DEF NodeIn

\* The lock is on a block of the next height that the node has.
LEMMA LockStays ==
  ASSUME TypeOK, AllFit, NEW n \in Nodes, NodeStep(n), NodeIn(n),
         ~BlockCommitted(n), ~ExecutionFailed(n)
  PROVE  LockIn(n)'
<1>1. height'[n] = height[n] /\ pending[n] \subseteq pending'[n]
  BY Ordinary, PendingGrows
<1>2. CASE PrecommitDecided(n)
  <2>1. PICK s \in Waiting(n, "quorum") : PrecommitDecided(n)!(s)
    BY <1>2 DEF PrecommitDecided
  <2> DEFINE h == Head(s).height
             hash == Head(s).hash
  <2>2. locked' = [locked EXCEPT ![n] = Lock(n, hash)]
    BY <2>1
  <2>3. h = height[n] + 1
    BY <2>1 DEF CanPrecommit
  <2>4. hash # Nil => hash.height = h
    <3>1. HasQuorum(votes[n], h, Head(s).round, Head(s).type, hash)
      BY WaitingCounted
    <3>2. \A v \in votes[n] : HashFits(v)
      BY DEF NodeIn, VotesIn
    <3> HIDE DEF h, hash
    <3> QED
      BY <3>1, <3>2, QuorumHeight
  <2>5. locked'[n] = Lock(n, hash)
    BY <2>2 DEF TypeOK
  <2> HIDE DEF h, hash
  <2> QED
    BY <1>1, <2>3, <2>4, <2>5 DEF Lock, LockIn, NodeIn
<1>3. CASE ~PrecommitDecided(n)
  <2>1. locked' = locked
    BY <1>3 DEF NodeStep, StartRoundZero, ProposalExecuted, ProposalPublished,
       BlockExecuted, VotePublished, SlashSaved, TimeoutVoted, VotesCounted,
       JumpToRound, CommitDecided, NilDecided, NothingDecided, CommitLocked, CommitFailed,
       ReceiveBlock, ReceiveVote, Timeout, lockVars
  <2> QED
    BY <1>1, <2>1 DEF LockIn, NodeIn
<1> QED
  BY <1>2, <1>3

\* A step of n that ends no height.
LEMMA OrdinaryIn ==
  ASSUME TypeOK, AllFit, [Next]_vars, NEW n \in Nodes, NodeStep(n), NodeIn(n),
         BallotsFit, ~BlockCommitted(n), ~ExecutionFailed(n)
  PROVE  /\ NodeIn(n)' /\ BallotsFit'
         /\ \A v \in ballots' : v \in ballots \/ v.validator = n
<1>1. PICK d : d = Env(n)
  OBVIOUS
<1>2. PICK e : e = Env(n)'
  OBVIOUS
<1>3. /\ d.node = n /\ d.height = height[n] /\ d.pending = pending[n]
      /\ d.votes = votes[n] /\ d.state = state[n]
  BY <1>1 DEF Env
<1>4. /\ e.node = n /\ e.height = height'[n] /\ e.pending = pending'[n]
      /\ e.votes = votes'[n] /\ e.state = state'[n]
  BY <1>2 DEF Env
<1>5. /\ height' = height /\ chain' = chain
      /\ pending[n] \subseteq pending'[n]
      /\ MaxFailures = 0 => state' = state
  BY Ordinary, PendingGrows
<1>6. \A b : Certified(b, d) => Certified(b, e)
  BY <1>3, <1>4, CertifiedStays
<1>7. Grown(d, e)
  BY <1>3, <1>4, <1>5, <1>6 DEF Grown
<1>8. TasksIn(tasks[n], e)
  <2>1. TasksIn(tasks[n], d)
    BY <1>1 DEF NodeIn
  <2> QED
    BY <1>7, <2>1, ReadyGrows DEF TasksIn
<1>9. \A v \in ballots : v.validator = n => VoteIn(v, e)
  <2>1. \A v \in ballots : v.validator = n => VoteIn(v, d)
    BY <1>1 DEF NodeIn, VotesIn
  <2>2. ballots \subseteq Votes
    BY DEF TypeOK
  <2> QED
    BY <1>7, <2>1, <2>2, VoteStays
<1>10. Reads(n, e) /\ pending'[n] \subseteq e.pending
  BY <1>4, <1>5 DEF Reads
<1>11. SettlesIn(n, e)
  <2>1. \A v \in votes[n] : HashFits(v)
    BY DEF NodeIn, VotesIn
  <2>2. CASE CommitDecided(n)
    <3>1. e.votes = votes[n] /\ e.state = state[n]
      BY <1>4, <2>2 DEF CommitDecided, voteVars, chainVars
    <3>2. MaxFailures = 0 => \A b \in pending[n] : Executes(n, b)
      BY DEF NodeIn, StoreIn
    <3> QED
      BY <1>8, <1>10, <2>1, <2>2, <3>1, <3>2, CommitDecidedIn
  <2> QED
    BY <1>8, <1>10, <2>1, <2>2, BlockStepsIn, VoteStepsIn, ProposalExecutedIn,
       RoundStepsIn, TimeoutIn, BlockExecutedIn, PrecommitDecidedIn,
       CommitLockedIn DEF NodeStep
<1>12. /\ TasksIn(tasks'[n], e)
       /\ \A v \in ballots' : /\ HashFits(v)
                              /\ v.validator = n => VoteIn(v, e)
                              /\ v \in ballots \/ v.validator = n
  BY <1>4, <1>8, <1>9, <1>11, Settled
<1>13. LockIn(n)' /\ \A v \in votes'[n] : HashFits(v)
  BY LockStays, VotesFit
<1>14. \A i \in DOMAIN chain'[n] : Certified(chain'[n][i], e)
  BY <1>1, <1>5, <1>6 DEF NodeIn, StoreIn
<1>15. Len(chain'[n]) = height'[n]
  BY <1>5 DEF NodeIn, StoreIn
<1>16. ASSUME MaxFailures = 0
       PROVE  /\ state'[n] = Chain!Root(chain'[n])
              /\ \A b \in pending'[n] : b.root = Append(state'[n], Payload(b))
  <2>1. state' = state /\ state[n] = Chain!Root(chain[n])
    BY <1>5, <1>16 DEF NodeIn, StoreIn
  <2>2. \A b \in pending[n] : b.root = Append(state[n], Payload(b))
    BY <1>16 DEF NodeIn, StoreIn, Executes
  <2>3. \A b \in pending'[n] :
          b \in pending[n] \/ b.root = Append(state[n], Payload(b))
    BY PendingGrows DEF Executes
  <2> QED
    BY <1>5, <2>1, <2>2, <2>3
<1>17. NodeIn(n)'
  BY <1>2, <1>12, <1>13, <1>14, <1>15, <1>16, NodeInPrime
<1> QED
  BY <1>12, <1>17 DEF BallotsFit

\* A sequence is a function of its indices.
LEMMA SeqFunction ==
  ASSUME NEW S, NEW t \in Seq(S)
  PROVE  t = [i \in 1..Len(t) |-> t[i]]
<1>1. t \in [1..Len(t) -> S]
  OBVIOUS
<1> QED
  BY <1>1

\* A block that its payload verifies extends the chain that leads to it.
LEMMA RootExtends ==
  ASSUME NEW c \in Seq(Blocks), NEW b \in Blocks
  PROVE  Chain!Root(Append(c, b)) = Append(Chain!Root(c), Payload(b))
<1> DEFINE P(x) == x.root[Len(x.root)]
<1>1. Chain!Root(c) = [i \in 1..Len(c) |-> P(c[i])]
  BY DEF Chain!Root
<1>2. Len(c) \in Nat /\ Len(Append(c, b)) = Len(c) + 1
  OBVIOUS
<1>3. Chain!Root(Append(c, b)) = [i \in 1..(Len(c) + 1) |-> P(Append(c, b)[i])]
  BY <1>2 DEF Chain!Root
<1>4. ASSUME NEW i \in 1..Len(c) PROVE P(c[i]) \in Payloads
  BY PayloadTyped DEF Payload
<1> DEFINE s == Chain!Root(c)
           p == Payload(b)
<1>5. s \in Seq(Payloads) /\ Len(s) = Len(c) /\ p \in Payloads
  BY <1>1, <1>2, <1>4, PayloadTyped
<1> HIDE DEF s
<1>6. /\ Append(s, p) \in Seq(Payloads) /\ Len(Append(s, p)) = Len(c) + 1
      /\ \A i \in 1..(Len(c) + 1) :
           Append(s, p)[i] = IF i = Len(c) + 1 THEN p ELSE s[i]
  BY <1>2, <1>5
<1>7. ASSUME NEW i \in 1..(Len(c) + 1)
      PROVE  P(Append(c, b)[i]) = IF i = Len(c) + 1 THEN p ELSE s[i]
  BY <1>1, <1>2 DEF Payload, s
<1> HIDE DEF p
<1>8. Chain!Root(Append(c, b)) = Append(s, p)
  <2>1. Append(s, p) = [i \in 1..(Len(c) + 1) |-> Append(s, p)[i]]
    BY <1>6, SeqFunction
  <2>2. \A i \in 1..(Len(c) + 1) : P(Append(c, b)[i]) = Append(s, p)[i]
    BY <1>6, <1>7
  <2> HIDE DEF P
  <2> QED
    BY <1>3, <2>1, <2>2, Zenon
<1> QED
  BY <1>8 DEF s, p

\* What a handler that returns leaves suspended.
LEMMA BecomesDomain ==
  ASSUME NEW n, NEW s, NEW t
  PROVE  DOMAIN Becomes(n, s, t) \subseteq DOMAIN tasks[n] \cup {t}
<1>1. DOMAIN Becomes(n, s, t)
        = DOMAIN (tasks[n] (-) SetToBag({s})) \cup DOMAIN Task(t)
  BY PlusDomain DEF Becomes
<1>2. DOMAIN (tasks[n] (-) SetToBag({s})) \subseteq DOMAIN tasks[n]
  BY MinusDomain
<1>3. DOMAIN Task(t) \subseteq {t}
  BY TaskDomain
<1> QED
  BY <1>1, <1>2, <1>3

\* The end of a commit: the mutex has one holder, so no other handler of the
\* node is about to commit a block of that height.
LEMMA SaveBlockIn ==
  ASSUME TypeOK, AllFit, NEW n \in Nodes, MutexFits(n),
         NEW s \in Waiting(n, "commit"), NEW d, TasksIn(tasks[n], d),
         NEW e, Ended(d, e), e.height = Head(s).block.height, SaveBlock(n, s)
  PROVE  \E bag : TasksIn(bag, e) /\ Run(n, bag)
<1> DEFINE A == Becomes(n, s, Tail(s))
           f == StartRound(Head(s).block.height + 1)
<1>1. Tail(s) \in Seq(Frames) /\ Quick(n, Tail(s))
  BY WaitingFrame, WaitingQuick
<1>2. Idle(A) /\ IsTasks(A)
  BY <1>1, QuickIdle, ReleaseIdle
<1>3. ASSUME NEW t \in DOMAIN A PROVE ReadyIn(Head(t), e)
  <2>1. t # <<>> /\ Head(t) \in Frames /\ Head(t).op # "commit"
    BY <1>2, HeadFrame DEF IsTasks, Idle, Holds
  <2>2. CASE t \in DOMAIN tasks[n]
    BY <2>1, <2>2, ReadyEnded DEF TasksIn
  <2>3. CASE t = Tail(s)
    BY <1>1, <2>1, <2>3, QuickReady
  <2> QED
    BY <2>2, <2>3, BecomesDomain
<1>4. TasksIn(A, e)
  BY <1>3 DEF TasksIn
<1>5. Head(s).block.height \in Nat
  BY WaitingFrame, FrameFields DEF Blocks
<1>6. f.op = "startRound" /\ f.height = e.height + 1
  BY DEF StartRound
<1>7. ReadyIn(f, e)
  BY <1>5, <1>6 DEF ReadyIn
<1>8. TasksIn(A (+) Task(<<f>>), e)
  BY <1>4, <1>7, TaskIn, PlusIn
<1>9. Run(n, A (+) Task(<<f>>))
  BY DEF SaveBlock
<1> QED
  BY <1>8, <1>9

\* What the end of a commit does to what the node reads.
LEMMA CommitEnds ==
  ASSUME TypeOK, NEW n \in Nodes, NEW s, SaveBlock(n, s)
  PROVE  /\ height'[n] = Head(s).block.height
         /\ pending'[n] = {} /\ locked'[n] = Nil /\ votes' = votes
         /\ chain'[n] = Append(chain[n], Head(s).block)
  BY DEF SaveBlock, TypeOK, voteVars

\* A step of n that ends a height.
LEMMA CommitIn ==
  ASSUME TypeOK, AllFit, [Next]_vars, NEW n \in Nodes, MutexFits(n), NodeIn(n),
         BallotsFit, BlockCommitted(n) \/ ExecutionFailed(n)
  PROVE  /\ NodeIn(n)' /\ BallotsFit'
         /\ \A v \in ballots' : v \in ballots \/ v.validator = n
<1>1. PICK d : d = Env(n)
  OBVIOUS
<1>2. PICK e : e = Env(n)'
  OBVIOUS
<1>3. /\ d.node = n /\ d.height = height[n] /\ d.pending = pending[n]
      /\ d.votes = votes[n] /\ d.state = state[n]
  BY <1>1 DEF Env
<1>4. /\ e.node = n /\ e.height = height'[n] /\ e.pending = pending'[n]
      /\ e.votes = votes'[n] /\ e.state = state'[n]
  BY <1>2 DEF Env
<1>5. PICK s \in Waiting(n, "commit") :
        /\ SaveBlock(n, s)
        /\ MaxFailures = 0 =>
             state' = [state EXCEPT ![n] = Append(@, Payload(Head(s).block))]
  BY DEF BlockCommitted, ExecutionFailed, TypeOK
<1> DEFINE b == Head(s).block
<1>6. Head(s).op = "commit" /\ b \in Blocks
  BY WaitingFrame, FrameFields
<1>7. TasksIn(tasks[n], d)
  BY <1>1 DEF NodeIn
<1>8. Committable(b, d) /\ b.height = d.height + 1
  BY <1>6, <1>7, WaitingReady DEF ReadyIn
<1>9. /\ height'[n] = b.height /\ pending'[n] = {} /\ locked'[n] = Nil
      /\ votes' = votes /\ chain'[n] = Append(chain[n], b)
  BY <1>5, CommitEnds
<1>10. \A c : Certified(c, d) => Certified(c, e)
  BY <1>3, <1>4, CertifiedStays
<1>11. Ended(d, e)
  BY <1>3, <1>4, <1>8, <1>9, <1>10 DEF Ended, TypeOK
<1>12. PICK bag : TasksIn(bag, e) /\ Run(n, bag)
  BY <1>4, <1>5, <1>7, <1>9, <1>11, SaveBlockIn
<1>13. \A v \in ballots : v.validator = n => VoteIn(v, e)
  <2>1. \A v \in ballots : v.validator = n => VoteIn(v, d)
    BY <1>1 DEF NodeIn, VotesIn
  <2>2. ballots \subseteq Votes
    BY DEF TypeOK
  <2> QED
    BY <1>11, <2>1, <2>2, VoteStays
<1>14. /\ TasksIn(tasks'[n], e)
       /\ \A v \in ballots' : /\ HashFits(v)
                              /\ v.validator = n => VoteIn(v, e)
                              /\ v \in ballots \/ v.validator = n
  BY <1>4, <1>12, <1>13, RunIn
<1>15. LockIn(n)' /\ \A v \in votes'[n] : HashFits(v)
  BY <1>9 DEF LockIn, NodeIn, VotesIn
<1>16. chain[n] \in Seq(Blocks) /\ Len(chain[n]) = height[n]
  BY DEF NodeIn, StoreIn, TypeOK
<1> HIDE DEF b
<1>17. Len(chain'[n]) = height'[n]
  BY <1>3, <1>8, <1>9, <1>16
<1>18. ASSUME NEW i \in DOMAIN chain'[n] PROVE Certified(chain'[n][i], e)
  <2>1. Certified(b, e)
    BY <1>8, <1>10 DEF Committable
  <2>2. \A j \in DOMAIN chain[n] : Certified(chain[n][j], e)
    BY <1>1, <1>10 DEF NodeIn, StoreIn
  <2>3. chain'[n][i] = b \/ (i \in DOMAIN chain[n] /\ chain'[n][i] = chain[n][i])
    BY <1>6, <1>9, <1>16
  <2> QED
    BY <2>1, <2>2, <2>3
<1>19. ASSUME MaxFailures = 0
       PROVE  state'[n] = Chain!Root(chain'[n])
  <2>1. state'[n] = Append(state[n], Payload(b))
    BY <1>5, <1>19 DEF TypeOK, b
  <2>2. state[n] = Chain!Root(chain[n])
    BY <1>19 DEF NodeIn, StoreIn
  <2> QED
    BY <1>6, <1>9, <1>16, <2>1, <2>2, RootExtends
<1>20. NodeIn(n)'
  BY <1>2, <1>9, <1>14, <1>15, <1>17, <1>18, <1>19, NodeInPrime
<1> QED
  BY <1>14, <1>20 DEF BallotsFit

\* A step of somebody else takes nothing from a node.
LEMMA BystanderIn ==
  ASSUME NEW m \in Nodes, NodeIn(m),
         tasks'[m] = tasks[m], locked'[m] = locked[m],
         height'[m] = height[m], pending'[m] = pending[m],
         votes'[m] = votes[m], state'[m] = state[m], chain'[m] = chain[m],
         \A v \in ballots' : v \in ballots \/ v.validator # m
  PROVE  NodeIn(m)'
<1>1. PICK e : e = Env(m)
  OBVIOUS
<1>2. e = Env(m)'
  BY <1>1 DEF Env
<1>3. TasksIn(tasks'[m], e) /\ LockIn(m)' /\ \A v \in votes'[m] : HashFits(v)
  BY <1>1 DEF NodeIn, LockIn, VotesIn
<1>4. \A v \in ballots' : v.validator = m => VoteIn(v, e)
  BY <1>1 DEF NodeIn, VotesIn
<1>5. /\ Len(chain'[m]) = height'[m]
      /\ \A i \in DOMAIN chain'[m] : Certified(chain'[m][i], e)
      /\ MaxFailures = 0 =>
           /\ state'[m] = Chain!Root(chain'[m])
           /\ \A b \in pending'[m] : b.root = Append(state'[m], Payload(b))
  BY <1>1 DEF NodeIn, StoreIn, Executes
<1> QED
  BY <1>2, <1>3, <1>4, <1>5, NodeInPrime

\* What the peers publish fits too: they precommit only with a quorum.
LEMMA PeerIn ==
  ASSUME TypeOK, BallotsFit, NEW p \in Peers, PeerStep(p)
  PROVE  \A v \in ballots' : /\ HashFits(v)
                             /\ v \in ballots \/ v.validator = p
<1>1. PICK h \in 1..MaxHeight, r \in PeerRounds :
         PeerProposes(p, h, r) \/ PeerPrevotes(p, h, r) \/ PeerPrecommits(p, h, r)
  BY DEF PeerStep
<1>2. CASE PeerProposes(p, h, r)
  BY <1>2 DEF PeerProposes, BallotsFit
<1>3. ASSUME NEW ty, NEW hash, hash # Nil => hash.height = h,
             ballots' = ballots \cup {NewVote(p, ty, hash, h, r)}
      PROVE  \A v \in ballots' : HashFits(v) /\ (v \in ballots \/ v.validator = p)
  <2> DEFINE w == NewVote(p, ty, hash, h, r)
  <2>1. w.validator = p /\ w.hash = hash /\ w.height = h
    BY DEF NewVote
  <2> HIDE DEF w
  <2>2. HashFits(w)
    BY <1>3, <2>1 DEF HashFits
  <2>3. ballots' = ballots \cup {w}
    BY <1>3 DEF w
  <2> QED
    BY <2>1, <2>2, <2>3 DEF BallotsFit
<1>4. CASE PeerPrevotes(p, h, r)
  BY <1>3, <1>4 DEF PeerPrevotes, Publishes
<1>5. CASE PeerPrecommits(p, h, r)
  <2>1. PICK hash \in blocks \cup {Nil} :
          /\ hash # Nil => HasQuorum(ballots, h, r, "PREVOTE", hash)
          /\ ballots' = ballots \cup {NewVote(p, "PRECOMMIT", hash, h, r)}
    BY <1>5 DEF PeerPrecommits, Publishes
  <2>2. ASSUME hash # Nil PROVE hash.height = h
    <3>1. ballots \in SUBSET Votes
      BY DEF TypeOK
    <3>2. PICK v \in ballots : v.height = h /\ v.hash = hash
      BY <2>1, <2>2, <3>1, QuorumVoter
    <3> QED
      BY <2>2, <3>2 DEF BallotsFit, HashFits
  <2> QED
    BY <1>3, <2>1, <2>2
<1> QED
  BY <1>1, <1>2, <1>4, <1>5

\* The step of a node keeps what that node needs.
LEMMA NodeStepIn ==
  ASSUME TypeOK, AllFit, [Next]_vars, NEW n \in Nodes, MutexFits(n), NodeIn(n),
         BallotsFit, NodeStep(n)
  PROVE  /\ NodeIn(n)' /\ BallotsFit'
         /\ \A v \in ballots' : v \in ballots \/ v.validator = n
  BY OrdinaryIn, CommitIn

LEMMA AllInStep ==
  TypeOK /\ AllFit /\ AllMutexFit /\ AllIn /\ [Next]_vars => AllIn'
<1> SUFFICES ASSUME TypeOK, AllFit, AllMutexFit, AllIn, [Next]_vars
             PROVE  AllIn'
  OBVIOUS
<1>1. BallotsFit /\ \A n \in Nodes : NodeIn(n) /\ MutexFits(n)
  BY DEF AllIn, AllMutexFit
<1>2. ASSUME NEW n \in Nodes, NodeStep(n) PROVE AllIn'
  <2>1. /\ NodeIn(n)' /\ BallotsFit'
        /\ \A v \in ballots' : v \in ballots \/ v.validator = n
    BY <1>1, <1>2, NodeStepIn
  <2>2. ASSUME NEW m \in Nodes, m # n PROVE NodeIn(m)'
    <3>1. \A v \in ballots' : v \in ballots \/ v.validator # m
      BY <2>1, <2>2
    <3>2. /\ tasks'[m] = tasks[m] /\ locked'[m] = locked[m]
          /\ height'[m] = height[m] /\ pending'[m] = pending[m]
          /\ votes'[m] = votes[m] /\ state'[m] = state[m]
          /\ chain'[m] = chain[m]
      BY <1>2, <2>2, OtherEnv
    <3> QED
      BY <1>1, <3>1, <3>2, BystanderIn
  <2> QED
    BY <2>1, <2>2 DEF AllIn
<1>3. ASSUME NEW p \in Peers, PeerStep(p) PROVE AllIn'
  <2>1. \A v \in ballots' : HashFits(v) /\ (v \in ballots \/ v.validator = p)
    BY <1>1, <1>3, PeerIn
  <2>2. UNCHANGED <<tasks, locked, height, pending, votes, state, chain>>
    BY <1>3 DEF PeerStep, PeerProposes, PeerPrevotes, PeerPrecommits,
                Publishes, lockVars, voteVars, chainVars
  <2>3. p \notin Nodes
    BY ValidatorAssumption
  <2>4. ASSUME NEW m \in Nodes PROVE NodeIn(m)'
    BY <1>1, <2>1, <2>2, <2>3, BystanderIn
  <2> QED
    BY <2>1, <2>4 DEF AllIn, BallotsFit
<1>4. CASE UNCHANGED vars
  <2>1. UNCHANGED <<tasks, ballots, locked, height, pending, votes, state, chain>>
    BY <1>4 DEF vars, lockVars, voteVars, chainVars
  <2>2. ASSUME NEW m \in Nodes PROVE NodeIn(m)'
    BY <1>1, <2>1, BystanderIn
  <2> QED
    BY <1>1, <2>1, <2>2 DEF AllIn, BallotsFit
<1> QED
  BY <1>2, <1>3, <1>4 DEF Next

LEMMA AllInInit == Init => AllIn
<1> SUFFICES ASSUME Init, NEW n \in Nodes PROVE BallotsFit /\ NodeIn(n)
  BY DEF AllIn, Init, BallotsFit
<1>1. BallotsFit
  BY DEF Init, BallotsFit
<1>2. Env(n).height = 0 /\ tasks[n] = Task(<<StartRound(1)>>)
  BY DEF Init, Env
<1>3. ReadyIn(StartRound(1), Env(n))
  BY <1>2 DEF ReadyIn, StartRound
<1>4. TasksIn(tasks[n], Env(n))
  BY <1>2, <1>3, TaskIn
<1>5. LockIn(n) /\ VotesIn(n)
  BY DEF Init, LockIn, VotesIn
<1>6. /\ chain[n] = <<>> /\ state[n] = <<>>
      /\ height[n] = 0 /\ pending[n] = {}
  BY DEF Init
<1>7. Chain!Root(<<>>) = <<>>
  BY DEF Chain!Root
<1>8. StoreIn(n)
  BY <1>6, <1>7 DEF StoreIn
<1> QED
  BY <1>1, <1>4, <1>5, <1>8 DEF NodeIn

\* At every moment the nodes have what their handlers rely on.
LEMMA AlwaysIn == Spec => []AllIn
<1>1. Init => AllIn /\ AllMutexFit
  BY AllInInit, MutexInit
<1>2. TypeOK /\ AllFit /\ AllMutexFit /\ AllIn /\ [Next]_vars
        => AllMutexFit' /\ AllIn'
  BY AllInStep, MutexStep
<1> QED
  BY <1>1, <1>2, TypeCorrect, AlwaysFit, PTL DEF Spec

-----------------------------------------------------------------------------
(* What follows.                                                           *)

\* A locked block is one the node can still commit: whatever happens between
\* the quorum of prevotes and the next commit, its body is there.
THEOREM LockedHasBody == Spec => []LockIsPending
<1>1. AllIn => LockIsPending
  BY DEF AllIn, NodeIn, LockIn, LockIsPending
<1> QED
  BY <1>1, AlwaysIn, PTL

\* A node has the body of every block it has prevoted, until the height is
\* decided.
THEOREM PrevotedHasBody == Spec => []PrevoteHasBody
<1>1. AllIn => PrevoteHasBody
  BY DEF AllIn, NodeIn, VotesIn, VoteIn, Env, PrevoteHasBody
<1> QED
  BY <1>1, AlwaysIn, PTL

\* Every block in the store of a node, also one whose commit waited for the
\* mutex or whose execution failed, has a quorum of precommits of one round,
\* which the node still holds.
THEOREM CommitsCertified == Spec => []CommitCertified
<1>1. AllIn => CommitCertified
  <2> SUFFICES ASSUME AllIn, NEW n \in Nodes, NEW i \in DOMAIN chain[n]
               PROVE  \E v \in votes[n] :
                        /\ v.height = chain[n][i].height
                        /\ v.type = "PRECOMMIT" /\ v.hash = chain[n][i]
                        /\ HasQuorum(votes[n], chain[n][i].height, v.round,
                                     "PRECOMMIT", chain[n][i])
    BY DEF CommitCertified
  <2>1. Certified(chain[n][i], Env(n))
    BY DEF AllIn, NodeIn, StoreIn
  <2>2. Env(n).votes = votes[n]
    BY DEF Env
  <2> QED
    BY <2>1, <2>2 DEF Certified
<1> QED
  BY <1>1, AlwaysIn, PTL

\* A step that changes a store adds the next verified block to one.
LEMMA StoreStep ==
  ASSUME MaxFailures = 0, TypeOK, AllIn, [Next]_vars
  PROVE  [Chain!Next]_chain
<1>1. ASSUME NEW n \in Nodes, BlockCommitted(n) PROVE Chain!Next
  <2>1. PICK s \in Waiting(n, "commit") : SaveBlock(n, s)
    BY <1>1 DEF BlockCommitted
  <2> DEFINE b == Head(s).block
  <2>2. Head(s).op = "commit" /\ b \in Blocks
    BY WaitingFrame, FrameFields
  <2>3. ReadyIn(Head(s), Env(n))
    BY WaitingReady DEF AllIn, NodeIn
  <2>4. b.height = height[n] + 1 /\ b.root = Append(state[n], Payload(b))
    BY <2>2, <2>3 DEF ReadyIn, Committable, Env
  <2>5. chain' = [chain EXCEPT ![n] = Append(@, b)]
    BY <2>1 DEF SaveBlock
  <2>6. /\ chain[n] \in Seq(Blocks) /\ Len(chain[n]) = height[n]
        /\ state[n] = Chain!Root(chain[n])
    BY DEF TypeOK, AllIn, NodeIn, StoreIn
  <2> HIDE DEF b
  <2>7. b.root = Chain!Root(Append(chain[n], b))
    BY <2>2, <2>4, <2>6, RootExtends
  <2>8. Chain!Store(n, b)
    BY <2>4, <2>5, <2>6, <2>7 DEF Chain!Store
  <2>9. chain'[n] = Append(chain[n], b)
    BY <2>5 DEF TypeOK
  <2>10. /\ Len(chain[n]) + 1 \in DOMAIN chain'[n]
         /\ chain'[n][Len(chain[n]) + 1] = b
    BY <2>2, <2>6, <2>9
  <2> QED
    BY <2>8, <2>10 DEF Chain!Next
<1>2. ASSUME NEW n \in Nodes, NodeStep(n), ~BlockCommitted(n)
      PROVE  UNCHANGED chain
  <2>1. ~ExecutionFailed(n)
    BY DEF ExecutionFailed, TypeOK
  <2> QED
    BY <1>2, <2>1, Ordinary
<1>3. ASSUME NEW p \in Peers, PeerStep(p) PROVE UNCHANGED chain
  BY <1>3 DEF PeerStep, PeerProposes, PeerPrevotes, PeerPrecommits, Publishes,
     chainVars
<1>4. CASE UNCHANGED vars
  BY <1>4 DEF vars, chainVars
<1> QED
  BY <1>1, <1>2, <1>3, <1>4 DEF Next

\* When no commit fails, the store of every node is the chain that
\* VerifiedChain describes: it only grows, by a block of the next height whose
\* state root is the one that the payloads stored before it lead to.
THEOREM StoreVerified ==
  ASSUME MaxFailures = 0
  PROVE  Spec => GrowsVerified
<1>1. Init => Chain!Init
  BY DEF Init, Chain!Init
<1>2. TypeOK /\ AllIn /\ [Next]_vars => [Chain!Next]_chain
  BY StoreStep
<1> QED
  BY <1>1, <1>2, TypeCorrect, AlwaysIn, PTL DEF Spec, GrowsVerified, Chain!Spec

=============================================================================
