----------------------------- MODULE ChainSync -----------------------------
(***************************************************************************)
(* The life of one validator around its consensus engine: the boot of      *)
(* src/src/index.ts, start() and syncBlockchain() of                       *)
(* src/src/consensus/bft.ts with the requests of src/src/network/p2p.ts,   *)
(* and what they do to the rounds: the flag this.stopped, the step, the    *)
(* timer, the votes and the proposals.  Nobody calls stop().               *)
(*                                                                         *)
(* The rounds are coarser than in BFTConsensus: the other validators show  *)
(* as the blocks they propose and the quorums they form, at any time, and  *)
(* a commit is one step.  What BFTConsensus leaves out is here: a round    *)
(* that is entered again, handlers that find the engine stopped, a publish *)
(* that throws: nobody catches that in most handlers, and Node.js ends the *)
(* process on a rejection that nobody catches.  Of votes and pendingBlocks *)
(* only the entries for the height after the head are kept: no older one   *)
(* is read again.                                                          *)
(***************************************************************************)
EXTENDS Integers, FiniteSets, FiniteSetsExt

CONSTANTS
  Peers,         \* the other validators
  Index,         \* the place of this node in the list of validators
  SyncLimit,     \* the 100 of handleSyncRequest()
  Stored,        \* the heads that the disk may hold when the node boots
  MaxHeight,     \* bound: no block of a greater height is committed
  MaxRound,      \* bound: no greater round
  MaxTimeouts,   \* bound: timers that fire on a running engine
  MaxMessages,   \* bound: blocks and completing votes of others that arrive
  MaxFailures,   \* bound: publishes that throw and peers that leave
  MaxProposals   \* bound: proposeBlock() calls at once

N == Cardinality(Peers) + 1

ASSUME SyncAssumption ==
  /\ IsFiniteSet(Peers)
  /\ Index \in 0..(N - 1)
  /\ {SyncLimit, MaxHeight, MaxRound, MaxTimeouts, MaxMessages, MaxFailures,
        MaxProposals} \subseteq Nat
  /\ Stored \subseteq 0..MaxHeight

VARIABLES
  phase,      \* of main(): waiting for peers, running, ended
  connected,  \* network.getPeers()
  head,       \* the head in the block store
  stopped,    \* this.stopped
  engine,     \* the rest of the engine
  sync,       \* syncBlockchain()
  timeouts, messages, failures

bootVars  == <<phase, connected>>
countVars == <<timeouts, messages, failures>>
vars == <<bootVars, head, stopped, engine, sync, countVars>>

Heights   == 0..MaxHeight
Rounds    == 0..MaxRound
Steps     == {"PROPOSE", "PREVOTE", "PRECOMMIT", "COMMIT"}
VoteTypes == {"PREVOTE", "PRECOMMIT"}
None      == "none"

\* A block of height head + 1, by the validator at this place of the list.
Blocks == [round : Rounds, by : 0..(N - 1)]

\* A vote being published, and what awaits it: a handleTimeout() that sets this
\* step in the end, the proposeBlock() of the block voted for, or neither.
Proposal == "proposal"
Sent == [height : 1..(MaxHeight + 1), round : Rounds, type : VoteTypes,
         then : VoteTypes \cup {Proposal, None}]

Engine == [height : Heights, round : Rounds, step : Steps, timer : BOOLEAN,
           voted : SUBSET (Rounds \X VoteTypes),  \* own entries of this.votes
           pending : SUBSET Blocks,    \* this.pendingBlocks
           handling : SUBSET Blocks,   \* handleBlock() executing
           sent : SUBSET Sent,
           starting : [1..(MaxHeight + 1) -> Nat], \* startRound(h, 0) awaiting
           proposing : Nat]            \* proposeBlock() executing

SyncSteps == {"off", "due", "status", "resume", "fetch", "asked", "ending", "over"}
Syncs == [at : SyncSteps, left : SUBSET Peers, best : Peers \cup {None},
          max : Heights, start : 0..(MaxHeight + 1)]

-----------------------------------------------------------------------------
(* The rounds.                                                             *)

\* The index is not wrapped (mutation of getProposer).
getProposer_Unwrapped(h, r) == h + r

getProposer(h, r) == (h + r) % N

hasVoted(e, r, type) == <<r, type>> \in e.voted

Vote(e, r, type, then) ==
  [height |-> e.height + 1, round |-> r, type |-> type, then |-> then]

\* The timer is not set again (mutation of EnterRound).
EnterRound_NoTimer(e, h, r) ==
  [e EXCEPT !.round = r, !.step = "PROPOSE",
            !.proposing = IF getProposer(h, r) = Index THEN @ + 1 ELSE @]

\* What startRound() does once it knows the validators: propose, or prevote a
\* block that is already there.
EnterRound(e, h, r) ==
  LET mine  == getProposer(h, r) = Index
      found == /\ ~mine
               /\ h = head + 1 /\ h = e.height + 1
               /\ [round |-> r, by |-> getProposer(h, r)] \in e.pending
               /\ ~hasVoted(e, r, "PREVOTE")
  IN  [e EXCEPT !.round = r, !.timer = TRUE,
                !.step = IF found THEN "PREVOTE" ELSE "PROPOSE",
                !.proposing = IF mine THEN @ + 1 ELSE @,
                !.sent = IF found THEN @ \cup {Vote(e, r, "PREVOTE", None)} ELSE @]

\* startRound() awaits the validators of round 0 before it enters the round.
startRound(e, h, r) ==
  IF h <= e.height THEN e
  ELSE IF r = 0 THEN [e EXCEPT !.starting[h] = @ + 1]
  ELSE EnterRound(e, h, r)

\* this.round++ comes before the check of stopped.
NextRound(e) ==
  IF stopped THEN [e EXCEPT !.round = @ + 1]
  ELSE startRound(e, e.height + 1, e.round + 1)

\* The jump does not look at the node's own round (mutation of Jump).
Jump_Anywhere(e, r) == IF ~stopped THEN startRound(e, e.height + 1, r) ELSE e

\* A quorum for a later round moves the node there.
Jump(e, r) ==
  IF r > e.round /\ ~stopped THEN startRound(e, e.height + 1, r) ELSE e

\* checkQuorum() on a quorum of prevotes, which `then' awaits.
PrevoteQuorum(e, r, then) ==
  LET j == Jump(e, r)
  IN  IF r = j.round /\ j.step \in {"PROPOSE", "PREVOTE"}
      THEN [j EXCEPT !.step = "PRECOMMIT", !.timer = TRUE,
                     !.sent = @ \cup {Vote(j, r, "PRECOMMIT", then)}]
      ELSE j

\* checkQuorum() on a quorum of nil precommits.
NilQuorum(e, r) ==
  LET j == Jump(e, r)
  IN  IF j.step # "COMMIT" \/ r > j.round THEN NextRound(j) ELSE j

\* ... on a quorum of precommits for a block: commitBlock() drops the blocks and
\* starts the next height.
BlockQuorum(e, r) ==
  LET c == [Jump(e, r) EXCEPT !.height = @ + 1, !.step = "COMMIT", !.voted = {},
                              !.pending = {}, !.handling = {}]
  IN  IF stopped THEN c ELSE startRound(c, c.height + 1, 0)

\* The handler that awaited a vote goes on: handleTimeout() sets its step and
\* the timer, whatever has happened since.
Resume(e, then) ==
  IF then \notin VoteTypes THEN e ELSE [e EXCEPT !.step = then, !.timer = TRUE]

\* The block of the quorum is there; a node between two heights (step COMMIT)
\* passes over the quorum.
CanCommit(e, r) ==
  /\ e.height = head /\ head < MaxHeight
  /\ \E b \in e.pending : b.round = r
  /\ e.step # "COMMIT" \/ r > e.round

InBounds(e) == e.round <= MaxRound /\ e.proposing <= MaxProposals

Engine_(e) == InBounds(e) /\ engine' = e

-----------------------------------------------------------------------------
(* Handlers.                                                               *)

\* await updateValidators() in startRound() is over: nothing is checked again.
RoundStarts(h) ==
  /\ engine.starting[h] > 0
  /\ Engine_(EnterRound([engine EXCEPT !.starting[h] = @ - 1], h, 0))
  /\ UNCHANGED <<bootVars, head, stopped, sync, countVars>>

\* The timer fires while the engine is stopped: it is gone.
TimerLost ==
  /\ engine.timer /\ stopped
  /\ engine' = [engine EXCEPT !.timer = FALSE]
  /\ UNCHANGED <<bootVars, head, stopped, sync, countVars>>

\* handleTimeout() votes nil, unless the node has voted: then nothing is left
\* that would fire again.
handleTimeout ==
  LET e == [engine EXCEPT !.timer = FALSE]
      VoteNil(type) ==
        IF hasVoted(e, e.round, type) THEN e
        ELSE [e EXCEPT !.sent = @ \cup {Vote(e, e.round, type, type)}]
  IN  /\ engine.timer /\ ~stopped
      /\ timeouts < MaxTimeouts
      /\ timeouts' = timeouts + 1
      /\ \/ e.step = "PROPOSE"   /\ engine' = VoteNil("PREVOTE")
         \/ e.step = "PREVOTE"   /\ engine' = VoteNil("PRECOMMIT")
         \/ e.step = "PRECOMMIT" /\ Engine_(NextRound(e))
         \/ e.step = "COMMIT"    /\ engine' = e
      /\ UNCHANGED <<bootVars, head, stopped, sync, failures, messages>>

\* broadcastVote() has published: the node counts its vote, once, and may find
\* a quorum; what checkQuorum() sent is checked a second time.
VoteLands == \E s \in engine.sent :
  LET current == s.height > engine.height
      gone == [engine EXCEPT !.sent = @ \ {s}]
      own  == [gone EXCEPT !.voted = IF current THEN @ \cup {<<s.round, s.type>>} ELSE @]
      twice == s.type = "PRECOMMIT" /\ s.then # "PRECOMMIT"
  IN  /\ \/ Engine_(Resume(own, s.then)) /\ UNCHANGED head
         \/ /\ current /\ ~hasVoted(engine, s.round, s.type)
            /\ \/ /\ s.type = "PREVOTE"
                  /\ LET q == PrevoteQuorum(own, s.round, s.then)
                     IN  Engine_(IF q.sent = own.sent THEN Resume(q, s.then) ELSE q)
                  /\ UNCHANGED head
               \/ /\ s.type = "PRECOMMIT"
                  /\ LET q == NilQuorum(own, s.round)
                     IN  Engine_(Resume(IF twice THEN NilQuorum(q, s.round) ELSE q, s.then))
                  /\ UNCHANGED head
               \/ /\ s.type = "PRECOMMIT" /\ CanCommit(own, s.round)
                  /\ Engine_(Resume(BlockQuorum(own, s.round), s.then))
                  /\ head' = head + 1
      /\ UNCHANGED <<bootVars, stopped, sync, countVars>>

\* A publish throws.  proposeBlock() catches it; above the other handlers there is
\* nobody.
VoteFails == \E s \in engine.sent :
  /\ failures < MaxFailures
  /\ failures' = failures + 1
  /\ engine' = [engine EXCEPT !.sent = @ \ {s}]
  /\ phase' = IF s.then = Proposal THEN phase ELSE "ended"
  /\ UNCHANGED <<connected, head, stopped, sync, timeouts, messages>>

\* A vote of another validator completes a quorum: handleVote() does not look at
\* stopped.
QuorumSeen == \E r \in Rounds :
  /\ Peers # {} /\ engine.height = head
  /\ messages < MaxMessages
  /\ messages' = messages + 1
  /\ \/ Engine_(PrevoteQuorum(engine, r, None)) /\ UNCHANGED head
     \/ Engine_(NilQuorum(engine, r)) /\ UNCHANGED head
     \/ /\ CanCommit(engine, r)
        /\ Engine_(BlockQuorum(engine, r))
        /\ head' = head + 1
  /\ UNCHANGED <<bootVars, stopped, sync, timeouts, failures>>

\* handleBlock() takes up a block of another validator, unless it is stopped.
BlockArrives == \E r \in Rounds :
  /\ connected # {} /\ ~stopped
  /\ messages < MaxMessages
  /\ messages' = messages + 1
  /\ getProposer(head + 1, r) # Index
  /\ engine' = [engine EXCEPT !.handling =
                   @ \cup {[round |-> r, by |-> getProposer(head + 1, r)]}]
  /\ UNCHANGED <<bootVars, head, stopped, sync, timeouts, failures>>

\* ... and has executed it.  A block that does not fit the lock or the state is
\* dropped, and one that is not by the proposer of the node's own round.
BlockHandled == \E b \in engine.handling :
  LET done  == [engine EXCEPT !.handling = @ \ {b}]
      kept  == [done EXCEPT !.pending = @ \cup {b}]
      votes == /\ engine.height = head
               /\ b.round = engine.round
               /\ ~hasVoted(engine, b.round, "PREVOTE")
  IN  /\ \/ engine' = done
         \/ /\ getProposer(head + 1, engine.round) = b.by
            /\ engine' = IF votes
                         THEN [kept EXCEPT !.step = "PREVOTE", !.timer = TRUE,
                                 !.sent = @ \cup {Vote(kept, b.round, "PREVOTE",
                                     IF b.by = Index THEN Proposal ELSE None)}]
                         ELSE kept
      /\ UNCHANGED <<bootVars, head, stopped, sync, countVars>>

\* proposeBlock() hands the block, of the round the node is in by now, to its own
\* handleBlock().
BlockProposed ==
  /\ engine.proposing > 0
  /\ engine' = [engine EXCEPT !.proposing = @ - 1,
                  !.handling = IF stopped THEN @
                               ELSE @ \cup {[round |-> engine.round, by |-> Index]}]
  /\ UNCHANGED <<bootVars, head, stopped, sync, countVars>>

\* ... or fails, and leaves the round to the timer.
ProposalFails ==
  /\ engine.proposing > 0
  /\ failures < MaxFailures
  /\ failures' = failures + 1
  /\ engine' = [engine EXCEPT !.proposing = @ - 1]
  /\ UNCHANGED <<bootVars, head, stopped, sync, timeouts, messages>>

EngineStep ==
  \/ \E h \in 1..(MaxHeight + 1) : RoundStarts(h)
  \/ TimerLost \/ handleTimeout \/ VoteLands \/ VoteFails
  \/ QuorumSeen \/ BlockArrives \/ BlockHandled
  \/ BlockProposed \/ ProposalFails

-----------------------------------------------------------------------------
(* Boot.                                                                   *)

PeerConnects == \E p \in Peers \ connected :
  /\ connected' = connected \cup {p}
  /\ UNCHANGED <<phase, head, stopped, engine, sync, countVars>>

PeerLeaves == \E p \in connected :
  /\ failures < MaxFailures
  /\ failures' = failures + 1
  /\ connected' = connected \ {p}
  /\ UNCHANGED <<phase, head, stopped, engine, sync, timeouts, messages>>

\* main() waits 60 seconds at most for a peer, and goes on without: "risk of fork".
\* consensus.start(): the handlers have been running since the constructor, on
\* height 0.
start ==
  /\ phase = "waiting"
  /\ phase' = "running"
  /\ sync' = [sync EXCEPT !.at = "due"]
  /\ engine' = startRound([engine EXCEPT !.height = head], head + 1, 0)
  /\ UNCHANGED <<connected, head, stopped, countVars>>

-----------------------------------------------------------------------------
(* syncBlockchain().                                                       *)

\* What a peer of height g answers to GET_BLOCKS.
Served(first, last, g) == first..Min({last, first + SyncLimit, g})

\* Every block verifies (mutation of Verifies).
Verifies_Always == TRUE

\* block.verify() takes the validator's address, 20 bytes, for a public key of
\* secp256k1: the library throws, verify() catches and returns false.
AddressBytes == 20
Verifies == AddressBytes \in {33, 65}

\* Two seconds after start(): the handlers stop.
SyncStarts ==
  /\ sync.at = "due"
  /\ stopped' = TRUE
  /\ sync' = [sync EXCEPT !.at = IF connected = {} THEN "resume" ELSE "status",
                          !.left = connected, !.max = engine.height]
  /\ UNCHANGED <<bootVars, head, engine, countVars>>

\* The loop over the peers has a peer less to ask.
Asked(s, p) ==
  LET t == [s EXCEPT !.left = @ \ {p}]
  IN  [t EXCEPT !.at = IF t.left # {} THEN "status"
                       ELSE IF t.max <= engine.height THEN "resume" ELSE "fetch"]

StatusAnswered == \E p \in sync.left \cap connected, g \in Heights :
  /\ sync.at = "status"
  /\ sync' = Asked(IF g > sync.max THEN [sync EXCEPT !.max = g, !.best = p]
                   ELSE sync, p)
  /\ UNCHANGED <<bootVars, head, stopped, engine, countVars>>

StatusFails == \E p \in sync.left :
  /\ sync.at = "status"
  /\ sync' = Asked(sync, p)
  /\ UNCHANGED <<bootVars, head, stopped, engine, countVars>>

\* No peers, or none ahead: the round is started here and, after the return, in
\* the finally block again.
ResumesEarly ==
  /\ sync.at = "resume"
  /\ stopped' = FALSE
  /\ engine' = startRound(engine, engine.height + 1, 0)
  /\ sync' = [sync EXCEPT !.at = "ending"]
  /\ UNCHANGED <<bootVars, head, countVars>>

\* The head of the loop that fetches blocks.
BlocksAsked ==
  /\ sync.at = "fetch"
  /\ sync' = IF engine.height < sync.max
             THEN [sync EXCEPT !.at = "asked", !.start = engine.height + 1]
             ELSE [sync EXCEPT !.at = "ending"]
  /\ UNCHANGED <<bootVars, head, stopped, engine, countVars>>

\* The best peer, of height g, answers.  A block that is not the next one, or does
\* not verify, breaks the loop off.
BlocksServed(g) ==
  LET blocks == Served(sync.start, sync.max, g)
      good   == blocks # {} /\ sync.start = engine.height + 1 /\ Verifies
  IN  /\ sync.at = "asked" /\ sync.best \in connected
      /\ sync' = [sync EXCEPT !.at = IF good THEN "fetch" ELSE "ending"]
      /\ head' = IF good THEN Max(blocks) ELSE head
      /\ engine' = IF good THEN [engine EXCEPT !.height = Max(blocks)] ELSE engine
      /\ UNCHANGED <<bootVars, stopped, countVars>>

BlocksAnswered == \E g \in Heights : BlocksServed(g)

\* sendSyncRequest() has no timeout: it fails when the connection does.
BlocksFail ==
  /\ sync.at = "asked"
  /\ sync' = [sync EXCEPT !.at = "ending"]
  /\ UNCHANGED <<bootVars, head, stopped, engine, countVars>>

\* The handlers stay stopped (mutation of SyncEnds).
SyncEnds_StaysStopped ==
  /\ sync.at = "ending"
  /\ engine' = startRound(engine, engine.height + 1, 0)
  /\ sync' = [sync EXCEPT !.at = "over"]
  /\ UNCHANGED <<bootVars, head, stopped, countVars>>

\* The finally block.
SyncEnds ==
  /\ sync.at = "ending"
  /\ stopped' = FALSE
  /\ engine' = startRound(engine, engine.height + 1, 0)
  /\ sync' = [sync EXCEPT !.at = "over"]
  /\ UNCHANGED <<bootVars, head, countVars>>

SyncStep ==
  /\ phase # "ended"
  /\ \/ SyncStarts \/ StatusAnswered \/ StatusFails \/ ResumesEarly
     \/ BlocksAsked \/ BlocksAnswered \/ BlocksFail \/ SyncEnds

-----------------------------------------------------------------------------

Init ==
  /\ phase = "waiting" /\ connected = {}
  /\ head \in Stored
  /\ stopped = FALSE
  /\ engine = [height |-> 0, round |-> 0, step |-> "PROPOSE", timer |-> FALSE,
               voted |-> {}, pending |-> {}, handling |-> {}, sent |-> {},
               starting |-> [h \in 1..(MaxHeight + 1) |-> 0], proposing |-> 0]
  /\ sync = [at |-> "off", left |-> {}, best |-> None, max |-> 0, start |-> 0]
  /\ timeouts = 0 /\ messages = 0 /\ failures = 0

Next ==
  \/ SyncStep
  \/ phase # "ended" /\ (EngineStep \/ PeerConnects \/ PeerLeaves \/ start)

Spec == Init /\ [][Next]_vars

\* What syncBlockchain() does without an answer: a request to a peer that has left
\* fails.
SyncAlone ==
  /\ phase # "ended"
  /\ \/ SyncStarts \/ ResumesEarly \/ BlocksAsked \/ SyncEnds
     \/ sync.left \cap connected = {} /\ StatusFails
     \/ sync.best \notin connected /\ BlocksFail

\* updateValidators() returns, broken connections are noticed; of the peers
\* nothing is assumed.
FairSpec == Spec /\ WF_vars(SyncAlone)

-----------------------------------------------------------------------------
(* Properties.                                                             *)

TypeOK ==
  /\ phase \in {"waiting", "running", "ended"}
  /\ connected \subseteq Peers
  /\ head \in Heights
  /\ stopped \in BOOLEAN
  /\ engine \in Engine
  /\ InBounds(engine)
  /\ sync \in Syncs
  /\ timeouts \in 0..MaxTimeouts
  /\ messages \in 0..MaxMessages
  /\ failures \in 0..MaxFailures

\* Nothing of the engine runs, and nothing will set it going but a message.
Idle ==
  /\ phase = "running" /\ sync.at = "over"
  /\ ~engine.timer
  /\ engine.proposing = 0 /\ engine.handling = {} /\ engine.sent = {}
  /\ \A h \in 1..(MaxHeight + 1) : engine.starting[h] = 0

\* A validator that has started and synced is left without a timer and with
\* nothing under way in one case only: its step fell behind its own vote (a round
\* entered again, a handleTimeout() that sets its step after the quorum its vote
\* completed), where handleTimeout() does nothing (bft.ts:415-432).
StallCause ==
  Idle => \/ engine.step = "PROPOSE" /\ hasVoted(engine, engine.round, "PREVOTE")
          \/ engine.step = "PREVOTE" /\ hasVoted(engine, engine.round, "PRECOMMIT")

\* "Robust peer discovery and sync" (README.md:14): a peer that is ahead and serves
\* the block after the node's own makes the node's head move.  The code never takes
\* that block, since block.verify() is handed an address (core/block.ts:99).
SyncAdopts ==
  [][\A g \in Heights :
       /\ BlocksServed(g)
       /\ sync.start = engine.height + 1
       /\ Served(sync.start, sync.max, g) # {}
       => head' > head]_vars

\* Within a height the round never falls back, but to 0 and by a round that was
\* started before: a late quorum of an earlier round cannot do it.
RoundsAdvance ==
  [][engine'.height = engine.height /\ engine'.round < engine.round
       => engine'.round = 0
          /\ \E h \in 1..(MaxHeight + 1) : engine'.starting[h] < engine.starting[h]]_vars

\* A request awaits a connected peer.
Asking == \/ sync.at = "status" /\ sync.left \cap connected # {}
          \/ sync.at = "asked" /\ sync.best \in connected

\* syncBlockchain() gives the handlers back unless the process ends, or a peer that
\* stays connected never answers: sendSyncRequest() has no timeout (p2p.ts:81-119).
SyncResumes == stopped ~> (~stopped \/ phase = "ended" \/ []Asking)

=============================================================================
