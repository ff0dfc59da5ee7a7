-------------------------- MODULE ChainSyncProofs --------------------------
(***************************************************************************)
(* Theorems about ChainSync for every set of peers, every place of the     *)
(* node in the list, every head on disk and every bound.                   *)
(***************************************************************************)
EXTENDS ChainSync, FiniteSetTheorems, TLAPS

\* An engine whose counters are not yet held to the bounds of the model.
Loose == [height : Heights, round : Nat, step : Steps, timer : BOOLEAN,
          voted : SUBSET (Rounds \X VoteTypes), pending : SUBSET Blocks,
          handling : SUBSET Blocks, sent : SUBSET Sent,
          starting : [1..(MaxHeight + 1) -> Nat], proposing : Nat]

\* Something in the engine itself will set it going again.
Awake(e) == e.timer \/ \E h \in 1..(MaxHeight + 1) : e.starting[h] > 0

\* Its step fell behind its own vote.
Stalled(e) == \/ e.step = "PROPOSE" /\ hasVoted(e, e.round, "PREVOTE")
              \/ e.step = "PREVOTE" /\ hasVoted(e, e.round, "PRECOMMIT")

\* f and e differ at most in blocks and proposals.
Same(e, f) == /\ f.timer = e.timer /\ f.round = e.round /\ f.step = e.step
              /\ f.voted = e.voted /\ f.starting = e.starting /\ f.sent = e.sent
              /\ f.height = e.height

\* What the operators on rounds may do to an engine.
Onward(e, f) ==
  /\ f \in Loose
  /\ f.height = e.height => f.round >= e.round
  /\ \A h \in 1..(MaxHeight + 1) : f.starting[h] >= e.starting[h]
  /\ f.step = "COMMIT" =>
       e.step = "COMMIT" \/ stopped \/ \E h \in 1..(MaxHeight + 1) : f.starting[h] > 0
  /\ stopped \/ Awake(f) \/ Same(e, f)

-----------------------------------------------------------------------------
(* The operators on rounds.                                                *)

\* The places of the list are numbered from 0.
LEMMA ProposerType ==
  ASSUME NEW h \in Nat, NEW r \in Nat
  PROVE  getProposer(h, r) \in 0..(N - 1)
<1>1. Cardinality(Peers) \in Nat
  BY SyncAssumption, FS_CardinalityType
<1> QED
  BY <1>1 DEF getProposer, N

\* An engine within the bounds has the type.
LEMMA LooseInBounds ==
  ASSUME NEW e \in Loose, InBounds(e)
  PROVE  e \in Engine
  BY SyncAssumption DEF Loose, Engine, InBounds, Rounds

\* The type without the bounds is the weaker one.
LEMMA EngineLoose ==
  ASSUME NEW e \in Engine
  PROVE  e \in Loose
  BY SyncAssumption DEF Loose, Engine, Rounds

\* What the type says of the counters.
LEMMA Counters ==
  ASSUME NEW e \in Loose
  PROVE  /\ MaxHeight \in Nat /\ MaxRound \in Nat
         /\ e.height \in 0..MaxHeight /\ e.height \in Nat
         /\ e.height + 1 \in 1..(MaxHeight + 1)
         /\ e.round \in Nat /\ e.proposing \in Nat
         /\ e.timer \in BOOLEAN /\ e.step \in Steps
         /\ \A h \in 1..(MaxHeight + 1) : e.starting[h] \in Nat
<1>1. MaxHeight \in Nat /\ MaxRound \in Nat
  BY SyncAssumption
<1>2. e.height \in 0..MaxHeight
  BY DEF Loose, Heights
<1> QED
  BY <1>1, <1>2 DEF Loose

\* Going onward twice is going onward.
LEMMA OnwardTwice ==
  ASSUME NEW e \in Loose, NEW f, NEW g, Onward(e, f), Onward(f, g),
         f.height = e.height \/ g.height # e.height
  PROVE  Onward(e, g)
<1>1. e.round \in Nat /\ f.round \in Nat /\ g.round \in Nat
  BY DEF Onward, Loose
<1>2. \A h \in 1..(MaxHeight + 1) :
        e.starting[h] \in Nat /\ f.starting[h] \in Nat /\ g.starting[h] \in Nat
  BY DEF Onward, Loose
<1>3. \A h \in 1..(MaxHeight + 1) : g.starting[h] >= f.starting[h] /\ f.starting[h] >= e.starting[h]
  BY DEF Onward
<1>4. g \in Loose
  BY DEF Onward
<1>5. g.height = e.height => g.round >= e.round
  BY <1>1 DEF Onward
<1>6. \A h \in 1..(MaxHeight + 1) : g.starting[h] >= e.starting[h]
  BY <1>2, <1>3
<1>7. (\E h \in 1..(MaxHeight + 1) : f.starting[h] > 0)
        => \E h \in 1..(MaxHeight + 1) : g.starting[h] > 0
  BY <1>2, <1>3
<1>8. g.step = "COMMIT" =>
        e.step = "COMMIT" \/ stopped \/ \E h \in 1..(MaxHeight + 1) : g.starting[h] > 0
  BY <1>7 DEF Onward
<1>9. stopped \/ Awake(g) \/ Same(e, g)
  BY <1>7 DEF Onward, Awake, Same
<1> QED
  BY <1>4, <1>5, <1>6, <1>8, <1>9 DEF Onward

\* startRound() past the validators sets the timer, and prevotes a block that it
\* finds.
LEMMA EnterFacts ==
  ASSUME NEW e \in Loose, NEW h \in 1..(MaxHeight + 1), NEW r \in Nat, head \in Heights
  PROVE  LET f == EnterRound(e, h, r)
         IN  /\ f \in Loose
             /\ f.timer /\ f.round = r /\ f.step \in {"PROPOSE", "PREVOTE"}
             /\ f.height = e.height /\ f.starting = e.starting /\ f.voted = e.voted
<1> DEFINE mine  == getProposer(h, r) = Index
           found == /\ ~mine
                    /\ h = head + 1 /\ h = e.height + 1
                    /\ [round |-> r, by |-> getProposer(h, r)] \in e.pending
                    /\ ~hasVoted(e, r, "PREVOTE")
           v     == Vote(e, r, "PREVOTE", None)
<1>1. ASSUME found PROVE v \in Sent
  <2>1. r \in Rounds
    BY <1>1 DEF Loose, Blocks
  <2>2. e.height + 1 \in 1..(MaxHeight + 1)
    BY <1>1
  <2> QED
    BY <2>1, <2>2 DEF Vote, Sent, VoteTypes
<1>2. EnterRound(e, h, r) =
        [e EXCEPT !.round = r, !.timer = TRUE,
                  !.step = IF found THEN "PREVOTE" ELSE "PROPOSE",
                  !.proposing = IF mine THEN @ + 1 ELSE @,
                  !.sent = IF found THEN @ \cup {v} ELSE @]
  BY DEF EnterRound
<1> DEFINE f == EnterRound(e, h, r)
<1> HIDE DEF mine, found, v
<1>3. /\ f.round = r /\ f.timer = TRUE /\ f.step \in {"PROPOSE", "PREVOTE"}
      /\ f.height = e.height /\ f.starting = e.starting /\ f.voted = e.voted
      /\ f.pending = e.pending /\ f.handling = e.handling
  BY <1>2 DEF Loose
<1>4. f.proposing \in Nat
  BY <1>2 DEF Loose
<1>5. f.sent \subseteq Sent
  BY <1>1, <1>2 DEF Loose
<1>6. f \in Loose
  BY <1>2, <1>3, <1>4, <1>5 DEF Loose, Steps
<1> QED
  BY <1>3, <1>6

\* startRound() leaves an old height alone, awaits the validators of round 0, or
\* enters the round.
LEMMA StartFacts ==
  ASSUME NEW e \in Loose, NEW h \in 1..(MaxHeight + 1), NEW r \in Nat, head \in Heights,
         h = e.height + 1
  PROVE  LET f == startRound(e, h, r)
         IN  /\ f \in Loose /\ Awake(f)
             /\ f.height = e.height
             /\ f.round = IF r = 0 THEN e.round ELSE r
             /\ f.step = e.step \/ f.step # "COMMIT"
             /\ \A i \in 1..(MaxHeight + 1) : f.starting[i] >= e.starting[i]
             /\ r = 0 => f.starting[h] > 0
             /\ r = 0 => f.proposing = e.proposing
<1>0. ~(h <= e.height)
  BY DEF Loose, Heights
<1>1. CASE r = 0
  <2>1. startRound(e, h, r) = [e EXCEPT !.starting[h] = @ + 1]
    BY <1>0, <1>1 DEF startRound
  <2>2. startRound(e, h, r).starting = [e.starting EXCEPT ![h] = @ + 1]
    BY <2>1 DEF Loose
  <2>3. \A i \in 1..(MaxHeight + 1) :
          startRound(e, h, r).starting[i] = IF i = h THEN e.starting[i] + 1 ELSE e.starting[i]
    BY <2>2 DEF Loose
  <2>4. startRound(e, h, r).starting \in [1..(MaxHeight + 1) -> Nat]
    <3> DEFINE D == 1..(MaxHeight + 1)
               g == e.starting
    <3>1. g \in [D -> Nat] /\ h \in D
      BY DEF Loose
    <3> HIDE DEF D, g
    <3>2. [g EXCEPT ![h] = @ + 1] \in [D -> Nat]
      BY <3>1
    <3> QED
      BY <2>2, <3>2 DEF D, g
  <2>5. startRound(e, h, r) \in Loose
    BY <2>1, <2>4 DEF Loose
  <2>6. /\ startRound(e, h, r).height = e.height /\ startRound(e, h, r).round = e.round
        /\ startRound(e, h, r).step = e.step
        /\ startRound(e, h, r).proposing = e.proposing
    BY <2>1 DEF Loose
  <2>7. startRound(e, h, r).starting[h] > 0
    BY <2>3, Counters
  <2>8. \A i \in 1..(MaxHeight + 1) : startRound(e, h, r).starting[i] >= e.starting[i]
    BY <2>3, Counters
  <2> QED
    BY <1>1, <2>5, <2>6, <2>7, <2>8 DEF Awake
<1>2. CASE r # 0
  <2>1. startRound(e, h, r) = EnterRound(e, h, r)
    BY <1>0, <1>2 DEF startRound
  <2> DEFINE f == startRound(e, h, r)
  <2>2. /\ f \in Loose /\ f.timer /\ f.round = r /\ f.step \in {"PROPOSE", "PREVOTE"}
        /\ f.height = e.height /\ f.starting = e.starting
    BY <2>1, EnterFacts
  <2> HIDE DEF f
  <2>3. \A i \in 1..(MaxHeight + 1) : f.starting[i] >= e.starting[i]
    BY <2>2, Counters
  <2> QED
    BY <1>2, <2>2, <2>3 DEF Awake, f
<1> QED
  BY <1>1, <1>2

\* The height after the one committed is one that a round can start for.
LEMMA NextHeight ==
  ASSUME NEW e \in Loose
  PROVE  e.height + 1 \in 1..(MaxHeight + 1)
  BY SyncAssumption DEF Loose, Heights

\* this.round++ and startRound() go onward.
LEMMA NextRoundOnward ==
  ASSUME NEW e \in Loose, head \in Heights
  PROVE  Onward(e, NextRound(e)) /\ NextRound(e).height = e.height
<1>1. CASE stopped
  <2>1. NextRound(e) = [e EXCEPT !.round = @ + 1]
    BY <1>1 DEF NextRound
  <2>2. NextRound(e) \in Loose
    BY <2>1 DEF Loose
  <2>3. NextRound(e).height = e.height /\ NextRound(e).starting = e.starting
          /\ NextRound(e).round = e.round + 1
    BY <2>1 DEF Loose
  <2> QED
    BY <1>1, <2>2, <2>3, Counters DEF Onward
<1>2. CASE ~stopped
  <2>1. NextRound(e) = startRound(e, e.height + 1, e.round + 1)
    BY <1>2 DEF NextRound
  <2>2. e.round + 1 \in Nat /\ e.round + 1 # 0
    BY DEF Loose
  <2>3. startRound(e, e.height + 1, e.round + 1).round = e.round + 1
    BY <2>2, NextHeight, StartFacts
  <2> QED
    BY <2>1, <2>2, <2>3, NextHeight, StartFacts, Counters DEF Onward
<1> QED
  BY <1>1, <1>2

\* So does the jump to the round of a quorum,
LEMMA JumpOnward ==
  ASSUME NEW e \in Loose, NEW r \in Rounds, head \in Heights
  PROVE  Onward(e, Jump(e, r)) /\ Jump(e, r).height = e.height
         /\ Jump(e, r).pending = e.pending
<1>1. CASE r > e.round /\ ~stopped
  <2>1. Jump(e, r) = startRound(e, e.height + 1, r)
    BY <1>1 DEF Jump
  <2>2. r \in Nat /\ r # 0
    BY <1>1, SyncAssumption DEF Loose, Rounds
  <2>3. Jump(e, r) = EnterRound(e, e.height + 1, r)
    BY <2>1, <2>2, Counters DEF startRound
  <2>4. Jump(e, r).pending = e.pending
    BY <2>3 DEF EnterRound, Loose
  <2>5. /\ Jump(e, r) \in Loose /\ Awake(Jump(e, r)) /\ Jump(e, r).round = r
        /\ Jump(e, r).height = e.height
        /\ Jump(e, r).step = e.step \/ Jump(e, r).step # "COMMIT"
        /\ \A i \in 1..(MaxHeight + 1) : Jump(e, r).starting[i] >= e.starting[i]
    BY <2>1, <2>2, NextHeight, StartFacts
  <2> QED
    BY <1>1, <2>4, <2>5, Counters DEF Onward
<1>2. CASE ~(r > e.round /\ ~stopped)
  <2>1. Jump(e, r) = e
    BY <1>2 DEF Jump
  <2> QED
    BY <2>1, Counters DEF Onward, Same
<1> QED
  BY <1>1, <1>2

\* ... a quorum of prevotes,
LEMMA PrevoteOnward ==
  ASSUME NEW e \in Loose, NEW r \in Rounds, NEW then \in VoteTypes \cup {Proposal, None},
         head \in Heights
  PROVE  Onward(e, PrevoteQuorum(e, r, then)) /\ PrevoteQuorum(e, r, then).height = e.height
<1> DEFINE j == Jump(e, r)
           v == Vote(j, r, "PRECOMMIT", then)
           f == [j EXCEPT !.step = "PRECOMMIT", !.timer = TRUE, !.sent = @ \cup {v}]
<1>1. Onward(e, j) /\ j.height = e.height /\ j \in Loose
  BY JumpOnward DEF Onward
<1>2. v \in Sent
  BY <1>1, NextHeight DEF Vote, Sent, VoteTypes
<1>3. Onward(j, f) /\ f.height = j.height
  <2> HIDE DEF j, v
  <2>1. /\ f.step = "PRECOMMIT" /\ f.timer = TRUE /\ f.sent = j.sent \cup {v}
        /\ f.height = j.height /\ f.round = j.round /\ f.starting = j.starting
    BY <1>1 DEF Loose
  <2>2. f \in Loose
    BY <1>1, <1>2 DEF Loose, Steps
  <2> HIDE DEF f
  <2> QED
    BY <1>1, <2>1, <2>2, Counters DEF Onward, Awake
<1>4. PrevoteQuorum(e, r, then) = f \/ PrevoteQuorum(e, r, then) = j
  BY DEF PrevoteQuorum
<1> HIDE DEF j, v, f
<1> QED
  BY <1>1, <1>3, <1>4, OnwardTwice

\* ... a quorum of nil precommits,
LEMMA NilOnward ==
  ASSUME NEW e \in Loose, NEW r \in Rounds, head \in Heights
  PROVE  Onward(e, NilQuorum(e, r)) /\ NilQuorum(e, r).height = e.height
<1> DEFINE j == Jump(e, r)
<1>1. Onward(e, j) /\ j.height = e.height /\ j \in Loose
  BY JumpOnward DEF Onward
<1>2. Onward(j, NextRound(j)) /\ NextRound(j).height = j.height
  BY <1>1, NextRoundOnward
<1>3. NilQuorum(e, r) = NextRound(j) \/ NilQuorum(e, r) = j
  BY DEF NilQuorum
<1> HIDE DEF j
<1> QED
  BY <1>1, <1>2, <1>3, OnwardTwice

\* ... and one that commits a block.
LEMMA BlockOnward ==
  ASSUME NEW e \in Loose, NEW r \in Rounds, head \in Heights, CanCommit(e, r)
  PROVE  Onward(e, BlockQuorum(e, r)) /\ BlockQuorum(e, r).height = e.height + 1
<1> DEFINE j == Jump(e, r)
           c == [j EXCEPT !.height = @ + 1, !.step = "COMMIT", !.voted = {},
                          !.pending = {}, !.handling = {}]
<1>1. Onward(e, j) /\ j.height = e.height /\ j \in Loose
  BY JumpOnward DEF Onward
<1>2. e.height + 1 \in Heights /\ e.height # e.height + 1
  BY SyncAssumption DEF CanCommit, Loose, Heights
<1>3. c \in Loose /\ c.height = e.height + 1 /\ c.starting = j.starting /\ c.step = "COMMIT"
  <2> HIDE DEF j
  <2> QED
    BY <1>1, <1>2 DEF Loose, Steps
<1>4. CASE stopped
  <2>1. BlockQuorum(e, r) = c
    BY <1>4 DEF BlockQuorum
  <2> HIDE DEF j, c
  <2> QED
    BY <1>1, <1>2, <1>3, <1>4, <2>1 DEF Onward
<1>5. CASE ~stopped
  <2>1. BlockQuorum(e, r) = startRound(c, c.height + 1, 0)
    BY <1>5 DEF BlockQuorum
  <2> HIDE DEF j, c
  <2>2. /\ BlockQuorum(e, r) \in Loose /\ Awake(BlockQuorum(e, r))
        /\ BlockQuorum(e, r).height = c.height
        /\ \A i \in 1..(MaxHeight + 1) : BlockQuorum(e, r).starting[i] >= c.starting[i]
        /\ BlockQuorum(e, r).starting[c.height + 1] > 0
    <3>1. c.height + 1 \in 1..(MaxHeight + 1) /\ 0 \in Nat
      BY <1>3, NextHeight
    <3> QED
      BY <1>3, <2>1, <3>1, StartFacts
  <2>3. \A i \in 1..(MaxHeight + 1) : BlockQuorum(e, r).starting[i] >= e.starting[i]
    <3>1. \A i \in 1..(MaxHeight + 1) :
            /\ e.starting[i] \in Nat /\ j.starting[i] \in Nat
            /\ BlockQuorum(e, r).starting[i] \in Nat
      BY <1>1, <2>2, Counters
    <3> QED
      BY <1>1, <1>3, <2>2, <3>1 DEF Onward
  <2> QED
    BY <1>2, <1>3, <2>2, <2>3, NextHeight DEF Onward
<1> QED
  BY <1>4, <1>5

-----------------------------------------------------------------------------
(* The invariant.                                                          *)

\* A handleTimeout() awaits its vote and will set the timer.
Returning == \E s \in engine.sent : s.then \in VoteTypes

\* The synchronisation has given the handlers back for good.
Settled == sync.at = "over"

\* Between two heights a round is about to start.
CommitStep ==
  Settled /\ engine.step = "COMMIT"
    => \E h \in 1..(MaxHeight + 1) : engine.starting[h] > 0

\* Only the synchronisation stops the handlers.
StoppedBySync ==
  /\ phase = "waiting" => sync.at = "off"
  /\ stopped => sync.at \notin {"off", "due", "over"}

\* A settled engine is awake, or will be set its timer, or is stalled.
NeverAsleep ==
  phase = "running" /\ Settled => Awake(engine) \/ Returning \/ Stalled(engine)

IInv == TypeOK /\ StoppedBySync /\ CommitStep /\ NeverAsleep

\* The invariant without the types.
Orderly == StoppedBySync /\ CommitStep /\ NeverAsleep

\* An engine that goes onward stays orderly.
LEMMA OnwardOrderly ==
  ASSUME IInv, Onward(engine, engine'), UNCHANGED <<phase, stopped, sync>>
  PROVE  Orderly'
<1>1. StoppedBySync' /\ (Settled => ~stopped)
  BY DEF IInv, StoppedBySync, Settled
<1>2. engine \in Loose /\ engine' \in Loose
  BY EngineLoose DEF IInv, TypeOK, Onward
<1>3. (\E h \in 1..(MaxHeight + 1) : engine.starting[h] > 0)
        => \E h \in 1..(MaxHeight + 1) : engine'.starting[h] > 0
  <2>1. \A h \in 1..(MaxHeight + 1) :
          /\ engine.starting[h] \in Nat /\ engine'.starting[h] \in Nat
          /\ engine'.starting[h] >= engine.starting[h]
    BY <1>2, Counters DEF Onward
  <2> QED
    BY <2>1
<1>4. CommitStep'
  BY <1>1, <1>3 DEF IInv, CommitStep, Onward, Settled
<1>5. NeverAsleep'
  <2>1. SUFFICES ASSUME phase = "running", Settled
                 PROVE  (Awake(engine) \/ Returning \/ Stalled(engine))'
    BY DEF NeverAsleep, Settled
  <2>2. Awake(engine') \/ Same(engine, engine')
    BY <1>1, <2>1 DEF Onward
  <2>3. Awake(engine) \/ Returning \/ Stalled(engine)
    BY <2>1 DEF IInv, NeverAsleep
  <2> QED
    BY <2>2, <2>3 DEF Same, Awake, Returning, Stalled, hasVoted
<1> QED
  BY <1>1, <1>4, <1>5 DEF Orderly

\* A node that has just booted is orderly.
LEMMA InitInv == Init => IInv
<1> SUFFICES ASSUME Init PROVE IInv
  OBVIOUS
<1>1. MaxHeight \in Nat /\ MaxRound \in Nat /\ MaxProposals \in Nat
        /\ {MaxTimeouts, MaxMessages, MaxFailures} \subseteq Nat
  BY SyncAssumption
<1>2. engine \in Engine /\ InBounds(engine)
  BY <1>1 DEF Init, Engine, InBounds, Rounds, Heights, Steps
<1>3. sync \in Syncs
  BY <1>1 DEF Init, Syncs, SyncSteps, Heights
<1>4. TypeOK
  <2>1. head \in Heights /\ connected \subseteq Peers
    BY SyncAssumption DEF Init, Heights
  <2>2. timeouts \in 0..MaxTimeouts /\ messages \in 0..MaxMessages /\ failures \in 0..MaxFailures
    BY <1>1 DEF Init
  <2>3. phase \in {"waiting", "running", "ended"} /\ stopped \in BOOLEAN
    BY DEF Init
  <2> QED
    BY <1>2, <1>3, <2>1, <2>2, <2>3 DEF TypeOK
<1> QED
  BY <1>4 DEF Init, IInv, StoppedBySync, CommitStep, NeverAsleep, Settled

\* A round that starts sets the timer.
LEMMA RoundStartsInv ==
  ASSUME IInv, NEW h \in 1..(MaxHeight + 1), RoundStarts(h)
  PROVE  IInv'
<1> DEFINE g == [engine EXCEPT !.starting[h] = @ - 1]
<1>1. engine \in Loose /\ head \in Heights
  BY EngineLoose DEF IInv, TypeOK
<1>2. g \in Loose
  <2> DEFINE D == 1..(MaxHeight + 1)
             s == engine.starting
  <2>1. s \in [D -> Nat] /\ h \in D /\ s[h] > 0
    BY <1>1 DEF Loose, RoundStarts
  <2> HIDE DEF D, s
  <2>2. [s EXCEPT ![h] = @ - 1] \in [D -> Nat]
    BY <2>1
  <2> QED
    BY <1>1, <2>2 DEF Loose, D, s
<1>3. engine' = EnterRound(g, h, 0) /\ InBounds(engine')
  BY DEF RoundStarts, Engine_
<1> HIDE DEF g
<1>4. engine' \in Loose /\ engine'.timer /\ engine'.step # "COMMIT"
  BY <1>1, <1>2, <1>3, EnterFacts
<1>5. TypeOK'
  BY <1>3, <1>4, LooseInBounds DEF IInv, TypeOK, RoundStarts, bootVars, countVars
<1>6. UNCHANGED <<phase, stopped, sync>>
  BY DEF RoundStarts, bootVars
<1> QED
  BY <1>4, <1>5, <1>6 DEF IInv, StoppedBySync, CommitStep, NeverAsleep, Awake, Settled

\* A timer goes off: only a node that has voted is left without anything that
\* would set it again.
LEMMA TimeoutInv ==
  ASSUME IInv, handleTimeout
  PROVE  IInv'
<1> DEFINE e == [engine EXCEPT !.timer = FALSE]
           VoteNil(type) ==
             IF hasVoted(e, e.round, type) THEN e
             ELSE [e EXCEPT !.sent = @ \cup {Vote(e, e.round, type, type)}]
<1>1. engine \in Loose /\ engine \in Engine /\ head \in Heights /\ InBounds(engine)
  BY EngineLoose DEF IInv, TypeOK
<1>2. /\ e \in Loose /\ e.step = engine.step /\ e.round = engine.round
      /\ e.voted = engine.voted /\ e.starting = engine.starting /\ e.sent = engine.sent
      /\ e.height = engine.height /\ e.proposing = engine.proposing
  BY <1>1 DEF Loose
<1>3. /\ UNCHANGED <<phase, connected, head, stopped, sync, failures, messages>>
      /\ timeouts' \in 0..MaxTimeouts /\ ~stopped
  BY SyncAssumption DEF handleTimeout, bootVars, IInv, TypeOK
<1>4. ASSUME NEW type \in VoteTypes, engine' = VoteNil(type),
             e.step = IF type = "PREVOTE" THEN "PROPOSE" ELSE "PREVOTE"
      PROVE  IInv'
  <2> DEFINE v == Vote(e, e.round, type, type)
  <2>1. v \in Sent /\ v.then \in VoteTypes
    <3>1. e.round \in Rounds /\ e.height + 1 \in 1..(MaxHeight + 1)
      BY <1>1, <1>2, Counters DEF Engine
    <3> QED
      BY <3>1 DEF Vote, Sent
  <2>2. CASE hasVoted(e, e.round, type)
    <3>1. engine' = e
      BY <1>4, <2>2
    <3>2. Stalled(engine')
      BY <1>4, <2>2, <3>1 DEF Stalled, VoteTypes
    <3>3. engine' \in Engine /\ InBounds(engine')
      BY <1>1, <1>2, <3>1, LooseInBounds DEF InBounds
    <3> QED
      BY <1>2, <1>3, <1>4, <3>1, <3>2, <3>3
         DEF IInv, TypeOK, StoppedBySync, CommitStep, NeverAsleep, Settled
  <2>3. CASE ~hasVoted(e, e.round, type)
    <3>1. engine' = [e EXCEPT !.sent = @ \cup {v}]
      BY <1>4, <2>3
    <3> HIDE DEF e, v
    <3>2. /\ engine'.sent = e.sent \cup {v} /\ engine'.step = e.step
          /\ engine'.round = e.round /\ engine'.proposing = e.proposing
      BY <1>2, <3>1 DEF Loose
    <3>3. engine' \in Loose
      BY <1>2, <2>1, <3>1 DEF Loose
    <3>4. engine' \in Engine /\ InBounds(engine')
      BY <1>1, <1>2, <3>2, <3>3, LooseInBounds DEF InBounds
    <3>5. Returning'
      BY <2>1, <3>2 DEF Returning
    <3> QED
      BY <1>2, <1>3, <1>4, <3>2, <3>4, <3>5
         DEF IInv, TypeOK, StoppedBySync, CommitStep, NeverAsleep, Settled
  <2> QED
    BY <2>2, <2>3
<1>5. ASSUME e.step = "PRECOMMIT", Engine_(NextRound(e))
      PROVE  IInv'
  <2> HIDE DEF e
  <2>1. engine' = startRound(e, e.height + 1, e.round + 1) /\ InBounds(engine')
    <3>1. engine' = NextRound(e) /\ InBounds(NextRound(e))
      BY <1>5 DEF Engine_
    <3>2. NextRound(e) = startRound(e, e.height + 1, e.round + 1)
      BY <1>3 DEF NextRound
    <3> QED
      BY <3>1, <3>2
  <2>2. e.round + 1 \in Nat /\ e.round + 1 # 0 /\ e.height + 1 \in 1..(MaxHeight + 1)
    BY <1>2, Counters
  <2>3. engine' \in Loose /\ Awake(engine') /\ engine'.step # "COMMIT"
    BY <1>1, <1>2, <1>5, <2>1, <2>2, StartFacts
  <2>4. TypeOK'
    BY <1>3, <2>1, <2>3, LooseInBounds DEF IInv, TypeOK
  <2> QED
    BY <1>3, <2>3, <2>4
       DEF IInv, StoppedBySync, CommitStep, NeverAsleep, Settled, Awake
<1>6. ASSUME e.step = "COMMIT", engine' = e
      PROVE  IInv'
  <2>1. engine' \in Engine /\ InBounds(engine')
    BY <1>1, <1>2, <1>6, LooseInBounds DEF InBounds
  <2>2. engine'.starting = engine.starting /\ engine'.step = engine.step
    BY <1>2, <1>6
  <2> QED
    BY <1>2, <1>3, <1>6, <2>1, <2>2
       DEF IInv, TypeOK, StoppedBySync, CommitStep, NeverAsleep, Settled, Awake
<1>7. \/ e.step = "PROPOSE"   /\ engine' = VoteNil("PREVOTE")
      \/ e.step = "PREVOTE"   /\ engine' = VoteNil("PRECOMMIT")
      \/ e.step = "PRECOMMIT" /\ Engine_(NextRound(e))
      \/ e.step = "COMMIT"    /\ engine' = e
  BY DEF handleTimeout
<1>8. "PREVOTE" \in VoteTypes /\ "PRECOMMIT" \in VoteTypes
  BY DEF VoteTypes
<1> HIDE DEF e, VoteNil
<1>9. CASE e.step = "PROPOSE" /\ engine' = VoteNil("PREVOTE")
  <2>1. e.step = IF "PREVOTE" = "PREVOTE" THEN "PROPOSE" ELSE "PREVOTE"
    BY <1>9
  <2> QED
    BY <1>4, <1>8, <1>9, <2>1
<1>10. CASE e.step = "PREVOTE" /\ engine' = VoteNil("PRECOMMIT")
  <2>1. e.step = IF "PRECOMMIT" = "PREVOTE" THEN "PROPOSE" ELSE "PREVOTE"
    BY <1>10
  <2> QED
    BY <1>4, <1>8, <1>10, <2>1
<1> QED
  BY <1>5, <1>6, <1>7, <1>9, <1>10

\* A stopped engine loses its timer.
LEMMA TimerLostInv ==
  ASSUME IInv, TimerLost
  PROVE  IInv'
<1>1. engine \in Loose /\ InBounds(engine)
  BY EngineLoose DEF IInv, TypeOK
<1>2. /\ engine' \in Loose /\ InBounds(engine')
  BY <1>1 DEF TimerLost, Loose, InBounds
<1>3. engine' \in Engine
  BY <1>2, LooseInBounds
<1>4. stopped' /\ sync' = sync /\ phase' = phase /\ sync.at # "over"
  BY DEF TimerLost, bootVars, IInv, StoppedBySync
<1>5. TypeOK'
  BY <1>2, <1>3 DEF TimerLost, IInv, TypeOK, bootVars, countVars
<1> QED
  BY <1>4, <1>5 DEF TimerLost, IInv, StoppedBySync, CommitStep, NeverAsleep, Settled

\* The votes and blocks of others move an engine onward.
LEMMA QuorumSeenInv ==
  ASSUME IInv, QuorumSeen
  PROVE  IInv'
<1>1. engine \in Loose /\ head \in Heights
  BY EngineLoose DEF IInv, TypeOK
<1>2. PICK r \in Rounds :
        \/ Engine_(PrevoteQuorum(engine, r, None)) /\ UNCHANGED head
        \/ Engine_(NilQuorum(engine, r)) /\ UNCHANGED head
        \/ /\ CanCommit(engine, r)
           /\ Engine_(BlockQuorum(engine, r))
           /\ head' = head + 1
  BY DEF QuorumSeen
<1>3. Onward(engine, engine') /\ InBounds(engine') /\ head' \in Heights
  <2>1. CASE Engine_(PrevoteQuorum(engine, r, None)) /\ UNCHANGED head
    BY <1>1, <2>1, PrevoteOnward DEF Engine_
  <2>2. CASE Engine_(NilQuorum(engine, r)) /\ UNCHANGED head
    BY <1>1, <2>2, NilOnward DEF Engine_
  <2>3. CASE /\ CanCommit(engine, r)
             /\ Engine_(BlockQuorum(engine, r))
             /\ head' = head + 1
    BY <1>1, <2>3, BlockOnward, SyncAssumption DEF Engine_, CanCommit, Heights
  <2> QED
    BY <1>2, <2>1, <2>2, <2>3
<1>4. TypeOK'
  BY <1>3, LooseInBounds, SyncAssumption
     DEF QuorumSeen, IInv, TypeOK, bootVars, Onward
<1>5. UNCHANGED <<phase, stopped, sync>>
  BY DEF QuorumSeen, bootVars
<1> QED
  BY <1>3, <1>4, <1>5, OnwardOrderly DEF IInv, Orderly

\* An engine that differs in its blocks and proposals only has gone onward.
LEMMA SameOnward ==
  ASSUME NEW e \in Loose, NEW f \in Loose, Same(e, f)
  PROVE  Onward(e, f)
BY Counters DEF Same, Onward

\* A block of another validator is taken up.
LEMMA BlockArrivesInv ==
  ASSUME IInv, BlockArrives
  PROVE  IInv'
<1>1. engine \in Loose /\ head \in Nat /\ InBounds(engine)
  BY EngineLoose, SyncAssumption DEF IInv, TypeOK, Heights
<1>2. PICK r \in Rounds : engine' = [engine EXCEPT !.handling =
                              @ \cup {[round |-> r, by |-> getProposer(head + 1, r)]}]
  BY DEF BlockArrives
<1>3. [round |-> r, by |-> getProposer(head + 1, r)] \in Blocks
  <2>1. r \in Nat /\ head + 1 \in Nat
    BY <1>1, SyncAssumption DEF Rounds
  <2> QED
    BY <2>1, ProposerType DEF Blocks
<1>4. engine' \in Loose /\ Same(engine, engine') /\ InBounds(engine')
  BY <1>1, <1>2, <1>3 DEF Loose, Same, InBounds
<1>5. TypeOK'
  BY <1>4, LooseInBounds, SyncAssumption DEF BlockArrives, IInv, TypeOK, bootVars
<1>6. UNCHANGED <<phase, stopped, sync>>
  BY DEF BlockArrives, bootVars
<1> QED
  BY <1>1, <1>4, <1>5, <1>6, SameOnward, OnwardOrderly DEF IInv, Orderly

\* ... and kept, or dropped.
LEMMA BlockHandledInv ==
  ASSUME IInv, BlockHandled
  PROVE  IInv'
<1>1. engine \in Loose /\ InBounds(engine)
  BY EngineLoose DEF IInv, TypeOK
<1>2. PICK b \in engine.handling :
        LET done  == [engine EXCEPT !.handling = @ \ {b}]
            kept  == [done EXCEPT !.pending = @ \cup {b}]
        IN  \/ engine' = done
            \/ engine' = kept
            \/ engine' = [kept EXCEPT !.step = "PREVOTE", !.timer = TRUE,
                            !.sent = @ \cup {Vote(kept, b.round, "PREVOTE",
                                IF b.by = Index THEN Proposal ELSE None)}]
  BY DEF BlockHandled
<1>3. b \in Blocks
  BY <1>1 DEF Loose
<1> DEFINE done == [engine EXCEPT !.handling = @ \ {b}]
           kept == [done EXCEPT !.pending = @ \cup {b}]
           v    == Vote(kept, b.round, "PREVOTE", IF b.by = Index THEN Proposal ELSE None)
           cast == [kept EXCEPT !.step = "PREVOTE", !.timer = TRUE, !.sent = @ \cup {v}]
<1>4. done \in Loose /\ Same(engine, done) /\ done.proposing = engine.proposing
  BY <1>1 DEF Loose, Same
<1>5. kept \in Loose /\ Same(engine, kept) /\ kept.proposing = engine.proposing
  <2> HIDE DEF done
  <2> QED
    BY <1>3, <1>4 DEF Loose, Same
<1>6. v \in Sent
  BY <1>3, <1>5, Counters DEF Vote, Sent, VoteTypes, Blocks
<1>7. cast \in Loose /\ Onward(engine, cast) /\ cast.proposing = engine.proposing
        /\ cast.round = engine.round
  <2> HIDE DEF kept, v
  <2>1. /\ cast.step = "PREVOTE" /\ cast.timer = TRUE /\ cast.height = engine.height
        /\ cast.round = engine.round /\ cast.starting = engine.starting
        /\ cast.proposing = engine.proposing
    BY <1>5 DEF Loose, Same
  <2>2. cast \in Loose
    BY <1>5, <1>6 DEF Loose, Steps
  <2> HIDE DEF cast
  <2> QED
    BY <1>1, <2>1, <2>2, Counters DEF Onward, Awake
<1>8. engine' = done \/ engine' = kept \/ engine' = cast
  BY <1>2
<1> HIDE DEF done, kept, cast
<1>9. engine' \in Loose /\ Onward(engine, engine') /\ InBounds(engine')
  BY <1>1, <1>4, <1>5, <1>7, <1>8, SameOnward DEF InBounds, Same
<1>10. TypeOK'
  BY <1>9, LooseInBounds DEF BlockHandled, IInv, TypeOK, bootVars, countVars
<1>11. UNCHANGED <<phase, stopped, sync>>
  BY DEF BlockHandled, bootVars
<1> QED
  BY <1>9, <1>10, <1>11, OnwardOrderly DEF IInv, Orderly

-----------------------------------------------------------------------------
(* A vote has been published.                                              *)

\* The engine after its own vote has left and been counted.
Counted(e, own, s) ==
  /\ own \in Loose
  /\ own.timer = e.timer /\ own.round = e.round /\ own.step = e.step
  /\ own.height = e.height /\ own.starting = e.starting /\ own.proposing = e.proposing
  /\ e.voted \subseteq own.voted
  /\ own.sent = e.sent \ {s}

\* A handleTimeout() that goes on sets the timer.
LEMMA ResumeFacts ==
  ASSUME NEW e \in Loose, NEW then
  PROVE  LET f == Resume(e, then)
         IN  /\ f \in Loose
             /\ then \notin VoteTypes => f = e
             /\ then \in VoteTypes => f.timer /\ f.step \in VoteTypes
<1>1. CASE then \in VoteTypes
  <2>1. Resume(e, then) = [e EXCEPT !.step = then, !.timer = TRUE]
    BY <1>1 DEF Resume
  <2> QED
    BY <1>1, <2>1 DEF Loose, VoteTypes, Steps
<1>2. CASE then \notin VoteTypes
  BY <1>2 DEF Resume
<1> QED
  BY <1>1, <1>2

\* The handler that awaited the vote sets the timer, or the vote had none.
LEMMA CountedOrderly ==
  ASSUME IInv, NEW s \in engine.sent, NEW own, Counted(engine, own, s),
         NEW f, Onward(own, f),
         \/ engine' = Resume(f, s.then)
         \/ engine' = f /\ ~Same(own, f),
         UNCHANGED <<phase, stopped, sync>>
  PROVE  Orderly' /\ engine' \in Loose
<1>1. StoppedBySync' /\ (Settled => ~stopped)
  BY DEF IInv, StoppedBySync, Settled
<1>2. f \in Loose /\ own \in Loose
  BY DEF Onward, Counted
<1>3. CASE s.then \in VoteTypes /\ engine' = Resume(f, s.then)
  <2>1. engine' \in Loose /\ engine'.timer /\ engine'.step # "COMMIT"
    BY <1>2, <1>3, ResumeFacts DEF VoteTypes
  <2> QED
    BY <1>1, <2>1 DEF Orderly, CommitStep, NeverAsleep, Awake
<1>4. CASE engine' = f /\ (s.then \notin VoteTypes \/ ~Same(own, f))
  <2>1. (\E h \in 1..(MaxHeight + 1) : engine.starting[h] > 0)
          => \E h \in 1..(MaxHeight + 1) : engine'.starting[h] > 0
    <3>1. \A h \in 1..(MaxHeight + 1) :
            /\ own.starting[h] \in Nat /\ f.starting[h] \in Nat
            /\ f.starting[h] >= own.starting[h]
      BY <1>2, Counters DEF Onward
    <3> QED
      BY <1>4, <3>1 DEF Counted
  <2>2. CommitStep'
    BY <1>1, <1>4, <2>1 DEF IInv, CommitStep, Onward, Settled, Counted
  <2>3. NeverAsleep'
    <3>1. SUFFICES ASSUME phase = "running", Settled
                   PROVE  (Awake(engine) \/ Returning \/ Stalled(engine))'
      BY DEF NeverAsleep, Settled
    <3>2. Awake(engine') \/ Same(own, engine')
      BY <1>1, <1>4, <3>1 DEF Onward
    <3>3. SUFFICES ASSUME Same(own, engine')
                   PROVE  (Awake(engine) \/ Returning \/ Stalled(engine))'
      BY <3>2
    <3>4. s.then \notin VoteTypes
      BY <1>4, <3>3
    <3>5. Awake(engine) \/ Returning \/ Stalled(engine)
      BY <3>1 DEF IInv, NeverAsleep
    <3>6. CASE Awake(engine)
      BY <3>3, <3>6 DEF Awake, Same, Counted
    <3>7. CASE Returning
      BY <3>3, <3>4, <3>7 DEF Returning, Same, Counted
    <3>8. CASE Stalled(engine)
      BY <3>3, <3>8 DEF Stalled, hasVoted, Same, Counted
    <3> QED
      BY <3>5, <3>6, <3>7, <3>8
  <2> QED
    BY <1>1, <1>2, <1>4, <2>2, <2>3 DEF Orderly
<1>5. s.then \notin VoteTypes => Resume(f, s.then) = f
  BY <1>2, ResumeFacts
<1> QED
  BY <1>3, <1>4, <1>5

\* broadcastVote() has published and counts.
LEMMA VoteLandsInv ==
  ASSUME IInv, VoteLands
  PROVE  IInv'
<1>1. engine \in Loose /\ head \in Heights
  BY EngineLoose DEF IInv, TypeOK
<1>2. PICK s \in engine.sent :
        LET current == s.height > engine.height
            gone == [engine EXCEPT !.sent = @ \ {s}]
            own  == [gone EXCEPT !.voted = IF current THEN @ \cup {<<s.round, s.type>>} ELSE @]
            twice == s.type = "PRECOMMIT" /\ s.then # "PRECOMMIT"
        IN  \/ Engine_(Resume(own, s.then)) /\ UNCHANGED head
            \/ LET q == PrevoteQuorum(own, s.round, s.then)
               IN  Engine_(IF q.sent = own.sent THEN Resume(q, s.then) ELSE q) /\ UNCHANGED head
            \/ LET q == NilQuorum(own, s.round)
               IN  Engine_(Resume(IF twice THEN NilQuorum(q, s.round) ELSE q, s.then))
                     /\ UNCHANGED head
            \/ /\ CanCommit(own, s.round)
               /\ Engine_(Resume(BlockQuorum(own, s.round), s.then))
               /\ head' = head + 1
  BY DEF VoteLands
<1> DEFINE current == s.height > engine.height
           gone == [engine EXCEPT !.sent = @ \ {s}]
           own  == [gone EXCEPT !.voted = IF current THEN @ \cup {<<s.round, s.type>>} ELSE @]
           twice == s.type = "PRECOMMIT" /\ s.then # "PRECOMMIT"
<1>3. s.round \in Rounds /\ s.type \in VoteTypes /\ s.then \in VoteTypes \cup {Proposal, None}
  BY <1>1 DEF Loose, Sent
<1>4. Counted(engine, own, s)
  <2>1. gone \in Loose /\ Same(engine, [gone EXCEPT !.sent = engine.sent])
          /\ gone.sent = engine.sent \ {s} /\ gone.proposing = engine.proposing
          /\ gone.timer = engine.timer /\ gone.round = engine.round
          /\ gone.step = engine.step /\ gone.height = engine.height
          /\ gone.starting = engine.starting /\ gone.voted = engine.voted
    BY <1>1 DEF Loose, Same
  <2>2. <<s.round, s.type>> \in Rounds \X VoteTypes
    BY <1>3
  <2> HIDE DEF gone, current
  <2>3. own.voted = IF current THEN gone.voted \cup {<<s.round, s.type>>} ELSE gone.voted
    BY <2>1 DEF Loose
  <2>4. own \in Loose
    BY <2>1, <2>2, <2>3 DEF Loose
  <2> QED
    BY <2>1, <2>3, <2>4 DEF Counted, Loose
<1>5. own \in Loose
  BY <1>4 DEF Counted
<1>6. UNCHANGED <<phase, connected, stopped, sync, timeouts, messages, failures>>
  BY DEF VoteLands, bootVars, countVars
<1>7. \/ Engine_(Resume(own, s.then)) /\ UNCHANGED head
      \/ LET q == PrevoteQuorum(own, s.round, s.then)
         IN  Engine_(IF q.sent = own.sent THEN Resume(q, s.then) ELSE q) /\ UNCHANGED head
      \/ LET q == NilQuorum(own, s.round)
         IN  Engine_(Resume(IF twice THEN NilQuorum(q, s.round) ELSE q, s.then))
               /\ UNCHANGED head
      \/ /\ CanCommit(own, s.round)
         /\ Engine_(Resume(BlockQuorum(own, s.round), s.then))
         /\ head' = head + 1
  BY <1>2
<1> HIDE DEF own, twice
<1>8. /\ \E f : /\ Onward(own, f)
                /\ \/ engine' = Resume(f, s.then)
                   \/ engine' = f /\ ~Same(own, f)
      /\ InBounds(engine') /\ head' \in Heights
  <2>1. CASE Engine_(Resume(own, s.then)) /\ UNCHANGED head
    <3>1. Onward(own, own)
      BY <1>5, SameOnward DEF Same
    <3> QED
      BY <1>1, <2>1, <3>1 DEF Engine_
  <2>2. CASE LET q == PrevoteQuorum(own, s.round, s.then)
             IN  Engine_(IF q.sent = own.sent THEN Resume(q, s.then) ELSE q) /\ UNCHANGED head
    <3> DEFINE q == PrevoteQuorum(own, s.round, s.then)
    <3>1. Onward(own, q)
      BY <1>1, <1>3, <1>5, PrevoteOnward
    <3>2. Engine_(IF q.sent = own.sent THEN Resume(q, s.then) ELSE q) /\ UNCHANGED head
      BY <2>2
    <3> HIDE DEF q
    <3> QED
      BY <1>1, <3>1, <3>2 DEF Engine_, Same
  <2>3. CASE LET q == NilQuorum(own, s.round)
             IN  Engine_(Resume(IF twice THEN NilQuorum(q, s.round) ELSE q, s.then))
                   /\ UNCHANGED head
    <3> DEFINE q == NilQuorum(own, s.round)
    <3>1. Onward(own, q) /\ q.height = own.height /\ q \in Loose
      BY <1>1, <1>3, <1>5, NilOnward DEF Onward
    <3>2. Onward(q, NilQuorum(q, s.round))
      BY <1>1, <1>3, <3>1, NilOnward
    <3>3. Engine_(Resume(IF twice THEN NilQuorum(q, s.round) ELSE q, s.then)) /\ UNCHANGED head
      BY <2>3
    <3> HIDE DEF q
    <3>4. Onward(own, IF twice THEN NilQuorum(q, s.round) ELSE q)
      BY <1>5, <3>1, <3>2, OnwardTwice
    <3> QED
      BY <1>1, <3>3, <3>4 DEF Engine_
  <2>4. CASE /\ CanCommit(own, s.round)
             /\ Engine_(Resume(BlockQuorum(own, s.round), s.then))
             /\ head' = head + 1
    <3>1. Onward(own, BlockQuorum(own, s.round))
      BY <1>1, <1>3, <1>5, <2>4, BlockOnward
    <3>2. head' \in Heights
      BY <1>1, <2>4, SyncAssumption DEF CanCommit, Heights
    <3> QED
      BY <2>4, <3>1, <3>2 DEF Engine_
  <2> QED
    BY <1>7, <2>1, <2>2, <2>3, <2>4
<1>9. Orderly' /\ engine' \in Loose
  BY <1>4, <1>6, <1>8, CountedOrderly
<1>10. TypeOK'
  BY <1>6, <1>8, <1>9, LooseInBounds DEF IInv, TypeOK
<1> QED
  BY <1>9, <1>10 DEF IInv, Orderly

\* A publish that throws ends the process, or leaves the round to the timer.
LEMMA VoteFailsInv ==
  ASSUME IInv, VoteFails
  PROVE  IInv'
<1>1. engine \in Loose /\ InBounds(engine)
  BY EngineLoose DEF IInv, TypeOK
<1>2. PICK s \in engine.sent :
        /\ engine' = [engine EXCEPT !.sent = @ \ {s}]
        /\ phase' = IF s.then = Proposal THEN phase ELSE "ended"
  BY DEF VoteFails
<1>3. /\ engine' \in Loose /\ engine'.timer = engine.timer
      /\ engine'.round = engine.round /\ engine'.step = engine.step
      /\ engine'.voted = engine.voted /\ engine'.starting = engine.starting
      /\ engine'.proposing = engine.proposing /\ engine'.sent = engine.sent \ {s}
  BY <1>1, <1>2 DEF Loose
<1>4. UNCHANGED <<connected, head, stopped, sync, timeouts, messages>>
        /\ failures' \in 0..MaxFailures
  BY SyncAssumption DEF VoteFails, IInv, TypeOK
<1>5. TypeOK'
  <2>1. engine' \in Engine /\ InBounds(engine')
    BY <1>1, <1>3, LooseInBounds DEF InBounds
  <2> QED
    BY <1>2, <1>4, <2>1 DEF IInv, TypeOK
<1>6. StoppedBySync' /\ CommitStep'
  BY <1>2, <1>3, <1>4 DEF IInv, StoppedBySync, CommitStep, Settled
<1>7. NeverAsleep'
  <2>1. SUFFICES ASSUME phase' = "running", Settled
                 PROVE  (Awake(engine) \/ Returning \/ Stalled(engine))'
    BY <1>4 DEF NeverAsleep, Settled
  <2>2. s.then \notin VoteTypes /\ phase = "running"
    BY <1>2, <2>1 DEF VoteTypes, Proposal
  <2>3. Awake(engine) \/ Returning \/ Stalled(engine)
    BY <2>1, <2>2 DEF IInv, NeverAsleep
  <2> QED
    BY <1>3, <2>2, <2>3 DEF Awake, Returning, Stalled, hasVoted
<1> QED
  BY <1>5, <1>6, <1>7 DEF IInv

-----------------------------------------------------------------------------
(* The other steps.                                                        *)

\* A step that leaves the synchronisation under way needs the types only.
LEMMA NotSettled ==
  ASSUME TypeOK', sync'.at \notin {"off", "over"}, phase' # "waiting",
         stopped' => sync'.at # "due"
  PROVE  IInv'
BY DEF IInv, StoppedBySync, CommitStep, NeverAsleep, Settled

\* A proposal is handed to the node's own handleBlock(), or fails.
LEMMA ProposalInv ==
  ASSUME IInv, BlockProposed \/ ProposalFails
  PROVE  IInv'
<1> DEFINE b == [round |-> engine.round, by |-> Index]
<1>1. engine \in Engine /\ engine \in Loose /\ InBounds(engine) /\ engine.proposing \in Nat
  BY EngineLoose, Counters DEF IInv, TypeOK
<1>2. b \in Blocks
  BY <1>1, SyncAssumption DEF Engine, Blocks
<1>3. \/ engine' = [engine EXCEPT !.proposing = @ - 1,
                      !.handling = IF stopped THEN @ ELSE @ \cup {b}]
      \/ engine' = [engine EXCEPT !.proposing = @ - 1]
  BY DEF BlockProposed, ProposalFails
<1>4. engine.proposing - 1 \in Nat
  BY <1>1 DEF BlockProposed, ProposalFails
<1> HIDE DEF b
<1>5. /\ engine' \in Loose /\ Same(engine, engine')
      /\ engine'.proposing = engine.proposing - 1
  <2> DEFINE m == engine.proposing - 1
             c == IF stopped THEN engine.handling ELSE engine.handling \cup {b}
  <2>1. \/ engine' = [engine EXCEPT !.proposing = m, !.handling = c]
        \/ engine' = [engine EXCEPT !.proposing = m]
    BY <1>3
  <2>2. m \in Nat /\ c \subseteq Blocks
    BY <1>1, <1>2, <1>4 DEF Loose
  <2> HIDE DEF m, c
  <2>3. engine' \in Loose /\ Same(engine, engine') /\ engine'.proposing = m
    BY <1>1, <2>1, <2>2 DEF Loose, Same
  <2> QED
    BY <2>3 DEF m
<1>6. InBounds(engine')
  BY <1>1, <1>5, SyncAssumption DEF InBounds, Same
<1>7. failures' \in 0..MaxFailures
  BY SyncAssumption DEF BlockProposed, ProposalFails, countVars, IInv, TypeOK
<1>8. UNCHANGED <<phase, connected, head, stopped, sync, timeouts, messages>>
  BY DEF BlockProposed, ProposalFails, bootVars, countVars
<1>9. TypeOK'
  BY <1>5, <1>6, <1>7, <1>8, LooseInBounds DEF IInv, TypeOK
<1> QED
  BY <1>1, <1>5, <1>8, <1>9, SameOnward, OnwardOrderly DEF IInv, Orderly

\* Peers that come and go touch nothing of the engine.
LEMMA PeersInv ==
  ASSUME IInv, PeerConnects \/ PeerLeaves
  PROVE  IInv'
<1>1. UNCHANGED <<phase, head, stopped, engine, sync, timeouts, messages>>
  BY DEF PeerConnects, PeerLeaves, countVars
<1>2. connected' \subseteq Peers /\ failures' \in 0..MaxFailures
  BY SyncAssumption DEF PeerConnects, PeerLeaves, countVars, IInv, TypeOK
<1> QED
  BY <1>1, <1>2
     DEF IInv, TypeOK, StoppedBySync, CommitStep, NeverAsleep, Settled, Awake,
         Returning, Stalled

\* A round 0 started for the height after the engine's.
LEMMA StartZero ==
  ASSUME NEW e \in Loose, InBounds(e), head \in Heights
  PROVE  LET f == startRound(e, e.height + 1, 0)
         IN  f \in Engine /\ InBounds(f) /\ f.starting[e.height + 1] > 0
<1> DEFINE f == startRound(e, e.height + 1, 0)
<1>1. 0 \in Nat /\ e.height + 1 \in 1..(MaxHeight + 1)
  BY NextHeight
<1>2. /\ f \in Loose /\ f.round = e.round /\ f.starting[e.height + 1] > 0
      /\ f.proposing = e.proposing
  BY <1>1, StartFacts
<1> HIDE DEF f
<1> QED
  BY <1>2, LooseInBounds DEF InBounds, f

\* consensus.start() does so before the synchronisation is due.
LEMMA StartInv ==
  ASSUME IInv, start
  PROVE  IInv'
<1> DEFINE e == [engine EXCEPT !.height = head]
<1>1. engine \in Loose /\ head \in Heights /\ InBounds(engine)
  BY EngineLoose DEF IInv, TypeOK
<1>2. e \in Loose /\ InBounds(e) /\ e.height = head
  BY <1>1 DEF Loose, InBounds
<1>3. engine' = startRound(e, e.height + 1, 0)
  BY <1>2 DEF start
<1> HIDE DEF e
<1>4. engine' \in Engine /\ InBounds(engine')
  BY <1>1, <1>2, <1>3, StartZero
<1>5. sync' = [sync EXCEPT !.at = "due"] /\ sync \in Syncs
  BY DEF start, IInv, TypeOK
<1>6. sync' \in Syncs /\ sync'.at = "due"
  BY <1>5 DEF Syncs, SyncSteps
<1>7. ~stopped
  BY DEF start, IInv, StoppedBySync
<1>8. phase' = "running" /\ UNCHANGED <<connected, head, stopped, timeouts, messages, failures>>
  BY DEF start, countVars
<1>9. TypeOK'
  BY <1>4, <1>6, <1>8 DEF IInv, TypeOK
<1> QED
  BY <1>6, <1>7, <1>8, <1>9, NotSettled

\* A peer less to ask.
LEMMA AskedType ==
  ASSUME NEW s \in Syncs, NEW p \in Peers
  PROVE  Asked(s, p) \in Syncs /\ Asked(s, p).at \in {"status", "resume", "fetch"}
<1> DEFINE t == [s EXCEPT !.left = @ \ {p}]
<1>1. t \in Syncs
  BY DEF Syncs
<1>2. Asked(s, p) = [t EXCEPT !.at = IF t.left # {} THEN "status"
                       ELSE IF t.max <= engine.height THEN "resume" ELSE "fetch"]
  BY DEF Asked
<1> HIDE DEF t
<1> QED
  BY <1>1, <1>2 DEF Syncs, SyncSteps

\* The steps of the synchronisation before its end.
LEMMA SyncInv ==
  ASSUME IInv,
         \/ SyncStarts \/ StatusAnswered \/ StatusFails \/ ResumesEarly
         \/ BlocksAsked \/ BlocksAnswered \/ BlocksFail
  PROVE  IInv'
<1>1. /\ engine \in Engine /\ engine \in Loose /\ head \in Heights /\ InBounds(engine)
      /\ sync \in Syncs /\ connected \subseteq Peers
      /\ engine.height \in Heights /\ engine.height + 1 \in 0..(MaxHeight + 1)
  BY EngineLoose, Counters, SyncAssumption, SMTT(30) DEF IInv, TypeOK, Loose, Heights
<1>2. UNCHANGED <<phase, connected, timeouts, messages, failures>>
  BY DEF SyncStarts, StatusAnswered, StatusFails, ResumesEarly, BlocksAsked,
         BlocksAnswered, BlocksServed, BlocksFail, bootVars, countVars
<1>3. phase # "waiting"
  BY DEF SyncStarts, StatusAnswered, StatusFails, ResumesEarly, BlocksAsked,
         BlocksAnswered, BlocksServed, BlocksFail, IInv, StoppedBySync
<1>4. /\ sync' \in Syncs /\ sync'.at \notin {"off", "due", "over"}
      /\ head' \in Heights /\ stopped' \in BOOLEAN
      /\ engine' \in Engine /\ InBounds(engine')
  <2>1. CASE SyncStarts
    BY <1>1, <2>1 DEF SyncStarts, Syncs, SyncSteps
  <2>2. CASE StatusAnswered
    <3>1. PICK p \in sync.left \cap connected, g \in Heights :
            sync' = Asked(IF g > sync.max THEN [sync EXCEPT !.max = g, !.best = p]
                          ELSE sync, p)
      BY <2>2 DEF StatusAnswered
    <3>2. (IF g > sync.max THEN [sync EXCEPT !.max = g, !.best = p] ELSE sync) \in Syncs
      BY <1>1 DEF Syncs
    <3>3. sync' \in Syncs /\ sync'.at \in {"status", "resume", "fetch"}
      BY <1>1, <3>1, <3>2, AskedType
    <3> QED
      BY <1>1, <2>2, <3>3 DEF StatusAnswered, IInv, TypeOK
  <2>3. CASE StatusFails
    <3>1. PICK p \in sync.left : sync' = Asked(sync, p)
      BY <2>3 DEF StatusFails
    <3>2. p \in Peers
      BY <1>1 DEF Syncs
    <3> QED
      BY <1>1, <2>3, <3>1, <3>2, AskedType DEF StatusFails, IInv, TypeOK
  <2>4. CASE ResumesEarly
    BY <1>1, <2>4, StartZero DEF ResumesEarly, Syncs, SyncSteps
  <2>5. CASE BlocksAsked
    BY <1>1, <2>5 DEF BlocksAsked, Syncs, SyncSteps, IInv, TypeOK
  <2>6. CASE BlocksAnswered
    <3>1. ~Verifies
      BY DEF Verifies, AddressBytes
    <3>2. /\ sync' = [sync EXCEPT !.at = "ending"]
          /\ UNCHANGED <<head, engine, stopped>>
      BY <2>6, <3>1 DEF BlocksAnswered, BlocksServed
    <3> QED
      BY <1>1, <3>2 DEF Syncs, SyncSteps, IInv, TypeOK
  <2>7. CASE BlocksFail
    BY <1>1, <2>7 DEF BlocksFail, Syncs, SyncSteps, IInv, TypeOK
  <2> QED
    BY <2>1, <2>2, <2>3, <2>4, <2>5, <2>6, <2>7
<1>5. TypeOK'
  BY <1>2, <1>4 DEF IInv, TypeOK
<1> QED
  BY <1>2, <1>3, <1>4, <1>5, NotSettled

\* The finally block wakes the engine.
LEMMA SyncEndsInv ==
  ASSUME IInv, SyncEnds
  PROVE  IInv'
<1>1. engine \in Loose /\ head \in Heights /\ InBounds(engine) /\ sync \in Syncs
  BY EngineLoose DEF IInv, TypeOK
<1>2. engine' \in Engine /\ InBounds(engine') /\ engine'.starting[engine.height + 1] > 0
  BY <1>1, StartZero DEF SyncEnds
<1>3. engine.height + 1 \in 1..(MaxHeight + 1)
  BY <1>1, NextHeight
<1>4. sync' \in Syncs /\ stopped' = FALSE
  BY <1>1 DEF SyncEnds, Syncs, SyncSteps
<1>5. phase' = phase /\ phase # "waiting"
  BY DEF SyncEnds, bootVars, IInv, StoppedBySync
<1>6. TypeOK'
  BY <1>2, <1>4 DEF SyncEnds, IInv, TypeOK, bootVars, countVars
<1> QED
  BY <1>2, <1>3, <1>4, <1>5, <1>6
     DEF IInv, StoppedBySync, CommitStep, NeverAsleep, Awake

\* A step of the engine keeps the invariant.
LEMMA EngineInv ==
  ASSUME IInv, EngineStep
  PROVE  IInv'
BY RoundStartsInv, TimeoutInv, TimerLostInv, QuorumSeenInv, BlockArrivesInv,
   BlockHandledInv, VoteLandsInv, VoteFailsInv, ProposalInv DEF EngineStep

\* Every step keeps the invariant.
LEMMA NextInv ==
  ASSUME IInv, [Next]_vars
  PROVE  IInv'
<1>1. CASE SyncStep
  BY <1>1, SyncInv, SyncEndsInv DEF SyncStep
<1>2. CASE EngineStep \/ PeerConnects \/ PeerLeaves \/ start
  BY <1>2, EngineInv, PeersInv, StartInv
<1>3. CASE UNCHANGED vars
  BY <1>3 DEF vars, bootVars, countVars, IInv, TypeOK, StoppedBySync, CommitStep,
     NeverAsleep, Settled, Awake, Returning, Stalled
<1> QED
  BY <1>1, <1>2, <1>3 DEF Next

\* A sleeping engine is stalled.
LEMMA StallCauseHolds ==
  ASSUME IInv
  PROVE  StallCause
<1> SUFFICES ASSUME Idle PROVE Stalled(engine)
  BY DEF StallCause, Stalled
<1>1. ~Awake(engine) /\ ~Returning
  BY Counters, EngineLoose DEF Idle, Awake, Returning, IInv, TypeOK
<1> QED
  BY <1>1 DEF IInv, NeverAsleep, Idle, Settled

-----------------------------------------------------------------------------
(* Steps.                                                                  *)

\* The round does not fall back within a height.
Forward(e, f) == f.height = e.height => f.round >= e.round

\* Onward(), and anything that keeps the round, is forward.
LEMMA ForwardFacts ==
  ASSUME NEW e \in Loose, NEW f
  PROVE  /\ Onward(e, f) => Forward(e, f)
         /\ f.round = e.round => Forward(e, f)
BY Counters DEF Onward, Forward

\* A vote that lands moves the round forward.
LEMMA VoteLandsForward ==
  ASSUME IInv, VoteLands
  PROVE  Forward(engine, engine') /\ (head' # head => head' = head + 1 /\ engine.pending # {})
<1>1. engine \in Loose /\ head \in Heights
  BY EngineLoose DEF IInv, TypeOK
<1>2. PICK s \in engine.sent :
        LET current == s.height > engine.height
            gone == [engine EXCEPT !.sent = @ \ {s}]
            own  == [gone EXCEPT !.voted = IF current THEN @ \cup {<<s.round, s.type>>} ELSE @]
            twice == s.type = "PRECOMMIT" /\ s.then # "PRECOMMIT"
        IN  \/ Engine_(Resume(own, s.then)) /\ UNCHANGED head
            \/ LET q == PrevoteQuorum(own, s.round, s.then)
               IN  Engine_(IF q.sent = own.sent THEN Resume(q, s.then) ELSE q) /\ UNCHANGED head
            \/ LET q == NilQuorum(own, s.round)
               IN  Engine_(Resume(IF twice THEN NilQuorum(q, s.round) ELSE q, s.then))
                     /\ UNCHANGED head
            \/ /\ CanCommit(own, s.round)
               /\ Engine_(Resume(BlockQuorum(own, s.round), s.then))
               /\ head' = head + 1
  BY DEF VoteLands
<1> DEFINE own == [[engine EXCEPT !.sent = @ \ {s}]
                     EXCEPT !.voted = IF s.height > engine.height
                                      THEN @ \cup {<<s.round, s.type>>} ELSE @]
<1>3. s.round \in Rounds /\ s.type \in VoteTypes /\ s.then \in VoteTypes \cup {Proposal, None}
  BY <1>1 DEF Loose, Sent
<1>4. /\ own \in Loose /\ own.round = engine.round /\ own.height = engine.height
      /\ own.pending = engine.pending
  <2> DEFINE gone == [engine EXCEPT !.sent = @ \ {s}]
             more == IF s.height > engine.height
                     THEN gone.voted \cup {<<s.round, s.type>>} ELSE gone.voted
  <2>1. /\ gone \in Loose /\ gone.round = engine.round /\ gone.height = engine.height
        /\ gone.pending = engine.pending
    BY <1>1 DEF Loose
  <2>2. <<s.round, s.type>> \in Rounds \X VoteTypes
    BY <1>3
  <2>3. more \subseteq Rounds \X VoteTypes
    BY <2>1, <2>2 DEF Loose
  <2>4. own = [gone EXCEPT !.voted = more]
    OBVIOUS
  <2> HIDE DEF gone, more, own
  <2> QED
    BY <2>1, <2>3, <2>4 DEF Loose
<1> DEFINE p == PrevoteQuorum(own, s.round, s.then)
           q == NilQuorum(own, s.round)
           qq == NilQuorum(q, s.round)
           c == BlockQuorum(own, s.round)
<1>5. Onward(own, p) /\ p \in Loose
  <2> HIDE DEF own
  <2> QED
    BY <1>1, <1>3, <1>4, PrevoteOnward DEF Onward
<1>6. Onward(own, q) /\ q \in Loose /\ Onward(own, qq) /\ qq \in Loose
  <2> HIDE DEF own
  <2>1. Onward(own, q) /\ q.height = own.height /\ q \in Loose
    BY <1>1, <1>3, <1>4, NilOnward DEF Onward
  <2> HIDE DEF q
  <2>2. Onward(q, qq) /\ qq \in Loose
    BY <1>1, <1>3, <2>1, NilOnward DEF Onward
  <2> HIDE DEF qq
  <2> QED
    BY <1>4, <2>1, <2>2, OnwardTwice
<1>7. CanCommit(own, s.round) => Onward(own, c) /\ c \in Loose
  <2> HIDE DEF own
  <2> QED
    BY <1>1, <1>3, <1>4, BlockOnward DEF Onward
<1>8. \/ Engine_(Resume(own, s.then)) /\ UNCHANGED head
      \/ Engine_(IF p.sent = own.sent THEN Resume(p, s.then) ELSE p) /\ UNCHANGED head
      \/ \E b \in BOOLEAN : Engine_(Resume(IF b THEN qq ELSE q, s.then)) /\ UNCHANGED head
      \/ CanCommit(own, s.round) /\ Engine_(Resume(c, s.then)) /\ head' = head + 1
  <2>1. \A b : b \in BOOLEAN <=> (b = TRUE \/ b = FALSE)
    OBVIOUS
  <2> QED
    BY <1>2, <2>1
<1> HIDE DEF own, p, q, qq, c
<1>9. /\ \E f \in Loose :
           /\ f = own \/ Onward(own, f)
           /\ engine' = f \/ engine' = Resume(f, s.then)
      /\ head' # head => head' = head + 1 /\ CanCommit(own, s.round)
  <2>1. CASE Engine_(Resume(own, s.then)) /\ UNCHANGED head
    BY <1>4, <2>1 DEF Engine_
  <2>2. CASE Engine_(IF p.sent = own.sent THEN Resume(p, s.then) ELSE p) /\ UNCHANGED head
    BY <1>5, <2>2 DEF Engine_
  <2>3. CASE \E b \in BOOLEAN : Engine_(Resume(IF b THEN qq ELSE q, s.then)) /\ UNCHANGED head
    BY <1>6, <2>3 DEF Engine_
  <2>4. CASE CanCommit(own, s.round) /\ Engine_(Resume(c, s.then)) /\ head' = head + 1
    BY <1>7, <2>4 DEF Engine_
  <2> QED
    BY <1>8, <2>1, <2>2, <2>3, <2>4
<1>10. PICK f \in Loose :
         /\ f = own \/ Onward(own, f)
         /\ engine' = f \/ engine' = Resume(f, s.then)
  BY <1>9
<1>11. Forward(engine, f)
  <2>1. CASE f = own
    BY <1>1, <1>4, <2>1, ForwardFacts
  <2>2. CASE Onward(own, f)
    <3>1. Forward(own, f)
      BY <1>4, <2>2, ForwardFacts
    <3> QED
      BY <1>4, <3>1 DEF Forward
  <2> QED
    BY <1>10, <2>1, <2>2
<1>12. Resume(f, s.then).round = f.round /\ Resume(f, s.then).height = f.height
  BY <1>10 DEF Resume, Loose
<1>13. Forward(engine, engine')
  BY <1>10, <1>11, <1>12 DEF Forward
<1>14. CanCommit(own, s.round) => engine.pending # {}
  BY <1>4 DEF CanCommit
<1> QED
  BY <1>9, <1>13, <1>14

\* A quorum of others moves the round forward.
LEMMA QuorumSeenForward ==
  ASSUME IInv, QuorumSeen
  PROVE  Forward(engine, engine') /\ (head' # head => head' = head + 1 /\ engine.pending # {})
<1>1. engine \in Loose /\ head \in Heights
  BY EngineLoose DEF IInv, TypeOK
<1>2. PICK r \in Rounds :
        \/ engine' = PrevoteQuorum(engine, r, None) /\ UNCHANGED head
        \/ engine' = NilQuorum(engine, r) /\ UNCHANGED head
        \/ /\ CanCommit(engine, r)
           /\ engine' = BlockQuorum(engine, r)
           /\ head' = head + 1
  BY DEF QuorumSeen, Engine_
<1>3. Onward(engine, engine')
  BY <1>1, <1>2, PrevoteOnward, NilOnward, BlockOnward
<1> QED
  BY <1>1, <1>2, <1>3, ForwardFacts DEF CanCommit

\* A timer moves the round forward.
LEMMA TimeoutForward ==
  ASSUME IInv, handleTimeout
  PROVE  Forward(engine, engine') /\ UNCHANGED head
<1> DEFINE e == [engine EXCEPT !.timer = FALSE]
<1>1. engine \in Loose /\ head \in Heights
  BY EngineLoose DEF IInv, TypeOK
<1>2. e \in Loose /\ e.round = engine.round /\ e.height = engine.height
  BY <1>1 DEF Loose
<1>3. \/ engine' = e
      \/ \E v : engine' = [e EXCEPT !.sent = @ \cup {v}]
      \/ engine' = NextRound(e)
  BY DEF handleTimeout, Engine_
<1> HIDE DEF e
<1>4. Onward(e, NextRound(e))
  BY <1>1, <1>2, NextRoundOnward
<1>5. engine'.round = e.round \/ Forward(e, engine')
  BY <1>2, <1>3, <1>4, ForwardFacts DEF Loose
<1>6. Forward(e, engine')
  BY <1>2, <1>5, ForwardFacts
<1>7. UNCHANGED head
  BY DEF handleTimeout, bootVars
<1> QED
  BY <1>2, <1>6, <1>7 DEF Forward

\* The steps that keep the round and the head.
LEMMA RoundKept ==
  ASSUME IInv,
         \/ SyncStep \/ TimerLost \/ VoteFails \/ BlockArrives \/ BlockHandled
         \/ BlockProposed \/ ProposalFails \/ PeerConnects \/ PeerLeaves \/ start
         \/ UNCHANGED vars
  PROVE  engine'.round = engine.round /\ UNCHANGED head
<1>1. engine \in Loose /\ head \in Heights /\ InBounds(engine)
  BY EngineLoose DEF IInv, TypeOK
<1>2. ASSUME NEW e \in Loose, e.round = engine.round
      PROVE  startRound(e, e.height + 1, 0).round = engine.round
  BY <1>1, <1>2, NextHeight, StartFacts
<1>3. CASE SyncStep
  <2>1. ~Verifies
    BY DEF Verifies, AddressBytes
  <2>2. UNCHANGED head /\ (engine' = engine \/ engine' = startRound(engine, engine.height + 1, 0))
    BY <1>3, <2>1
       DEF SyncStep, SyncStarts, StatusAnswered, StatusFails, ResumesEarly, BlocksAsked,
           BlocksAnswered, BlocksServed, BlocksFail, SyncEnds
  <2> QED
    BY <1>1, <1>2, <2>2
<1>4. CASE start
  <2> DEFINE e == [engine EXCEPT !.height = head]
  <2>1. e \in Loose /\ e.round = engine.round /\ e.height = head
    BY <1>1 DEF Loose
  <2>2. engine' = startRound(e, e.height + 1, 0) /\ UNCHANGED head
    BY <1>4, <2>1 DEF start
  <2> HIDE DEF e
  <2> QED
    BY <1>2, <2>1, <2>2
<1>5. CASE BlockHandled
  <2>1. PICK b \in engine.handling :
          LET done  == [engine EXCEPT !.handling = @ \ {b}]
              kept  == [done EXCEPT !.pending = @ \cup {b}]
          IN  \/ engine' = done
              \/ engine' = kept
              \/ \E v : engine' = [kept EXCEPT !.step = "PREVOTE", !.timer = TRUE,
                              !.sent = @ \cup {v}]
    BY <1>5 DEF BlockHandled
  <2> DEFINE done == [engine EXCEPT !.handling = @ \ {b}]
             kept == [done EXCEPT !.pending = @ \cup {b}]
  <2>2. done.round = engine.round /\ kept.round = engine.round
          /\ \A v : [kept EXCEPT !.step = "PREVOTE", !.timer = TRUE,
                      !.sent = @ \cup {v}].round = engine.round
    BY <1>1 DEF Loose
  <2> QED
    BY <1>5, <2>1, <2>2 DEF BlockHandled, bootVars
<1>6. CASE TimerLost \/ VoteFails \/ BlockArrives \/ BlockProposed \/ ProposalFails
  BY <1>1, <1>6
     DEF TimerLost, VoteFails, BlockArrives, BlockProposed, ProposalFails, Loose
<1>7. CASE PeerConnects \/ PeerLeaves \/ UNCHANGED vars
  BY <1>7 DEF PeerConnects, PeerLeaves, vars
<1> QED
  BY <1>3, <1>4, <1>5, <1>6, <1>7

\* What a step may do to the head.
HeadStep == head' # head => head' = head + 1 /\ engine.pending # {}

\* What a step may do to the round.
RoundStep ==
  engine'.height = engine.height /\ engine'.round < engine.round
    => engine'.round = 0
       /\ \E h \in 1..(MaxHeight + 1) : engine'.starting[h] < engine.starting[h]

\* Every step keeps to both.
LEMMA StepsForward ==
  ASSUME IInv, IInv', [Next]_vars
  PROVE  HeadStep /\ RoundStep
<1>1. engine \in Loose /\ engine' \in Loose /\ head \in Heights
  BY EngineLoose DEF IInv, TypeOK
<1>2. engine.round \in Nat /\ engine'.round \in Nat
  BY <1>1, Counters
<1>3. CASE \E h \in 1..(MaxHeight + 1) : RoundStarts(h)
  <2>1. PICK h \in 1..(MaxHeight + 1) : RoundStarts(h)
    BY <1>3
  <2> DEFINE g == [engine EXCEPT !.starting[h] = @ - 1]
  <2>2. g \in Loose /\ g.starting[h] = engine.starting[h] - 1
    <3> DEFINE D == 1..(MaxHeight + 1)
               s == engine.starting
    <3>1. s \in [D -> Nat] /\ h \in D /\ s[h] > 0
      BY <1>1, <2>1 DEF Loose, RoundStarts
    <3> HIDE DEF D, s
    <3>2. [s EXCEPT ![h] = @ - 1] \in [D -> Nat] /\ [s EXCEPT ![h] = @ - 1][h] = s[h] - 1
      BY <3>1
    <3> QED
      BY <1>1, <3>2 DEF Loose, D, s
  <2>3. engine' = EnterRound(g, h, 0) /\ UNCHANGED head
    BY <2>1 DEF RoundStarts, Engine_
  <2> HIDE DEF g
  <2>4. engine'.round = 0 /\ engine'.starting = g.starting
    BY <1>1, <2>2, <2>3, EnterFacts
  <2>5. engine'.starting[h] < engine.starting[h]
    <3>1. engine.starting[h] \in Nat
      BY <1>1, Counters
    <3> QED
      BY <2>2, <2>4, <3>1
  <2> QED
    BY <2>3, <2>4, <2>5 DEF HeadStep, RoundStep
<1>4. CASE VoteLands \/ QuorumSeen \/ handleTimeout
  BY <1>2, <1>4, VoteLandsForward, QuorumSeenForward, TimeoutForward
     DEF HeadStep, RoundStep, Forward
<1>5. CASE \/ SyncStep \/ TimerLost \/ VoteFails \/ BlockArrives \/ BlockHandled
           \/ BlockProposed \/ ProposalFails \/ PeerConnects \/ PeerLeaves \/ start
           \/ UNCHANGED vars
  BY <1>2, <1>5, RoundKept DEF HeadStep, RoundStep
<1> QED
  BY <1>3, <1>4, <1>5 DEF Next, EngineStep

-----------------------------------------------------------------------------
(* Theorems.                                                               *)

\* The invariant of ChainSync, for every instance.
LEMMA InvHolds == Spec => []IInv
<1>1. Init => IInv
  BY InitInv
<1>2. IInv /\ [Next]_vars => IInv'
  BY NextInv
<1> QED
  BY <1>1, <1>2, PTL DEF Spec

\* The variables of the boot, of the synchronisation and of the engine keep
\* their types and the bounds (start() to stop() of bft.ts, main() of index.ts).
THEOREM SyncTypeCorrect == Spec => []TypeOK
<1>1. IInv => TypeOK
  BY DEF IInv
<1> QED
  BY <1>1, InvHolds, PTL

\* A validator that has synced sleeps behind its own vote or not at all: the only
\* way in which bft.ts loses its timer for good.
THEOREM StallsOnlyBehindItsVote == Spec => []StallCause
<1>1. IInv => StallCause
  BY StallCauseHolds
<1> QED
  BY <1>1, InvHolds, PTL

\* The head of a running node moves by one block, which the node had executed
\* itself before the quorum.
HeadExecuted ==
  [][head' # head => head' = head + 1 /\ engine.pending # {}]_vars

\* Whatever the peers serve, syncBlockchain() adds no block: every head comes from
\* the rounds (bft.ts:247-249 with core/block.ts:95-103).  A run shows that this
\* contradicts what the repository's README says of sync.
THEOREM HeadIsExecuted == Spec => HeadExecuted
<1>1. IInv /\ IInv' /\ [Next]_vars
        => [head' # head => head' = head + 1 /\ engine.pending # {}]_vars
  BY StepsForward DEF HeadStep
<1> QED
  BY <1>1, InvHolds, PTL DEF Spec, HeadExecuted

\* A round falls back only to 0, and only when a startRound() that awaited its
\* validators goes on.
THEOREM RoundsOnlyAdvance == Spec => RoundsAdvance
<1>1. IInv /\ IInv' /\ [Next]_vars
        => [engine'.height = engine.height /\ engine'.round < engine.round
              => engine'.round = 0
                 /\ \E h \in 1..(MaxHeight + 1) :
                      engine'.starting[h] < engine.starting[h]]_vars
  BY StepsForward DEF RoundStep
<1> QED
  BY <1>1, InvHolds, PTL DEF Spec, RoundsAdvance

=============================================================================
