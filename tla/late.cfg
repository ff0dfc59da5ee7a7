SPECIFICATION Spec
CONSTANTS
  n1 = n1
  p2 = p2
  p3 = p3
  d4 = d4
  o4 = o4
  Nil = Nil
  Nodes = {n1}
  Peers = {p2, p3, o4}
  ValidatorList <- OpenList
  TxBatches = {"t1", "misplaced"}
  Misplaced = {"misplaced"}
  MaxHeight = 1
  MaxRound = 1
  PeerRounds = {1}
  MaxTimeouts = 1
  MaxFailures = 0
INVARIANTS
  LockIsPending
  PrevoteHasBody
  OneDecision
  CommitCertified
  PrecommitJustified
PROPERTIES
  GrowsVerified
CHECK_DEADLOCK FALSE
