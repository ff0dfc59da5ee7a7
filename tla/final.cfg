SPECIFICATION Spec
CONSTANTS
  n1 = n1
  p2 = p2
  p3 = p3
  d4 = d4
  o4 = o4
  Nil = Nil
  Nodes = {n1}
  Peers = {p2}
  ValidatorList <- DuoList
  TxBatches = {"t1"}
  Misplaced = {}
  MaxHeight = 1
  MaxRound = 1
  PeerRounds = {0, 1}
  MaxTimeouts = 2
  MaxFailures = 0
INVARIANTS
  CommittedIsFinal
CHECK_DEADLOCK FALSE
