SPECIFICATION FairSpec
CONSTANTS
  n1 = n1
  p2 = p2
  p3 = p3
  d4 = d4
  o4 = o4
  Nil = Nil
  Nodes = {n1}
  Peers = {}
  ValidatorList <- SoloList
  TxBatches = {"t1", "t2"}
  Misplaced = {}
  MaxHeight = 1
  MaxRound = 4
  PeerRounds = {}
  MaxTimeouts = 1
  MaxFailures = 1
INVARIANTS
  TypeOK
  Exclusive
PROPERTIES
  DecidedCommits
  MutexReleased
CHECK_DEADLOCK FALSE
