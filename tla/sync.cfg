SPECIFICATION FairSpec
CONSTANTS
  Peers = {p1}
  Index = 1
  SyncLimit = 1
  Stored = {0, 1}
  MaxHeight = 1
  MaxRound = 2
  MaxTimeouts = 1
  MaxMessages = 1
  MaxFailures = 1
  MaxProposals = 1
  p1 = p1
INVARIANTS
  TypeOK
  StallCause
PROPERTIES
  RoundsAdvance
  SyncResumes
CHECK_DEADLOCK FALSE
