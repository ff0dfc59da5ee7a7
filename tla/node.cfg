SPECIFICATION Spec
CONSTANTS
  self = self
  peer = peer
  alice = alice
  bob = bob
  system = system
  staking = staking
  j1 = j1
  j2 = j2
  Addresses <- MCAddresses
  System = system
  Staking = staking
  BaseGas = 1
  Reward = 7
  KeepPermille = 500
  Txs <- Several
  MaxPool = 2
  Genesis <- MCGenesis
  Base <- MCBase
  Self = self
  Peer = peer
  Jobs = {j1}
  MaxHeight = 2
  MaxBatch = 1
  MaxPending = 1
  Contrary = {alice}
  MaxLost = 1
INVARIANTS
  TypeOK
  StateOfReceipts
  SupplyAccounted
  ExecutedAtMostTwice
  StakesCovered
  PendingExecutes
PROPERTIES
  ValidatorsFollowStakes
  DearerReplaces
CHECK_DEADLOCK FALSE
