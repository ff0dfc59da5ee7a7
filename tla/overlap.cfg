SPECIFICATION Spec
CONSTANTS
  self = self
  peer = peer
  alice = alice
  bob = bob
  system = system
  staking = staking
  j1 = j1
  j2 = j2
  Addresses <- MCAddresses
  System = system
  Staking = staking
  BaseGas = 1
  Reward = 7
  KeepPermille = 500
  Txs <- OnePayment
  MaxPool = 1
  Genesis <- MCGenesis
  Base <- MCBase
  Self = self
  Peer = peer
  Jobs = {j1, j2}
  MaxHeight = 1
  MaxBatch = 0
  MaxPending = 2
  Contrary = {}
  MaxLost = 0
INVARIANTS
  StateOfReceipts
CHECK_DEADLOCK FALSE
