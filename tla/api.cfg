SPECIFICATION ApiSpec
CONSTANTS
  self = self
  peer = peer
  alice = alice
  system = system
  staking = staking
  j1 = j1
  c1 = c1
  c2 = c2
  Addresses <- MCAddresses
  System = system
  Staking = staking
  BaseGas = 1
  Reward = 7
  KeepPermille = 500
  Txs <- MCTxs
  Sent <- MCSent
  Payees = {alice}
  Amount = 1
  Clients = {c1, c2}
  MaxPool = 2
  Genesis <- MCGenesis
  Base <- MCBase
  Self = self
  Peer = peer
  Jobs = {j1}
  MaxHeight = 1
  MaxBatch = 0
  MaxPending = 1
  Contrary = {}
  MaxLost = 0
SYMMETRY ClientSymmetry
INVARIANTS
  ApiTypeOK
  AcceptedIsFound
  AnnouncedIsServed
  PagesMissNothing
CHECK_DEADLOCK FALSE
