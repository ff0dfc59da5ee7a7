SPECIFICATION Spec
CONSTANTS
  transfer = transfer
  payment = payment
  alice = alice
  bob = bob
  Txs <- MCTxs
  From <- MCFrom
  To <- MCTo
  Payloads <- OnePayload
  Rounds = {0}
  MaxHeight = 2
  MaxCrashes = 1
  MaxFailed = 0
INVARIANTS
  StateOfHead
CHECK_DEADLOCK FALSE
