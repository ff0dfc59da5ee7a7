SPECIFICATION Spec
CONSTANTS
  transfer = transfer
  payment = payment
  alice = alice
  bob = bob
  Txs <- MCTxs
  From <- MCFrom
  To <- MCTo
  Payloads <- MCPayloads
  Rounds = {0}
  MaxHeight = 2
  MaxCrashes = 2
  MaxFailed = 1
INVARIANTS
  TypeOK
  NoGaps
  NeverAhead
  HeadServed
  ReceiptsMissing
  ReceiptNamesBlock
PROPERTIES
  HeadGrows
CHECK_DEADLOCK FALSE
