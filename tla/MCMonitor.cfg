CONSTANTS
  b1 = b1  b2 = b2
  tx1 = tx1  tx2 = tx2
  package = package
  None = None
  Brokers <- MCBrokers
  TxIds <- MCTxIds
  Payloads <- MCPayloads
  Size <- MCSize
  Addresses <- MCAddresses
  LowerOf <- MCLowerOf
  Environments <- MCEnvironments
  TTLs = {1}
  UsedMemory = {5}
  Window = 1
  MaxClock = 1
  MaxCount <- MCMaxCount
  MaxCalls = 5
  RAM_EVENT_LOG_SIZE = 3
SPECIFICATION Spec
SYMMETRY MCSymmetry
CHECK_DEADLOCK FALSE
INVARIANTS
  BurntStaysBurnt
  InboxIsFair
  DrawingAddsUp
PROPERTIES
  FreezesOffline
