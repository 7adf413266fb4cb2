CONSTANTS
  th1 = th1  th2 = th2
  tx1 = tx1  tx2 = tx2
  small = small  large = large
  None = None
  Threads <- MCThreads
  TxIds <- MCTxIds
  Payloads <- MCPayloads
  Size <- MCSize
  Addresses <- MCAddresses
  LowerOf <- MCLowerOf
  TTLs = {1, 2}
  MaxClock = 3
  MaxStaged = 3
  MaxRetrieved = 1
  RAM_EVENT_LOG_SIZE = 4
SPECIFICATION Spec
SYMMETRY MCSymmetry
INVARIANTS
  TypeOK
  BytesLedger
  EventLedger
  LogConsistent
  ExpiryCounter
PROPERTIES
  NoEarlyExpiry
  PassIsComplete
