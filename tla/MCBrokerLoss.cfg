CONSTANTS
  tx1 = tx1  tx2 = tx2
  small = small  large = large
  None = None
  TxIds <- MCTxIds
  Payloads <- MCOnePayload
  Size <- MCSize
  Addresses <- MCAddresses
  LowerOf <- MCLowerOf
  TTLs = {2}
  PURGE_INTERVAL_SECONDS = 1
  MAX_CLOCK_DRIFT = 1
  MaxClock = 4
  MaxExpiry = 3
  MaxStaged = 1
  MaxRetrieved = 1
  MaxRuns = 1
  RAM_EVENT_LOG_SIZE = 4
SPECIFICATION Spec
CHECK_DEADLOCK FALSE
PROPERTIES
  LossLeavesACopy
