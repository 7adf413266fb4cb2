CONSTANTS
  tx1 = tx1  tx2 = tx2
  small = small  large = large
  None = None
  TxIds <- MCTxIds
  Payloads <- MCOnePayload
  Size <- MCSize
  Addresses <- MCAddresses
  LowerOf <- MCLowerOf
  TTLs = {1, 2}
  PURGE_INTERVAL_SECONDS = 1
  MAX_CLOCK_DRIFT = 1
  MaxClock = 3
  MaxExpiry = 2
  MaxStaged = 2
  MaxRetrieved = 1
  MaxRuns = 2
  RAM_EVENT_LOG_SIZE = 3
SPECIFICATION FairSpec
CHECK_DEADLOCK FALSE
INVARIANTS
  TypeOK
  RamAccounted
  StopLeavesNothing
  ServedOnlyToRecipient
  InboxMatchesRetrieve
PROPERTIES
  NoServeAfterBurn
  ImplementsMailbox
  EveryPayloadLeaves
