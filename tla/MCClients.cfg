SPECIFICATION FairSpec
CONSTANTS
  None = None
  a = a
  b = b
  s1 = s1
  s2 = s2
  Addresses = {a, b}
  Sessions = {s1, s2}
  TxIds = {1, 2}
  OnChain = {b}
  AtRelay = {a, b}
  LowerOf <- MCLowerOf
  Passwords <- MCPasswords
  MaxMined <- MCMaxMined
INVARIANTS
  ShownOnce
  HistorySinceLogin
  TransfersCovered
PROPERTIES
  MessageIsShown
CHECK_DEADLOCK FALSE
