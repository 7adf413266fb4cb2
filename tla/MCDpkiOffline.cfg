CONSTANTS
  w1 = w1  w2 = w2
  k1 = k1  k2 = k2
  t1 = t1  t2 = t2
  None = None
  Wallets <- MCOneWallet
  Keys <- MCKeys
  Holds <- MCHoldsBoth
  Threads <- MCTwoThreads
  MaxTransactions = 2
  HomeNonce = 0
  MaxResets = 0
  MaxLost = 1
  OfflineModes <- MCUi
  RsaFiles <- MCNoFile
  NodeStates <- MCAlwaysUp
  Requests <- MCGoodRequests
SPECIFICATION Spec
CHECK_DEADLOCK FALSE
SYMMETRY MCSymmetry
INVARIANTS
  OfflineOnlyWhenChainDead
