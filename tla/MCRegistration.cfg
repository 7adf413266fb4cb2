CONSTANTS
  w1 = w1  w2 = w2
  k1 = k1  k2 = k2
  t1 = t1  t2 = t2
  None = None
  Wallets <- MCTwoWallets
  Keys <- MCKeys
  Holds <- MCHoldsMixed
  Threads <- MCOneThread
  MaxTransactions = 3
  HomeNonce = 1
  MaxResets = 1
  MaxLost = 1
  OfflineModes <- MCOthers
  RsaFiles <- MCKeys
  NodeStates <- MCUpAndDown
  Requests = {}
  Material <- MCMaterial
  Copies <- MCCopies
  Cuts <- MCCuts
  Digest <- MCDigest
  Openings <- MCOpenings
SPECIFICATION Spec
CHECK_DEADLOCK FALSE
INVARIANTS
  KeysAreProven
  LogTellsHistory
  RegisteredIsOnChain
  KeyFilesAreRead
  ProofsAreChecked
