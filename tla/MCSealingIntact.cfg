CONSTANTS
  None = None
  Inputs <- MCInputs
  Keys <- MCKeys
  IVs <- MCIVs
  Senders <- MCSenders
  Recipients <- MCRecipients
  FormOf <- MCFormOf
  XorByte <- Xored
  EncryptBlock <- encrypt_block
  DecryptBlock <- decrypt_block
  Arrivals <- MCArrivals
SPECIFICATION Spec
CHECK_DEADLOCK FALSE
INVARIANT VerifiedMeansIntact
