SPECIFICATION Spec
CONSTANTS
  w1 = w1
  w2 = w2
  Wallets = {w1, w2}
  Nonces = {0}
  Default = Default
  NoData = NoData
  Bytes <- MCBytes
  TOTAL_SHARES = 4
  MAX_RECIPIENTS = 3
  MAX_NAME_LEN = 2
  Distributions <- ConfigDistributions
  Names <- ConfigNames
  NewAdmins <- AllAddresses
  MinShares <- ConfigMinShares
  Amounts = {}
  RentSplitter = 2
  RentWallet = 1
  InitialLamports <- ConfigLamports
INVARIANTS SharesTotal LocksHonoured NamePadded
PROPERTIES RevocationIsFinal LocksPersist KeepsAgreement
CHECK_DEADLOCK FALSE
