SPECIFICATION FairSpec
CONSTANTS
  w1 = w1
  w2 = w2
  Wallets = {w1, w2}
  Nonces = {0}
  Default = Default
  NoData = NoData
  Bytes <- MCBytes
  TOTAL_SHARES = 4
  MAX_RECIPIENTS = 3
  MAX_NAME_LEN = 0
  Distributions <- SolDistributions
  Names <- SolNames
  NewAdmins <- OnlyDefault
  MinShares = {2}
  Amounts = {1, 3, 5}
  RentSplitter = 3
  RentWallet = 2
  InitialLamports <- SolLamports
INVARIANTS TypeOK RentPreserved SupplyConserved CrankAvailable
PROPERTIES DustBounded LockedRecipientPaid EarlyDepositStrands QuietSplitterDrains
CHECK_DEADLOCK FALSE
