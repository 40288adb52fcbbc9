SPECIFICATION SellSpec
CONSTANTS
  w1 = w1
  w2 = w2
  m1 = m1
  x1 = x1
  Wallets = {w1, w2}
  Nonces = {0}
  Default = Default
  NoData = NoData
  Zeroed = Zeroed
  NoTransaction = NoTransaction
  Bytes <- NoBytes
  TOTAL_SHARES = 4
  MAX_RECIPIENTS = 1
  MAX_NAME_LEN = 0
  Distributions <- SellDistributions
  Names <- SellNames
  NewAdmins <- SellAdmins
  MinShares = {4}
  Amounts = {2}
  RentSplitter = 5
  RentWallet = 1
  RentConfig = 3
  InitialLamports <- SellLamports
  Mints = {m1}
  SwapPrograms = {x1}
  MAX_WHITELIST = 1
  MAX_APPROVED_PROGRAMS = 1
  Whitelists <- SellWhitelists
  Approvals <- SellApprovals
PROPERTY LocksOutliveTransactions
