SPECIFICATION HistorySpec
CONSTANTS
  w1 = w1
  w2 = w2
  Wallets = {w1, w2}
  Nonces = {0}
  Default = Default
  NoData = NoData
  Bytes <- NoBytes
  TOTAL_SHARES = 4
  MAX_RECIPIENTS = 3
  MAX_NAME_LEN = 0
  Distributions <- HistoryDistributions
  Names <- HistoryNames
  NewAdmins <- OnlyDefault
  MinShares = {2}
  Amounts = {1, 2}
  RentSplitter = 3
  RentWallet = 1
  InitialLamports <- HistoryLamports
  MaxCranks = 2
INVARIANTS NobodyFallsBehind NobodyRunsAhead FloorRateKept EventsTell
CHECK_DEADLOCK FALSE
