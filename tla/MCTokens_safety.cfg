SPECIFICATION FairTokenSpec
CONSTANTS
  w1 = w1
  w2 = w2
  m1 = m1
  Wallets = {w1, w2}
  Nonces = {0}
  Default = Default
  NoData = NoData
  Bytes <- NoBytes
  TOTAL_SHARES = 4
  MAX_RECIPIENTS = 3
  MAX_NAME_LEN = 0
  Distributions <- TokenDistributions
  Names <- TokenNames
  NewAdmins = {}
  MinShares = {1, 2}
  Amounts = {}
  RentSplitter = 3
  RentWallet = 2
  InitialLamports <- TokenLamports
  Mints = {m1}
  ExtendedMints = {}
  TokenAmounts = {1, 3}
  InitialTokens <- HolderTokens
INVARIANTS TokenTypeOK  TokenCrankAvailable
PROPERTIES TokenDustBounded CurrentCrankPays RevokedStaysCurrent QuietTokensDrain
CHECK_DEADLOCK FALSE
