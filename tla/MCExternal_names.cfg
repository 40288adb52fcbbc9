SPECIFICATION ExternalSpec
CONSTANTS
  w1 = w1
  x1 = x1
  junk = junk
  kept = kept
  wsol = wsol
  Wallets = {w1}
  Nonces = {0}
  Default = Default
  NoData = NoData
  Zeroed = Zeroed
  NoTransaction = NoTransaction
  Bytes <- NoBytes
  TOTAL_SHARES = 4
  MAX_RECIPIENTS = 1
  MAX_NAME_LEN = 0
  Distributions = {}
  Names <- ExternalNames
  NewAdmins = {}
  MinShares = {}
  Amounts = {}
  RentSplitter = 2
  RentWallet = 1
  RentConfig = 2
  RentToken = 1
  MaxUses = 1
  InitialLamports <- ExternalLamports
  Mints = {junk, kept, wsol}
  NativeMints = {wsol}
  DelegateOf <- JunkDelegated
  SwapPrograms = {x1}
  SNS_PROGRAM_ID = SNS_PROGRAM_ID
  SNS_NAME_OFFERS_ID = SNS_NAME_OFFERS_ID
  MAX_WHITELIST = 2
  MAX_APPROVED_PROGRAMS = 1
  Whitelists <- ExternalWhitelists
  Approvals <- ExternalApprovals
  InitialTokens <- ExternalTokens
INVARIANT OnlyNameService
