SPECIFICATION FairSpec
CONSTANTS
  a = a
  b = b
  c = c
  B = B
  Accounts = {a, b, c}
  Names <- MCNames
  AddressOf <- MCAddressOf
  ValidatorSet = ValidatorSet
  Txs <- MCTxs
  Blocks <- MCBlocks
  Federation = c
  Founders = {a, b}
  Rank <- MCRank
  InitialWeight = 2
  SlashesPerBlock = 1
  BurnPercent = 10
  GasCost = 10
  Rounds = {1, 2}
  MaxBlocks = 2
  MaxEvents = 3
  MaxCrashes = 1
INVARIANTS
  TypeOK
  EffectOnce
  EffectsStay
  FeesFromGas
  SlashedOnce
PROPERTIES
  QueueKept
  QueueDrains
