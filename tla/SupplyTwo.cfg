SPECIFICATION Spec
CONSTANTS
  a1 = a1
  a2 = a2
  Accounts = {a1, a2}
  GenesisValidators <- OneValidator
  MinStake = 20
  MaxSupply = 60
  BaseReward = 8
  HalvingInterval = 2
  EpochSeconds = 60
  UnbondingPeriod = 60
  GracePeriod = 60
  SlashPercent = 5
  MaxEpoch = 3
  MaxRequests = 2
  GenesisReserve = 10
  Amounts = {10, 20}
  MaxCredited = 10
INVARIANTS
  TypeOK
  CoinsAccountedFor
  DueIsWithdrawable
  StakingInv
PROPERTIES
  LockedIsNotLost
CHECK_DEADLOCK FALSE
