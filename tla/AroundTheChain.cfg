SPECIFICATION Spec
CONSTANTS
  v = v
  d = d
  e = e
  g = g
  h = h
  zg = zg
  Accounts = {v, d, e}
  Initial <- Coins
  Validator = v
  Delegators = {d, e}
  MinDelegation = 2
  Scale = 2
  MaxCommission = 5000
  Commissions = {5000}
  CommissionDelay = 1
  UnbondingPeriod = 1
  Amounts = {1, 2, 3}
  Rewards = {1, 4}
  MaxValue = 8
  MaxNow = 1
  MaxRewards = 2
  MaxSettlements = 3
  Voters = {d}
  ProposalFee = 1
  MinQuorum = 1
  MaxProposals = 2
  Gifts = {1}
  MaxOperations = 5
  Holders = {g, h}
  Names = {g, zg, h}
  PaddedTo <- Spelled
  Proposals = {1}
  Balances <- Weights
  RequiredStake = 2
  MinimumQuorum = 2
  TimelockDelay = 1
  Durations = {1}
  MaxTime = 2
  MaxCreated = 2
  MaxCrashes = 1
  Window = 2
  Deposits = {1}
  MaxHeight = 3
  MaxFailures = 2
  MaxStops = 2
INVARIANTS
  EscrowCovers
  RewardsWithinRounding
  LockedCoinsReturn
  BallotsCountedOnce
  RecordedIsIndexed
  MintedAgainOnlyIfForgotten
CHECK_DEADLOCK FALSE
