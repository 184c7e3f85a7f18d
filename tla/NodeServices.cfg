SPECIFICATION Spec
CONSTANTS
  n1 = n1
  n2 = n2
  n3 = n3
  k1 = k1
  k2 = k2
  Readers = {r}
  Workers = {w}
  Texts <- SomeTexts
  MAX_PENDING_TXS = 2
  MAX_SEEN_TXS = 2
  PayloadLimit = 1
  MaxArrivals = 5
  MaxRestarts = 1
  Nodes = {n1, n2, n3}
  PortOf <- Ports
  Boot <- DialsFirst
  Plain = {}
  MaxStops = 2
  Keepers = {k1, k2}
  Proposers = {k1}
  NumShards = 3
  DataShards = 2
  SampleSize = 2
  Nearest <- ByShard
  Replication = 2
  MaxBatches = 2
  MaxCrashes = 1
  Fetched = {0}
  Accounts = {n1, n2, n3}
  Federation = n1
  Founders = {n1}
  InitialWeight = 2
  Txs <- SomeTxs
  MaxExecuted = 3
  MaxSlashes = 2
  SessionKeys = {n1, n2, n3}
  Validators = {n1, n2, n3}
  Weight <- Stakes
  MaxProposals = 2
INVARIANTS
  WaitsOnlyForNetworkInfo
  TakenAgainOnlyIfForgotten
  ShardsAreCommitted
  PassedIsDecodable
  CountedAreStaked
  CommitsWhenComplete
PROPERTIES
  FindsBootnodes
CHECK_DEADLOCK FALSE
