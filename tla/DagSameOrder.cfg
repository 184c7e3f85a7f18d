SPECIFICATION ReplaySpec
CONSTANTS
  n1 = n1
  n2 = n2
  n3 = n3
  n4 = n4
  o1 = o1
  o2 = o2
  Nodes = {o1, o2}
  Peered = {n1, n2}
  ValidatorList <- Four
  FirstCommitRound = 4
  SequenceCap = 100
  CheckpointPeriod = 100
  PrunePeriod = 10
  PruneAfter = 50
  PruneBuffer = 10
  DowntimePeriod = 10
  DowntimeThreshold = 100
  MaxRound = 4
  MaxCopies = 1
  MaxCrashes = 0
  VdfSeed <- MCVdfSeed
INVARIANTS
  SameOrder
CHECK_DEADLOCK FALSE
