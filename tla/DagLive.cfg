SPECIFICATION FairSpec
CONSTANTS
  n1 = n1
  n2 = n2
  n3 = n3
  n4 = n4
  o1 = o1
  o2 = o2
  Nodes = {n1, n2}
  Peered = {n1, n2}
  ValidatorList <- Two
  FirstCommitRound = 3
  SequenceCap = 100
  CheckpointPeriod = 100
  PrunePeriod = 10
  PruneAfter = 50
  PruneBuffer = 10
  DowntimePeriod = 10
  DowntimeThreshold = 100
  MaxRound = 3
  MaxCopies = 2
  MaxCrashes = 1
  VdfSeed <- MCVdfSeed
PROPERTIES
  RoundsAdvance
  ImplementsPromise
CHECK_DEADLOCK FALSE
