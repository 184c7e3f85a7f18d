SPECIFICATION Spec
CONSTANTS
  n1 = n1
  n2 = n2
  n3 = n3
  n4 = n4
  o1 = o1
  o2 = o2
  Nodes = {n1, o1}
  Peered = {n1, n2}
  ValidatorList <- One
  FirstCommitRound = 4
  SequenceCap = 100
  CheckpointPeriod = 4
  PrunePeriod = 1
  PruneAfter = 3
  PruneBuffer = 1
  DowntimePeriod = 1
  DowntimeThreshold = 2
  MaxRound = 6
  MaxCopies = 2
  MaxCrashes = 2
  VdfSeed <- MCVdfSeed
INVARIANTS
  SignsOnceBeforeCheckpoint
  ExecutedOnce
  AccusedSignedTwice
CHECK_DEADLOCK FALSE
