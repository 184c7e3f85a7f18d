SPECIFICATION FairSpec
CONSTANTS
  p = p
  q = q
  f = f
  Nodes = {p, f}
  PeersOf <- OnePeer
  Crashing = {p, f}
  BatchLimit = 1
  Batches <- OnlyP
  MaxHeight = 2
  MaxCrashes = 1
PROPERTIES
  CatchesUp
CHECK_DEADLOCK FALSE
