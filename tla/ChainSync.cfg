SPECIFICATION Spec
CONSTANTS
  p = p
  q = q
  f = f
  Nodes = {p, f}
  PeersOf <- OnePeer
  Crashing = {p, f}
  BatchLimit = 1
  Batches <- FewerBatches
  MaxHeight = 3
  MaxCrashes = 1
INVARIANTS
  TypeOK
  NoGaps
  ApartKeepsChain
  StateIsOfChain
CHECK_DEADLOCK FALSE
