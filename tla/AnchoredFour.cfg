SPECIFICATION Spec
CONSTANTS
  Validators = {v1, v2, v3, v4}
  MaxRound = 3
  MaxCopies = 1
  MaxTopVertices = 2
  MaxAnchors = 2
SYMMETRY Symmetry
CONSTRAINT Few
INVARIANTS
  DagInv
  AnchorVisible
CHECK_DEADLOCK FALSE
