SPECIFICATION Spec
CONSTANTS
  Nullifier = {n1, n2, n3, n4}
  MaxSize = 2
  TimeoutMs = 2
SYMMETRY Symmetry
INVARIANT TypeOK
INVARIANT NeverOverblocks
INVARIANT ForgetsOnlyUnderPressure
