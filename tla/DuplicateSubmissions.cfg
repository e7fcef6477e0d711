SPECIFICATION Spec
CONSTANTS
  Nullifier = {n1}
  MaxSize = 2
  TimeoutMs = 1
  Call = {c1, c2}
  NoCall = NoCall
  CacheModes = {TRUE}
  PreflightModes = {TRUE, FALSE}
INVARIANT NoConcurrentDuplicates
