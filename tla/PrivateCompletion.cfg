SPECIFICATION Spec
CONSTANTS
  Nullifier = {n1, n2}
  MaxSize = 1
  TimeoutMs = 1
  Call = {c1, c2, c3}
  NoCall = NoCall
  CacheModes = {TRUE, FALSE}
  PreflightModes = {TRUE, FALSE}
SYMMETRY Symmetry
INVARIANT TypeOK
INVARIANT UnbreachedExclusion
INVARIANT UnbreachedSuccessRemembered
INVARIANT ConfirmedWasSpent
INVARIANT NoOrphanedMark
PROPERTY ImplementsOutcome
