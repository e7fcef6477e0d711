SPECIFICATION FairSpec
CONSTANTS
  Nullifier = {n1, n2}
  MaxSize = 1
  TimeoutMs = 2
  Call = {c1, c2}
  NoCall = NoCall
  CacheModes = {TRUE}
  PreflightModes = {TRUE, FALSE}
PROPERTY StaleMarkStopsBlocking
