SPECIFICATION ScriptsSpec
CONSTANTS
  Process = {p1, p2}
  Operator = p1
  StakeCooldown = 2
  MinDelegationDuration = 2
  MaxWait = {0, 3}
  MaxClock = 3
  DriftMode = {"compat", "strict"}
  MaxAdrift = 1
INVARIANT ScriptsTypeOK
INVARIANT ReportHonest
INVARIANT LeftBehindExplained
INVARIANT VerdictIsRight
PROPERTY DeferredReleases
CHECK_DEADLOCK FALSE
