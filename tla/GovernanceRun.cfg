SPECIFICATION GovSpec
CONSTANTS
  N = 2
  World <- MCWorld
  Wallets <- MCWallets
  FeeBuffer = 1
  VotingPeriod = 1
  ExecutionDelay = 1
  RivalFee = 4
  MaxOthers = 18
  MaxClock = 3
INVARIANT GovTypeOK
INVARIANT PlanCheapest
INVARIANT PlanReachesQuorum
INVARIANT LeftBehindWarned
INVARIANT ReportsAreTrue
PROPERTY DeferredSettles
CHECK_DEADLOCK FALSE
