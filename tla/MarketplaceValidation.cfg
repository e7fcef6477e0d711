SPECIFICATION FairSpec
CONSTANTS
  Resumer = {r1, r2}
  MaxFaults = 2
INVARIANT TypeOK
INVARIANT PassedReportIsEarned
INVARIANT PassedPhaseWasResolved
INVARIANT DeferredIsResumable
PROPERTY DeferredIsSettled
CHECK_DEADLOCK FALSE
