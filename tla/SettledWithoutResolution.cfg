SPECIFICATION Spec
CONSTANTS
  Resumer = {r1, r2}
  MaxFaults = 2
INVARIANT PassedReportWasResolved
CHECK_DEADLOCK FALSE
