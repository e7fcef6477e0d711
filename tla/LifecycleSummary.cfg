SPECIFICATION Spec
CONSTANTS
  Worker = {w1, w2}
  Dispute = {d1, d2}
  Task = task
  MaxTime = 2
SYMMETRY Symmetry
INVARIANT TypeOK
INVARIANT EndedHasNoActiveDispute
INVARIANT DisputedShowsDispute
INVARIANT CompletedIsTimed
INVARIANT TimelineIsCausal
CHECK_DEADLOCK FALSE
