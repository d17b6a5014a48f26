\* One stream between its two ends, and at the server alone.
CONSTANTS
  Fragments = 2
  Capacity = 2
  Tasks = {t1, t2}
  SessionMayEnd = TRUE
  MaxStreams = 2
  MaxDials = 2
  PairTasks = {t1}
  PairStreams = 1
  PairDials = 1
SPECIFICATION MCSpec
INVARIANTS EveryConnectionHasOwner SuccessIsTrue
 
CHECK_DEADLOCK FALSE
