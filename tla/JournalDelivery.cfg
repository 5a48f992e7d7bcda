\* Two instances, two transactions, pages of one row, and a fault: a lost
\* notification, a crash, a failed step, a lapsed claim or a skipped drain.
CONSTANTS
  MaxXid = 2
  NoSnapshot = NoSnapshot
  Instances = {a, b}
  NoOne = NoOne
  Departed = Departed
  Limit = 1
  MaxBatches = 2
  MaxFaults = 1
  LateRebuilds = FALSE
SPECIFICATION FairSpec
INVARIANTS TypeOK ContinuousIsComplete
PROPERTIES DeliversAtLeastOnce EveryChangeApplied
CHECK_DEADLOCK FALSE
