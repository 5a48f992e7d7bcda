\* Both targets behind one change log, two syncs, saves and a publish.
CONSTANTS
  Targets = {staging, production}
  Syncs = {s1, s2}
  NoOne = NoOne
  Publisher = Publisher
  MaxChanges = 2
  MaxPublishes = 1
  MaxCrashes = 0
  MaxRounds = 1
  LatePushes = FALSE
  LostRecords = FALSE
SYMMETRY SyncSymmetry
SPECIFICATION Spec
INVARIANTS TypeOK InSyncIsExact NewChangeNeverBacksOff
PROPERTIES TableMovesForward
CHECK_DEADLOCK FALSE
