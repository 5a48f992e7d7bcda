\* Several rounds, a publish and a crash: every saved change goes live in the end.
CONSTANTS
  Targets = {t1}
  Syncs = {s1, s2}
  NoOne = NoOne
  Publisher = Publisher
  MaxChanges = 1
  MaxPublishes = 1
  MaxCrashes = 1
  MaxRounds = 2
  LatePushes = FALSE
  LostRecords = FALSE
SPECIFICATION FairSpec
INVARIANTS InSyncIsExact
PROPERTIES EventuallyServed
CHECK_DEADLOCK FALSE
