\* Three publishes, two requests at a time, two dropped connections.
CONSTANTS
  Readers = {r1, r2}
  NoValue = NoValue
  MaxPublishes = 3
  MaxDrops = 2
SPECIFICATION FairSpec
INVARIANTS TypeOK CacheFresh
PROPERTIES StaleIsDropped
CHECK_DEADLOCK FALSE
