\* Two processes, two writes, a fault: failed steps, a crash, the backstop.
CONSTANTS
  p = p
  q = q
  Processes = {p, q}
  NoOne = NoOne
  NoKey = NoKey
  MaxWrites = 2
  Home <- MCHome
  Changes <- MCChanges
  FullKeys = {"rate_limits"}
  HeldBy <- MCHeldBy
  Batch = 2
  MaxFaults = 1
  LostLocks = FALSE
SPECIFICATION FairSpec
INVARIANTS TypeOK ReturnedIsPublished NothingForgotten
PROPERTIES PublicMovesForward EveryChangePublished
