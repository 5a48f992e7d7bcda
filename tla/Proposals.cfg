\* Three Approves of one proposal that fail and die anywhere.
CONSTANTS
  Attempts = {a1, a2, a3}
  NoOne = NoOne
  Stalls = FALSE
  SlowAttempts = FALSE
  LostAnswers = FALSE
SPECIFICATION FairSpec
INVARIANTS TypeOK PublishedOnce DecisionNamesRelease
PROPERTIES ClaimEnds
CHECK_DEADLOCK FALSE
