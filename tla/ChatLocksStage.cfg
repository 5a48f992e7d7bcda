\* The isolated chat also writes while its Stage builds.
CONSTANTS
  i = i
  d1 = d1
  d2 = d2
  Isolated <- MCIsolated
  Drafting <- MCDrafting
  Draft = Draft
  NoOne = NoOne
  NoStage = NoStage
  MaxChanges = 3
  EditsDuringBuild = TRUE
  ReleaseRaces = FALSE
SYMMETRY MCSymmetry
SPECIFICATION Spec
INVARIANTS StageKeepsChanges
CHECK_DEADLOCK FALSE
