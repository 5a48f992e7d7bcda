\* The reads of the draft's chats and what they count as seen.
CONSTANTS
  i = i
  d1 = d1
  d2 = d2
  Isolated <- MCIsolated
  Drafting <- MCDrafting
  Draft = Draft
  NoOne = NoOne
  NoStage = NoStage
  MaxChanges = 3
  EditsDuringBuild = FALSE
  ReleaseRaces = FALSE
SYMMETRY MCSymmetry
SPECIFICATION Spec
PROPERTIES NoBlindWrite
CHECK_DEADLOCK FALSE
