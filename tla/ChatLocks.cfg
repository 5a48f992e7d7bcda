\* An isolated chat and two chats on the shared draft, three writes.
CONSTANTS
  i = i
  d1 = d1
  d2 = d2
  Isolated <- MCIsolated
  Drafting <- MCDrafting
  Draft = Draft
  NoOne = NoOne
  NoStage = NoStage
  MaxChanges = 3
  EditsDuringBuild = FALSE
  ReleaseRaces = FALSE
SYMMETRY MCSymmetry
VIEW MCView
SPECIFICATION Spec
INVARIANTS TypeOK OneBranch StageKeepsChanges
PROPERTIES BlindOnlyByOverlap
CHECK_DEADLOCK FALSE
