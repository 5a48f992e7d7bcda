\* Three Stages that fail, die and stall anywhere; one may lose the lease too early.
CONSTANTS
  TTL = 1
  NoOne = NoOne
  Stages = {s1, s2, s3}
  Absent = Absent
  MaxOverruns = 1
  page = page
  style = style
  v1 = v1
  v2 = v2
  Files <- MCFiles
  Contents <- MCContents
  Builds <- MCBuilds
SYMMETRY StageSymmetry
SPECIFICATION Spec
INVARIANTS TypeOK ManifestTruthful ServedIsWhole
PROPERTIES StageFlips
CHECK_DEADLOCK FALSE
