\* A rollback and a plugin-data build race for the live channel on a publisher that checks the live version.
CONSTANTS
  TTL = 2
  NoOne = NoOne
  Promotes = {}
  Rollbacks = {b1}
  PluginBuilds = {d1}
  Syncs = {}
  Purges = {}
  ChecksLive = TRUE
  LateCopies = FALSE
SPECIFICATION FairSpec
PROPERTIES RollbackRecordTruthful EverySettled PluginDataKeepsPublish
CHECK_DEADLOCK FALSE
