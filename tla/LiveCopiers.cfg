\* A Publish live, a redirect sync and a CDN purge, the copiers within their claims.
CONSTANTS
  TTL = 2
  NoOne = NoOne
  Promotes = {p1}
  Rollbacks = {}
  PluginBuilds = {}
  Syncs = {s1}
  Purges = {c1}
  ChecksLive = TRUE
  LateCopies = FALSE
SPECIFICATION Spec
INVARIANTS TypeOK OneWriter ReleaserOwnsLease NoSpuriousStop
PROPERTIES CopyKeepsPublish
CHECK_DEADLOCK FALSE
