CONSTANTS
  ClientKind = "torrent"
  Guids = {g1}
  Jobs = {g1}
  NoJob = NoJob
  Manual = {m1}
  Scheduler = {}
  Matchers = {t1}
  ListComplete = {TRUE}
  ImportModes = {"library"}
  SlowImports = TRUE
  RetryLimit = 1
  SkipLimit = 1
  MaxGrabs = 2
  MaxAsks = 1
  MaxCrashes = 0
  MaxCopies = 2
  Requests = {"match"}
SPECIFICATION Spec
INVARIANTS ImportedIsFiled NoOrphanedImport
PROPERTY RowsImplementDownloadRow
