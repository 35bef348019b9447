CONSTANTS
  ClientKind = "torrent"
  Guids = {g1}
  Jobs = {g1}
  NoJob = NoJob
  Manual = {m1}
  Scheduler = {}
  Matchers = {t1}
  ListComplete = {TRUE}
  ImportModes = {"library"}
  SlowImports = FALSE
  RetryLimit = 2
  SkipLimit = 2
  MaxGrabs = 1
  MaxAsks = 1
  MaxCrashes = 0
  MaxCopies = 2
  Requests = {"match"}
SPECIFICATION Spec
INVARIANT NoDoubleImport
