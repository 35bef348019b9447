CONSTANTS
  ClientKind = "qbittorrent"
  Guids = {g1}
  Jobs = {g1}
  NoJob = NoJob
  Manual = {m1}
  Scheduler = {}
  Matchers = {}
  ListComplete = {TRUE, FALSE}
  ImportModes = {"library", "external"}
  SlowImports = FALSE
  RetryLimit = 2
  SkipLimit = 2
  MaxGrabs = 1
  MaxAsks = 1
  MaxCrashes = 1
  MaxCopies = 1
  Requests = {"retry", "match", "remove", "delete book"}
SPECIFICATION FairSpec
INVARIANTS TypeOK DeadStampAccurate RetryBudget
PROPERTY FailedImportSettles
