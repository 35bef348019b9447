CONSTANTS
  ClientKind = "qbittorrent"
  Guids = {g1}
  Jobs = {g1}
  NoJob = NoJob
  Manual = {m1}
  Scheduler = {}
  Matchers = {}
  ListComplete = {TRUE}
  ImportModes = {"library"}
  SlowImports = FALSE
  RetryLimit = 2
  SkipLimit = 2
  MaxGrabs = 1
  MaxAsks = 0
  MaxCrashes = 1
  MaxCopies = 1
  Requests = {}
SPECIFICATION FairSpec
PROPERTY RequeuedIsPickedUp
