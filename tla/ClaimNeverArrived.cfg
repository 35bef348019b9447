CONSTANTS
  ClientKind = "qbittorrent"
  Guids = {g1, g2}
  Jobs = {g1, g2}
  NoJob = NoJob
  Manual = {m1}
  Scheduler = {}
  Matchers = {}
  ListComplete = {TRUE}
  ImportModes = {"library"}
  SlowImports = TRUE
  RetryLimit = 1
  SkipLimit = 1
  MaxGrabs = 2
  MaxAsks = 0
  MaxCrashes = 0
  MaxCopies = 1
  Requests = {}
SPECIFICATION Spec
PROPERTY NeverArrivedIsAbsent
