CONSTANTS
  ClientKind = "qbittorrent"
  Guids = {g1}
  Jobs = {g1}
  NoJob = NoJob
  Manual = {m1}
  Scheduler = {a1}
  Matchers = {}
  ListComplete = {TRUE}
  ImportModes = {"library"}
  SlowImports = FALSE
  RetryLimit = 1
  SkipLimit = 1
  MaxGrabs = 2
  MaxAsks = 0
  MaxCrashes = 0
  MaxCopies = 1
  Requests = {}
SPECIFICATION Spec
PROPERTY NoHotAutoRegrab
