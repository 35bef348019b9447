CONSTANTS
  ClientKind = "usenet"
  Guids = {g1}
  Jobs = {1, 2}
  NoJob = NoJob
  Manual = {m1}
  Scheduler = {}
  Matchers = {t1}
  ListComplete = {FALSE}
  ImportModes = {"library"}
  SlowImports = FALSE
  RetryLimit = 1
  SkipLimit = 1
  MaxGrabs = 2
  MaxAsks = 1
  MaxCrashes = 0
  MaxCopies = 1
  Requests = {"match"}
SPECIFICATION Spec
INVARIANT PathIsOfThisGrab
