CONSTANTS
  ClientKind = "usenet"
  Guids = {g1}
  Jobs = {1, 2}
  NoJob = NoJob
  Manual = {m1}
  Scheduler = {a1}
  Matchers = {}
  ListComplete = {FALSE}
  ImportModes = {"library"}
  SlowImports = FALSE
  RetryLimit = 1
  SkipLimit = 1
  MaxGrabs = 2
  MaxAsks = 0
  MaxCrashes = 0
  MaxCopies = 1
  Requests = {}
SPECIFICATION Spec
INVARIANT JobOfThisGrab
