CONSTANTS
  Writers = {w1, w2}
  Jobs = {j1}
  NoJob = NoJob
  RetryLimit = 1
  MaxGrabs = 2
  MaxRetry = 2
SYMMETRY Perms
SPECIFICATION Spec
INVARIANT DeadStampAccurate
PROPERTY ImplementsDownloadRow
