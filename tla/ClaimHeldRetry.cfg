CONSTANTS
  Parts = {"pair"}
  Drops = {"e1", "a1"}
  Fmt <- MCFmt
  NoDrop = "noDrop"
  MaxChanges = 1
  Files = {"epub", "mobi"}
  Rank <- MCRank
  MaxAttempts = 2
  MaxFaults = 1
  MaxOutages = 1
  MaxResets = 1
SPECIFICATION RetrySpec
CHECK_DEADLOCK FALSE
PROPERTY RetryReleasesHeld
