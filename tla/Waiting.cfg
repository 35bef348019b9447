CONSTANTS
  Parts = {"pair", "calibre"}
  Drops = {"e1", "a1"}
  Fmt <- MCFmt
  NoDrop = "noDrop"
  MaxChanges = 1
  Files = {"epub", "mobi"}
  Rank <- MCRank
  MaxAttempts = 2
  MaxFaults = 1
  MaxOutages = 1
  MaxResets = 1
SPECIFICATION WaitingSpec
CHECK_DEADLOCK FALSE
INVARIANTS
  WaitingHasAttemptsLeft
PROPERTIES
  DropsAloneOnlyLate
  HeldIsReleased
  QueueDrains
  HeldFormatsFollow
