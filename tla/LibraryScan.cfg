CONSTANTS
  Requesters = {r1, r2}
  Cron = Cron
  MaxScans = 4
  MaxPanics = 1
  MaxBoots = 2
SPECIFICATION FairSpec
CHECK_DEADLOCK FALSE
INVARIANTS GateIsHeld PromiseIsHeld KnownByItsId DrainedIsQuiet
PROPERTIES ImplementsScanRequests RequestIsServed
