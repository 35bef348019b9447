CONSTANTS
  Items = {"x", "y", "z"}
  Actors = {"p", "q"}
  Tokens = {"t1", "t2", "t3", "t4"}
  MaxPending = 2
  MaxEvents = 0
SPECIFICATION RequestSpec
CHECK_DEADLOCK FALSE
INVARIANT AutoApprovedWithinQuota
