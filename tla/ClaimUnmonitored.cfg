CONSTANTS
  Releases = {"pdf", "m4b", "eb"}
  FormatOf <- MCFormatOf
  Named <- MCNamed
  Costly = {"eb"}
  Pinned = {"m4b"}
  MaxPokes = 2
SPECIFICATION MCSpec
CHECK_DEADLOCK FALSE
PROPERTY UnmonitoredNeverGrabbed
