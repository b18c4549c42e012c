SPECIFICATION Spec
CONSTANTS
  Animation = 1
  Hold = 2
  Bright = 3
  Dim = 4
  MaxLate = 1
  MaxKeys = 3
  MaxQueue = 2
  Fails = {}
INVARIANT ShutdownAtOnce
CHECK_DEADLOCK FALSE
