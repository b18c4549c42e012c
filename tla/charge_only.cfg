SPECIFICATION FairSpec
CONSTANTS
  Animation = 1
  Hold = 2
  Bright = 3
  Dim = 4
  MaxLate = 1
  MaxKeys = 3
  MaxQueue = 2
  Fails = {"poweroff", "restart"}
INVARIANT TypeOK
INVARIANT DisplayCycle
INVARIANT LongPress
PROPERTY UnplugNoticed
PROPERTY ScreenGoesDark
CHECK_DEADLOCK FALSE
