CONSTANTS
  MaxWindows = 2
  MaxLayouts = 2
  MaxCmds = 3
  MaxMoves = 1
SPECIFICATION RdpFairSpec
CHECK_DEADLOCK FALSE
INVARIANTS RdpTypeOK 
PROPERTIES ClosedTabEndsClient
