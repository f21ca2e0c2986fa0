CONSTANTS
  Requests = {}
  Reads = {r}
  Writes = {w}
  Shells = {s}
  NoOp = NoOp
  Chunks = 1
  MaxStreams = 2
SPECIFICATION FairSpec
CHECK_DEADLOCK FALSE
PROPERTIES CallReturns LossEndsReads ClosedShellEnds
