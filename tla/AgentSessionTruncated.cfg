CONSTANTS
  Requests = {}
  Reads = {r}
  Writes = {w}
  Shells = {s}
  NoOp = NoOp
  Chunks = 1
  MaxStreams = 2
SPECIFICATION Spec
CHECK_DEADLOCK FALSE
INVARIANTS ReadIsWhole
