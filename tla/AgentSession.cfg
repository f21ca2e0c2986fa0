CONSTANTS
  Requests = {q}
  Reads = {r}
  Writes = {w}
  Shells = {s}
  NoOp = NoOp
  Chunks = 2
  MaxStreams = 2
SPECIFICATION Spec
CHECK_DEADLOCK FALSE
INVARIANTS TypeOK NoCrossTalk NoStaleRegistration OrderedPrefix AckedWriteIsWhole
