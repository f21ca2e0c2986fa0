CONSTANTS
  Shells = {s}
  Files = {f, g}
  Edits = {e}
  MaxSessions = 2
SPECIFICATION Spec
CHECK_DEADLOCK FALSE
SYMMETRY CallSymmetry
INVARIANTS TypeOK OpsAreFreshIfAlone OneSessionIfAlone EditEvicts
PROPERTIES KeepsLease
