CONSTANTS
  Calls = {a, b, c}
  MaxIds = 3
SPECIFICATION Spec
SYMMETRY CallSymmetry
CHECK_DEADLOCK FALSE
INVARIANTS TypeOK ActiveIsOpen  
