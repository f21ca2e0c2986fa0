CONSTANTS
  Groups = {g, h, i}
  Profiles = {p}
  Calls = {a, b}
  Depth = 2
  Root = Root
  Unborn = Unborn
  Gone = Gone
SPECIFICATION Spec
SYMMETRY TreeSymmetry
CHECK_DEADLOCK FALSE
INVARIANTS TypeOK ForestIfAlone StoreAgreesIfAlone
