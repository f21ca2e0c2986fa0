CONSTANTS
  Editors = {e, f}
  MaxClock = 3
  MaxTexts = 2
  Junk = Junk
  Missing = Missing
  Free = Free
SPECIFICATION Spec
SYMMETRY EditorSymmetry
CHECK_DEADLOCK FALSE
INVARIANTS TypeOK NoFalseConflict
PROPERTIES NoSilentOverwrite
