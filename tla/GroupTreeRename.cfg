CONSTANTS
  Groups = {g, h, i}
  Profiles = {p}
  Calls = {a, b}
  Depth = 3
  Root = Root
  Unborn = Unborn
  Gone = Gone
SPECIFICATION Spec
CHECK_DEADLOCK FALSE
PROPERTIES RenameKeepsPlace
