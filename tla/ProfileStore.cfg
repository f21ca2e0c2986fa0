CONSTANTS
  Calls = {a, b, c}
  First = First
  None = None
SPECIFICATION Spec
SYMMETRY CallSymmetry
CHECK_DEADLOCK FALSE
INVARIANTS TypeOK CredentialKept StoresAgreeIfAlone ConnectsWithItsSecret
