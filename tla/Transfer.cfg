CONSTANTS
  Transfers = {t, u}
  Files = 2
  Versions = 2
SPECIFICATION Spec
SYMMETRY TransferSymmetry
CHECK_DEADLOCK FALSE
INVARIANTS TypeOK ResumedIsExact LogIsTrue
PROPERTIES RetryKeepsProgress
