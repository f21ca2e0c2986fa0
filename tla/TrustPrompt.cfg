CONSTANTS
  Checks = {a, b}
  Hosts = {h, i}
  Prints = {p, q}
  NoPrint = NoPrint
  NoCheck = NoCheck
  Clicks = {x, y}
SPECIFICATION FairSpec
CHECK_DEADLOCK FALSE
INVARIANTS TypeOK OnlyApproved NoAnswerLost
PROPERTIES ChangeIsWarned AnswerEndsCheck
