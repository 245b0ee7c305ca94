SPECIFICATION Spec
CONSTANTS
  Co = {0, 1}
  Second = 2
  Fd = {4}
  Ops <- OneStream
  FaultyFd = {}
  SharedFd = {}
  kInitEventListSize = 1
  Timeouts = {0, 1}
  PollSlack = 1
  MaxTime = 4
  MaxCondition = 0
  IntKeys = 1
  DuplicateUse = FALSE
  HandClose = TRUE
INVARIANTS
  NoAbort
