SPECIFICATION Spec
CONSTANTS
  Co = {0, 1}
  Second = 1
  Fd = {4}
  Ops <- OneStream
  FaultyFd = {}
  SharedFd = {}
  kInitEventListSize = 1
  Timeouts = {0}
  PollSlack = 1
  MaxTime = 0
  MaxCondition = 0
  IntKeys = 1
  DuplicateUse = TRUE
  HandClose = FALSE
PROPERTIES
  SlotReleasedByOwner
