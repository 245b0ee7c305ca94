SPECIFICATION Spec
CONSTANTS
  Co = {0, 1, 2}
  Second = 1
  Fd = {4, 5}
  Ops <- StreamAndListener
  FaultyFd = {4}
  SharedFd = {5}
  kInitEventListSize = 1
  Timeouts = {0}
  PollSlack = 1
  MaxTime = 0
  MaxCondition = 1
  IntKeys = 1
  DuplicateUse = FALSE
  HandClose = FALSE
INVARIANTS
  WatchInv
  ResumesSuspended
  WakeIsGenuine
  NoAbort
PROPERTY SlotReleasedByOwner
