SPECIFICATION Spec
CONSTANTS
  Co = {0, 1}
  Second = 3
  Fd = {4, 5}
  Ops <- Streams
  FaultyFd = {}
  SharedFd = {}
  kInitEventListSize = 1
  Timeouts = {0, 2, 4}
  PollSlack = 1
  MaxTime = 5
  MaxCondition = 0
  IntKeys = 1
  DuplicateUse = TRUE
  HandClose = TRUE
INVARIANT TimeoutInv
\* The process aborts when epoll_ctl fails.
CHECK_DEADLOCK FALSE
