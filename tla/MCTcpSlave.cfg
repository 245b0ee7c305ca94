SPECIFICATION SlaveFairSpec
CONSTANTS
  Co = {0, 1, 2, 3}
  Second = 1
  Fd = {3, 4, 5, 6}
  Ops <- ProxyOps
  FaultyFd = {}
  SharedFd = {3}
  kInitEventListSize = 4
  Timeouts <- NoneAndOne
  PollSlack = 1
  MaxTime = 1
  MaxCondition = 0
  IntKeys = 1
  DuplicateUse = TRUE
  HandClose = TRUE
  Listeners = {3}
  kTimeoutMs = 1
INVARIANTS
  RulesKept
  DescriptorsOwned
PROPERTY AcceptedIsHandled
\* The process may exit(1).
CHECK_DEADLOCK FALSE
