SPECIFICATION TimerFairSpec
CONSTANTS
  Co = {0, 1}
  Second = 3
  Fd = {4, 5}
  Ops <- TimerAndStream
  FaultyFd = {}
  SharedFd = {}
  kInitEventListSize = 1
  Timeouts <- NoneOrSome
  PollSlack = 1
  MaxTime = 4
  MaxCondition = 0
  IntKeys = 1
  DuplicateUse = FALSE
  HandClose = FALSE
  TimerFd = 4
  Waits = {0, 1, 4}
PROPERTIES
  TimeoutIsGenuine
  PollReturns
  ReadyIsResumed
  TimedCallEnds
  SleeperWakes
  SleepsItsTime
