SPECIFICATION QueueFairSpec
CONSTANTS
  Co = {0, 1, 2, 3}
  Second = 1
  Fd = {}
  Ops <- NoOps
  FaultyFd = {}
  SharedFd = {}
  kInitEventListSize = 1
  Timeouts = {0}
  PollSlack = 1
  MaxTime = 0
  MaxCondition = 2
  IntKeys = 1
  DuplicateUse = FALSE
  HandClose = FALSE
  Queue = {q1, q2}
  NoQueue = NoQueue
  MaxElements = 2
INVARIANTS
  QueueTypeOK
  NoLostWakeup
  ConditionInv
PROPERTIES
  ConsumerIsServed
  NotifiedIsResumed
