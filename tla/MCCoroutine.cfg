SPECIFICATION Spec
CONSTANTS
  DEFAULT_COROUTINE = 2
  STACK_SIZE = 2
  Locals = {0, 1}
  MaxCap = 4
INVARIANTS
  CountIsLive
  SearchFindsSlot
  FramesAreIsolated
  SavedImageFits
PROPERTY ImplementsSched
\* A schedule that coroutine_close has freed has no further step.
CHECK_DEADLOCK FALSE
