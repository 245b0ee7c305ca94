SPECIFICATION Spec
CONSTANTS
  Transfers <- Frame126
  MaskKeys <- Key
  kMaxLength = 130
  kFrameSize = 1446
  ReadSizes = {1, 5}
  MaxMessages = 1
  MaxInFlight = 2
CHECK_DEADLOCK FALSE
INVARIANTS
  FramesFollowLayout
