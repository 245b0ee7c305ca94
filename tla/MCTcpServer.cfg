SPECIFICATION FairSpec
CONSTANTS
  NumSlaves = {0, 1, 3}
  MaxProcess = 4
  MaxFail = 4
  MaxDeath = 4
  MaxNoChild = 6
INVARIANTS
  CountIsKept
  SlavesLimited
PROPERTY SlavesAreReplaced
