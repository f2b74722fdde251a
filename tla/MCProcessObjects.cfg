SPECIFICATION FairSpec
CONSTANTS
  None = None
  m = m
  a = a
  b = b
  Objects = {m, a, b}
  Master = m
  Watched = a
  MaxRefs = 1
  MaxLoads = 3
INVARIANTS TypeOK
PROPERTIES NobodyTwice DueIsReset DestructedAreFreed
CHECK_DEADLOCK FALSE
