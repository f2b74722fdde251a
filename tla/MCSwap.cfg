SPECIFICATION Spec
CONSTANTS
  o1 = o1
  o2 = o2
  Objects = {o1, o2}
  Values = {1, 2}
  VarLen <- MCVarLen
  ProgLen = 2
  None = None
  ReadFails = FALSE
  MaxFile = 4
  MaxLost = 1
INVARIANTS TypeOK ListIsTight FreeSpaceExact UsedAreHeld LinesAvailable
PROPERTIES Transparent
SYMMETRY ObjectSymmetry
CHECK_DEADLOCK FALSE
