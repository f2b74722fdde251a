SPECIFICATION Spec
CONSTANTS
  None = None
  m = m
  o1 = o1
  o2 = o2
  o3 = o3
  Objects = {m, o1, o2}
  Masters = {m}
  MaxActions = 2
  MaxUsers = 1
  MaxCalls = 1
  RoomsShadow = FALSE
  MasterMeddles = FALSE
INVARIANTS DestructReturns
SYMMETRY MCSymmetry
CHECK_DEADLOCK FALSE
