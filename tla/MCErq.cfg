SPECIFICATION Spec
CONSTANTS
  None = None
  o1 = o1
  o2 = o2
  spawn = spawn
  lookup = lookup
  auth = auth
  user = user
  Requests <- MCRequests
  Objects <- MCObjects
  Owner <- MCOwner
  Spawns <- MCSpawns
  Users <- MCUsers
  MaxPendingErq = 2
  MaxStarts = 1
  MaxWire = 2
  RestartAnywhere = FALSE
  DestructAnyone = FALSE
INVARIANTS TypeOK HandlesArePartitioned AnswersReachTheirAsker
SYMMETRY MCSymmetry
CHECK_DEADLOCK FALSE
