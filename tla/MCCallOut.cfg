SPECIFICATION FairSpec
CONSTANTS
  player = player
  lwo = lwo
  wiz = wiz
  NoObject = NoObject
  NoCall = NoCall
  Objects = {player, lwo}
  LwObjects = {lwo}
  Livings = {player}
  Users = {wiz}
  Owner <- MCOwner
  ShadowEnd <- MCShadowEnd
  MaxCallouts = 3
  MaxEvalCost = 1
  Delays <- MCDelays
  StartTime = 1
  ClockSteps <- MCClockSteps
  MaxTime = 3
INVARIANTS TypeOK OnTimeExact EvalBudget
PROPERTIES NothingDueLeft FirstInFirstOut LoopEnds
CHECK_DEADLOCK FALSE
