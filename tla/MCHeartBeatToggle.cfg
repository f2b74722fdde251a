SPECIFICATION Spec
CONSTANTS
  NoObject = NoObject
  Objects = {cat, dog, owl}
  Beatless = {owl}
  Synch = {TRUE, FALSE}
  MayDisable = TRUE
  StartTime = 1
  MaxTime = 5
  Interval = 2
  ClockSteps <- MCClockSteps
INVARIANTS TypeOK ListIsConsistent
PROPERTIES BeatSpacing
