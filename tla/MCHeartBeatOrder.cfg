SPECIFICATION FairSpec
CONSTANTS
  NoObject = NoObject
  Objects = {cat, dog, rat}
  Beatless = {}
  Synch = {FALSE}
  MayDisable = FALSE
  StartTime = 1
  MaxTime = 4
  Interval = 2
  ClockSteps <- MCClockSteps
INVARIANTS VisitsOldestFirst
PROPERTIES NoneDueLeft NobodyStarves
