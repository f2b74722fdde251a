SPECIFICATION Spec
CONSTANTS
  NoCoroutine = NoCoroutine
  NoObject = NoObject
  Coroutines = {c1, c2, c3, c4}
  Objects = {o1, o2}
  MaxDepth = 4
INVARIANTS TypeOK AssertionsHold AwaitsAreSound RunningOnce NoAwaitCycle
PROPERTIES FinishIsFinal
SYMMETRY MCSymmetry
CHECK_DEADLOCK FALSE
