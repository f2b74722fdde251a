SPECIFICATION Spec
CONSTANTS
  NoCoroutine = NoCoroutine
  NoObject = NoObject
  Coroutines = {c1, c2}
  Objects = {o1, o2}
  MaxDepth = 2
PROPERTIES OnlyLiveAreResumed
CHECK_DEADLOCK FALSE
