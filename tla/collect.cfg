SPECIFICATION Spec
CONSTANTS
  N = 2
  Props <- MCProps
  MaxHeld = 1
  MayResurrect = TRUE
  Threads = FALSE
  Parts <- BothOrDestroy
INVARIANTS
  TypeOK
  CountsExact
PROPERTIES
  FullCycleLeavesNoGarbage
