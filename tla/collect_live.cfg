SPECIFICATION FairSpec
CONSTANTS
  N = 2
  Props <- MCProps
  MaxHeld = 1
  MayResurrect = FALSE
  Threads = FALSE
  Parts <- Both
INVARIANTS
  OnlyGarbageBroken
PROPERTIES
  GarbageIsFreed
