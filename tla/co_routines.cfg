SPECIFICATION FairSpec
CONSTANTS
  c1 = c1
  c2 = c2
  c3 = c3
  Contexts <- ThreeContexts
  None = None
  MaxTime = 3
  Careful = TRUE
INVARIANTS
  TypeOK
  NoContextLost
PROPERTIES
  EveryThreadRan
  EveryCoRoutineRuns
