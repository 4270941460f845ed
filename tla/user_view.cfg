CONSTANTS
  e1 = e1
  E = e1
  Engines <- OnlyEngine
  Paths <- OneFile
  Sections <- OneSection
  Lines <- OneLine
  RecvLines = {20}
  MaxEdits = 2
  MaxPending = 1
  MaxQueue = 3
  MayExit = FALSE
SPECIFICATION FairSpec
CHECK_DEADLOCK FALSE
INVARIANTS
  NeverBothWaiting
PROPERTIES
  UserViewImplemented
  EventuallyConverged
