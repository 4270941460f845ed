CONSTANTS
  e1 = e1
  e2 = e2
  Engines <- OneEngine
  Paths <- OneFile
  Sections <- OneSection
  Lines <- OneLine
  RecvLines = {20}
  MaxEdits = 2
  MaxPending = 1
  MaxQueue = 2
  MayExit = FALSE
SPECIFICATION Spec
CHECK_DEADLOCK FALSE
INVARIANTS
  HitsKeptBreakpoints
