CONSTANTS
  e1 = e1
  Engines <- OneEngine
  Paths <- ScriptAndOther
  Sections <- OneSection
  Lines <- OneLine
  RecvLines = {20}
  MaxEdits = 2
  MaxPending = 1
  MaxQueue = 2
  MayExit = FALSE
  MaxSessions = 2
SPECIFICATION SessionsSpec
CHECK_DEADLOCK FALSE
INVARIANTS
  EngineHasMarks
  ShowsTheStopOfSession
  ResponsesUnderWay
