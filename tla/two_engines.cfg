CONSTANTS
  e1 = e1
  e2 = e2
  Engines <- TwoEngines
  Paths <- ScriptAndOther
  Sections <- OneSection
  Lines <- OneLine
  RecvLines = {20}
  MaxEdits = 1
  MaxPending = 0
  MaxQueue = 1
  MayExit = FALSE
SPECIFICATION Spec
CHECK_DEADLOCK FALSE
SYMMETRY EngineSymmetry
INVARIANTS
  Converged
  NoUpdateLost
