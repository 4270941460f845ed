CONSTANTS
  e1 = e1
  e2 = e2
  Engines <- OneEngine
  Paths <- TwoScripts
  Sections <- OneSection
  Lines <- LongLine
  RecvLines = {3, 4}
  MaxEdits = 2
  MaxPending = 1
  MaxQueue = 3
  MayExit = TRUE
SPECIFICATION Spec
CHECK_DEADLOCK FALSE
INVARIANTS
  TypeOK
  Converged
  CommandOnlyAtStop
  ShowsTheStop
  StepStopsEnd
