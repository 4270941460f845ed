CONSTANTS
  Engines <- NoEngines
  Paths <- ShortPath
  Sections <- OneSection
  Lines <- LongLines
  RecvLines = {1}
  RecvSize = 12
  MaxEntries = 2
  MaxWrites = 4
SPECIFICATION Spec
CHECK_DEADLOCK FALSE
PROPERTIES
  ReadsAsModelled
