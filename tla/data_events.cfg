CONSTANTS
  Names <- TwoNames
  Lines <- LongLines
  MaxWrites = 4
SPECIFICATION Spec
CHECK_DEADLOCK FALSE
INVARIANTS
  StopsReadBack
