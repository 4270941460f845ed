SPECIFICATION Spec
CONSTANTS
  MaxCallStack = 5
  MaxNestedCalls = 2
  Threads = TRUE
  Careful = TRUE
INVARIANTS
  TypeOK
  RunsOnlyActive
  RequestsSeen
PROPERTIES
  OuterKept
