CONSTANTS
  Chars <- FewChars
  MaxChars = 3
SPECIFICATION Spec
CHECK_DEADLOCK FALSE
INVARIANTS
  ScanDecides
