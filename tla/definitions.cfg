SPECIFICATION Spec
CONSTANTS
  MaxLength = 2
  MaxWords = 2
  Values <- MCValues
INVARIANTS
  ArrivesAsDeclared
CHECK_DEADLOCK FALSE
