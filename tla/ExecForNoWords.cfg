CONSTANTS
  Programs <- AllLines
  Results <- Codes
  MaxMatches = 1
  MaxLog = 4
SPECIFICATION Spec
CHECK_DEADLOCK FALSE
INVARIANTS ForsAreExecuted
