CONSTANTS
  Programs <- AllLines
  Results <- Codes
  MaxMatches = 2
  MaxLog = 7
SPECIFICATION Spec
CHECK_DEADLOCK FALSE
INVARIANTS TypeOK RunsAsMeant BackgroundScoped
PROPERTY LineEnds
