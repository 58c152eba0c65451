SPECIFICATION Spec
CONSTANTS
  Alphabets <- MCAlphabets
  MaxErrorTokens = 3
INVARIANTS TypeOK NeverPastEnd TreeExecutable TreeSaysLine
PROPERTY ParseEnds
CHECK_DEADLOCK FALSE
