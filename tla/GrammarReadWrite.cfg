SPECIFICATION Spec
CONSTANTS
  Alphabets <- MCReadWrite
  MaxErrorTokens = 3
INVARIANT OperatorTaken
CHECK_DEADLOCK FALSE
