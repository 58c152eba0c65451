SPECIFICATION Spec
CONSTANTS
  Width = 4
  Alphabets <- MCAlphabets
INVARIANTS TypeOK EndStays ValueAsWritten
PROPERTY EvalEnds
CHECK_DEADLOCK FALSE
