SPECIFICATION FilesSpec
CONSTANTS
  Byte <- MCByte
  Patterns <- MCPatterns
  Subjects <- MCSubjects
  Words <- MCWords
  Entries <- MCEntries
INVARIANTS TypeOK StackRising MatchesAsMeant FilesAsMeant
PROPERTY CallsEnd
CHECK_DEADLOCK FALSE
