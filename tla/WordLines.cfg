SPECIFICATION Spec
CONSTANTS
  Digit <- MCDigit
  Letter <- MCLetter
  Keywords <- MCKeywords
  Sessions <- MCSessions
  Fixed <- MCFixed
  Evaluate <- MCEvaluate
  PS1 <- MCPS1
  Prompt <- MCPrompt
INVARIANTS TypeOK TokensAsWritten OneEntry
PROPERTIES VariablesAreMap ArgumentsAsMeant ExportsReachBoth LinesEnd
CHECK_DEADLOCK FALSE
