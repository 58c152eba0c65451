CONSTANTS
  p1 = p1
  p2 = p2
  p3 = p3
  NoPid = NoPid
  Pid <- TwoPids
  ExitCodes <- OnlyZero
  Signals <- NoSignals
  MaxJobs = 2
SPECIFICATION Spec
PROPERTIES ReapEnds WaitEnds FinishedJobsReaped
