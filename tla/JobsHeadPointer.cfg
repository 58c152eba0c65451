CONSTANTS
  p1 = p1
  p2 = p2
  p3 = p3
  NoPid = NoPid
  Pid <- ThreePids
  ExitCodes <- OnlyZero
  Signals <- NoSignals
  MaxJobs = 3
SPECIFICATION Spec
INVARIANT JobListIntact
