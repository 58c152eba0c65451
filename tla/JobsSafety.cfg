CONSTANTS
  p1 = p1
  p2 = p2
  p3 = p3
  NoPid = NoPid
  Pid <- ThreePids
  ExitCodes <- SomeExitCodes
  Signals <- SomeSignals
  MaxJobs = 3
SPECIFICATION Spec
SYMMETRY PidSymmetry
INVARIANTS TypeOK ChildrenAccounted NoWaitSpin ErrorsReported
PROPERTIES JidsOnlyShrink ForegroundStatus
