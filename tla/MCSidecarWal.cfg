SPECIFICATION Spec
CONSTANTS
  Pids = {p1, p2}
  NoPid = NoPid
  MaxAttempts = 1
  MaxRuns = 2
PROPERTY StartupRecoversWal
CHECK_DEADLOCK FALSE
