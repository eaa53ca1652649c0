SPECIFICATION Spec
CONSTANTS
  Pids = {p1, p2}
  NoPid = NoPid
  MaxAttempts = 1
  MaxRuns = 2
PROPERTY ExitLeavesNoOrphan
CHECK_DEADLOCK FALSE
