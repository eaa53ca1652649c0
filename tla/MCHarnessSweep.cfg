SPECIFICATION RunsSpec
CONSTANTS
  Ids = {h1, h2}
  Callers = {c1, c2}
  Monitors = {m1}
  Pids = {p1, p2, p3}
  MaxAttempts = 1
  MaxRuns = 2
  NoId = NoId
  NoPid = NoPid
  NoThread = NoThread
PROPERTY SweepKillsLeftBehind
CHECK_DEADLOCK FALSE
