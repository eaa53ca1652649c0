SPECIFICATION Spec
CONSTANTS
  Ids = {h1}
  Callers = {c1, c2}
  Monitors = {m1}
  Pids = {p1, p2}
  MaxAttempts = 2
  NoId = NoId
  NoPid = NoPid
  NoThread = NoThread
INVARIANT StopIsFinal
CHECK_DEADLOCK FALSE
