SPECIFICATION FairSpec
CONSTANTS
  Ids = {h1}
  Callers = {c1, c2}
  Monitors = {m1, m2}
  Pids = {p1, p2, p3}
  MaxAttempts = 2
  NoId = NoId
  NoPid = NoPid
  NoThread = NoThread
INVARIANT TypeOK
INVARIANT ShutdownCannotOrphan
INVARIANT NoUntrackedProcess
INVARIANT SingleStartNeverReplaces
INVARIANT LockFileNamesOwnedChild
PROPERTY ShutdownSettles
PROPERTY CallsReturn
PROPERTY StopEndsMonitors
PROPERTY MapIsOneTable
PROPERTY StoppedUntilStarted
CHECK_DEADLOCK FALSE
