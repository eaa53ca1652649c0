SPECIFICATION FairSpec
CONSTANTS
  p1 = p1
  p2 = p2
  p3 = p3
  Procs = {p1, p2, p3}
  NoProc = NoProc
  Current <- MixedVersions
INVARIANT TypeOK
INVARIANT OpenedIsMigrated
PROPERTY AppliesOneAtATime
PROPERTY LockIsFreed
