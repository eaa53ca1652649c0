SPECIFICATION FairSpec
CONSTANTS
  u1 = u1
  u2 = u2
  u3 = u3
  Updates = {u1, u2, u3}
  Version <- TwoVersions
  Clicks = {i1}
  NoUpdate = NoUpdate
  MaxChecks = 2
  MaxRetries = 1
INVARIANT TypeOK
INVARIANT ProgressIsReal
INVARIANT AutoDownloadsDoNotOverlap
PROPERTY FirstUpdateIsDownloaded
PROPERTY InstallIsAnswered
CHECK_DEADLOCK FALSE
