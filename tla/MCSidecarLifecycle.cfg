SPECIFICATION Spec
CONSTANTS
  Pids = {p1, p2}
  NoPid = NoPid
  MaxAttempts = 1
  MaxRuns = 2
SYMMETRY Symmetry
INVARIANT PreparedUpdateIsQuiet
INVARIANT OneServerPerRun
INVARIANT LoneServerIsReachable
PROPERTY ExitStopsWhatItSees
INVARIANT KnownStrangersSurvive
CHECK_DEADLOCK FALSE
