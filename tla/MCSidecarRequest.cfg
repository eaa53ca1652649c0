SPECIFICATION FairSpec
CONSTANTS
  Pids = {p1, p2}
  NoPid = NoPid
  Calls = {c1, c2}
  Permitted = {c1}
INVARIANT AtMostOnce
INVARIANT AnswerTellsExecution
INVARIANT RefusalHasCause
PROPERTY CallsImplement
PROPERTY CallsEnd
PROPERTY ServerStops
CHECK_DEADLOCK FALSE
