SPECIFICATION FairSpec
CONSTANTS
  MaxEvents = 4
  MaxDrain = 2
  MaxStrays = 2
  Sentinel = Sentinel
  Response = Response
  Nothing = Nothing
INVARIANT TypeOK
INVARIANT SentInOrder
INVARIANT NothingLost
PROPERTY AnswerArrives
CHECK_DEADLOCK FALSE
