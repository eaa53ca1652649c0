SPECIFICATION FairSpec
CONSTANTS
  Delays <- ShortLadder
  Window = 8
  PollEvery = 1
  MaxLate = 1
INVARIANT BurstBounded
INVARIANT GiveUpIsEarned
PROPERTY HealthForgives
PROPERTY CrashIsAnswered
CHECK_DEADLOCK FALSE
