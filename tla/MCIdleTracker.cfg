SPECIFICATION FairSpec
CONSTANTS
  None = None
  Timeout = 10
  Warning = 6
  LongestPoll = 10
  Horizon = 4
CHECK_DEADLOCK FALSE
INVARIANTS
  TypeOK
  PausedOnTime
PROPERTIES
  WarnedBeforePause
  AbandonedIsPaused
