SPECIFICATION FairSpec
CONSTANTS
  None = None
  Users = {u1, u2}
  MaxJobs = 3
  DbFailures = TRUE
  PrivateTmp = TRUE
CHECK_DEADLOCK FALSE
INVARIANTS
  TypeOK
  RunningIsProcessed
  
PROPERTIES
  EveryJobEnds
