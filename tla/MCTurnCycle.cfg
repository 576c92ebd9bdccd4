SPECIFICATION FairSpec
CONSTANTS
  None = None
  Worker = worker
  Teams = {t1, t2}
  Facilitators = {f1}
  MaxRound = 3
  MaxCrashes = 1
CHECK_DEADLOCK FALSE
INVARIANTS
  TypeOK
  RoundsAreAnswered
PROPERTIES
  TeamsStayInStep
  EveryRoundEnds
