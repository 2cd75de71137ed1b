SPECIFICATION FairSpec
CONSTANTS
  c1 = c1
  j1 = j1
  w1 = w1
  w2 = w2
  None = None
  MaxAttempts = 2
  Connections <- OneConnection
  Jobs <- OneJob
  Workers <- TwoWorkers
INVARIANTS TypeOK RetryBudget
PROPERTIES OnlyLatestClaimLands StoppedStaysStopped LettingGoClosesRuns ImplementsLease EveryJobStops
CHECK_DEADLOCK FALSE
