SPECIFICATION FairSpec
CONSTANTS
  c1 = c1
  c2 = c2
  d1 = d1
  None = None
  Connections <- TwoConnections
  Deliveries <- OneDelivery
  RepeatAfter = 1
  NoticeLimit = 2
  MaxTime = 1
  MaxRuns = 3
  MaxReopened = 1
  MaxUnsaved = 1
INVARIANTS NoStream ToldOnce
PROPERTIES EveryNoticeIsShown
CHECK_DEADLOCK FALSE
