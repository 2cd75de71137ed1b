SPECIFICATION Spec
CONSTANTS
  c1 = c1
  c2 = c2
  d1 = d1
  None = None
  Connections <- OneConnection
  Deliveries <- OneDelivery
  RepeatAfter = 2
  NoticeLimit = 2
  MaxTime = 2
  MaxRuns = 3
  MaxReopened = 0
  MaxUnsaved = 0
PROPERTIES LongOutageIsTold
CHECK_DEADLOCK FALSE
