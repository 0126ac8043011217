SPECIFICATION FairSpec
CONSTANTS
  w1 = w1
  r1 = r1
  r2 = r2
  None = None
  Workers <- MCWorkers
  Requests = {r1}
  Expiry = 1
  MaxConcurrency = 1
  PowerCap = 5
  Grace = 1
  ServiceTime = 1
  Notice = 1
  QueueCap = 2
PROPERTIES
  EveryRequestSettled
  StopsWhenTold
CHECK_DEADLOCK FALSE
