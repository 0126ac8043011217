SPECIFICATION Spec
CONSTANTS
  w1 = w1
  r1 = r1
  r2 = r2
  None = None
  Workers <- MCWorkers
  Requests <- MCRequests
  Expiry = 1
  MaxConcurrency = 1
  PowerCap = 5
  Grace = 1
  ServiceTime = 1
  Notice = 2
  QueueCap = 3
SYMMETRY Symmetry
INVARIANTS
  TypeOK
  Conserved
  StoppingStaysOut
  ExitsWithNothingInHand
CHECK_DEADLOCK FALSE
