SPECIFICATION FairSpec
CONSTANTS
  w1 = w1
  w2 = w2
  w3 = w3
  None = None
  Workers <- MCWorkers
  Expiry = 2
  MaxConcurrency = 1
  PowerCap = 1
INVARIANTS
  TypeOK
  StoppedStaysOut
  HandedIsLive
PROPERTIES
  OnlySilentLeave
  SilentAreEvicted
