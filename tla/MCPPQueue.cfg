SPECIFICATION Spec
CONSTANTS
  w1 = w1
  w2 = w2
  w3 = w3
  None = None
  Workers <- MCWorkers
  Refs <- MCRefs
  Expiry = 1
  MaxConcurrency = 2
  PowerCap = 2
INVARIANTS
  IndexTracksPosition
  OneObjectPerWorker
  HeapOrdered
SYMMETRY Symmetry
PROPERTIES
  ImplementsPool
