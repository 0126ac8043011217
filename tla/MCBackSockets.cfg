SPECIFICATION Spec
CONSTANTS
  a1 = a1
  a2 = a2
  a3 = a3
  s1 = s1
  s2 = s2
  s3 = s3
  None = None
  Addrs <- MCAddrs
  Ids <- MCIds
  OfflineSeconds = 1
SYMMETRY Symmetry
INVARIANTS
  IndexIsPosition
  ActiveIsListed
  RoundRobin
PROPERTIES
  OnlyOldSocketsDropped
  ImplementsActiveArea
