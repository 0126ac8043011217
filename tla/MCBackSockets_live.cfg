SPECIFICATION FairSpec
CONSTANTS
  a1 = a1
  a2 = a2
  a3 = a3
  s1 = s1
  s2 = s2
  s3 = s3
  None = None
  Addrs <- MCOneAddr
  Ids <- MCIds
  OfflineSeconds = 1
PROPERTY WaitingArePurged
