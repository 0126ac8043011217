SPECIFICATION FairSpec
CONSTANTS
  s1 = s1
  s2 = s2
  s3 = s3
  None = None
  Sessions <- MCSessions
  SessionTimeout = 2
INVARIANT TypeOK
PROPERTIES
  KeepsItsEndpoint
  RegistersAgain
  GoneIsDelisted
