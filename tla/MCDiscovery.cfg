SPECIFICATION FairSpec
CONSTANTS
  s1 = s1
  s2 = s2
  a1 = a1
  a2 = a2
  Services <- MCServices
  Addrs <- MCAddrs
INVARIANTS
  ServicesKnown
  EndpointsCurrent
PROPERTIES
  LookupsReturn
  FollowsZookeeper
CHECK_DEADLOCK FALSE
