SPECIFICATION FairSpec
CONSTANTS
  c1 = c1
  c2 = c2
  p1 = p1
  p2 = p2
  b1 = b1
  b2 = b2
  w1 = w1
  w2 = w2
  r1 = r1
  r2 = r2
  r3 = r3
  typo = typo
  other = other
  same = same
  Clients = {c1, c2}
  Proxies = {p1, p2}
  Balancers = {b1, b2}
  Workers = {w1, w2}
  Requests = {r1, r2, r3}
  Home <- MCHome
  Name <- MCName
  Caller <- MCCaller
  Wants <- MCWants
  Serves <- MCServes
  Owner <- MCOwner
  Known = {typo}
  PROFILE <- MCProfile
  Pids <- MCPids
  MaxSockets = 2
  MaxFaults = 1
INVARIANTS
  RepliesReachTheirClient
  AnswersAreWrapped
PROPERTY CallsAreAnswered
CHECK_DEADLOCK FALSE
