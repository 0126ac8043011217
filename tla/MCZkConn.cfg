SPECIFICATION FairSpec
CONSTANTS
  u1 = u1
  u2 = u2
  u3 = u3
  c1 = c1
  c2 = c2
  None = None
  Safe = {u1, u2}
  Unsafe = {u3}
  Conns = {c1, c2}
  retryMaxOnOps = 2
  MaxResets = 1
INVARIANTS
  NoCallOnClosed
  OneConnection
PROPERTIES
  CallsEnd
  BrokenIsReplaced
CHECK_DEADLOCK FALSE
