\* One backing request, and a second signal while the first is stopping its network.
SPECIFICATION Safety
CONSTANTS
  b1 = b1
  b2 = b2
  i1 = i1
  c1 = c1
  s1 = s1
  s2 = s2
  m1 = m1
  None = None
  BackingCall = {b1}
  IdentityCall = {}
  IssuerCall = {}
  Call <- MCCall
  Malformed = {}
  Signal = {s1, s2}
  FaultKinds = {}
  MaxFaults = 0
CONSTRAINT SecondWhileStopping
INVARIANTS
  NothingRunsAtExit
CHECK_DEADLOCK FALSE
