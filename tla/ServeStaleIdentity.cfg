SPECIFICATION Safety
CONSTANTS
  b1 = b1
  b2 = b2
  i1 = i1
  c1 = c1
  s1 = s1
  s2 = s2
  m1 = m1
  None = None
  BackingCall = {b1}
  IdentityCall = {i1}
  IssuerCall = {i1}
  Call <- MCCall
  Malformed = {}
  Signal = {}
  FaultKinds = {"deploy"}
  MaxFaults = 1
INVARIANTS
  IdentityDeploymentLive
CHECK_DEADLOCK FALSE
