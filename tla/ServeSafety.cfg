\* Overlapping requests, one that does not parse, one signal and any one failure.
SPECIFICATION Safety
CONSTANTS
  b1 = b1
  b2 = b2
  i1 = i1
  c1 = c1
  s1 = s1
  s2 = s2
  m1 = m1
  None = None
  BackingCall = {b1, b2, m1}
  IdentityCall = {i1, c1}
  IssuerCall = {i1}
  Call <- MCCall
  Malformed = {m1}
  Signal = {s1}
  FaultKinds = {"network", "wallet", "reject", "contract", "deploy", "throw", "call", "death", "stop"}
  MaxFaults = 1
SYMMETRY Interchangeable
CONSTRAINT MalformedFirst
INVARIANTS
  TypeOK
  SingleFlight
  BackingDeploymentLive
  PublishedKeyIsCurrent
  NothingRunsAtExit
PROPERTIES
  NoStaleDegrade
  LockReleasedBeforeGivingUp
CHECK_DEADLOCK FALSE
