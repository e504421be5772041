\* A backing request and an issuer-key request, a second backing request or a
\* check, a signal, and every pair of failures that the code degrades on.
SPECIFICATION Spec
CONSTANTS
  b1 = b1
  b2 = b2
  i1 = i1
  c1 = c1
  s1 = s1
  s2 = s2
  m1 = m1
  None = None
  BackingCall = {b1, b2}
  IdentityCall = {i1, c1}
  IssuerCall = {i1}
  Call <- MCCall
  Malformed = {}
  Signal = {s1}
  FaultKinds = {"network", "wallet", "contract", "deploy", "throw", "call"}
  MaxFaults = 2
CONSTRAINT RetryOrCheck
PROPERTIES
  SignalEndsProcess
  ImplementsProofPort
  BackingRecovers
CHECK_DEADLOCK FALSE
