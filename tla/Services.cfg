\* Three calls of the bridge while the server changes twice, two claims, two
\* calls of the advisor, and every signature of a group of five.
SPECIFICATION ServicesSafety
CONSTANTS
  BackingCall = {b1}
  IdentityCall = {i1, i2}
  Holds = {b1, i1}
  Hosts = {TRUE, FALSE}
  MaxChanges = 2
  BackingIssue = {b1}
  IdentityIssue = {i1}
  MaxTurns = 3
  Asker = {a1, a2}
  Tier = {silver, gold}
  MaxSwaps = 2
  Payload = {p1, p2}
  Order = 5
  Modulus = 3
  FieldSize = 11
  MaxQuotient = 4
INVARIANTS
  ServicesTypeOK
  DecidedUnderItsKey
  AnswersAreHonest
  FallbackHasCause
  VerifiersAgree
PROPERTIES
  ImplementsProofPort
CHECK_DEADLOCK FALSE
