\* One call or two of every part that waits, in a world that changes.
SPECIFICATION WaitsSpec
CONSTANTS
  b1 = b1
  i1 = i1
  i2 = i2
  d1 = d1
  r1 = r1
  r2 = r2
  a1 = a1
  gold = gold
  None = None
  BackingCall = {b1}
  IdentityCall = {}
  Call = {b1}
  Holds = {b1}
  Network = {"preprod", "preview"}
  Expected = "preprod"
  Lacking <- MCLacking
  MaxChanges = 1
PROPERTIES
  EveryCallEnds
  RefreshReachesCache
  RetryIsDecided
CHECK_DEADLOCK FALSE
