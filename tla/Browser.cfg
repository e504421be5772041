\* Every part of the page at the bounds at which its cases all happen.
SPECIFICATION BrowserSafety
CONSTANTS
  b1 = b1
  b2 = b2
  i1 = i1
  BackingCall = {b1, b2}
  IdentityCall = {i1}
  Call <- MCCall
  Holds = {b1}
  Network = {"preprod", "preview"}
  Expected = "preprod"
  Lacking <- MCLacking
  MaxChanges = 2
  Last = 3
  Start <- MCStart
  Measured = 474
  Beat = 18
  Gap = 18
  LeaveTimeout = 12
  MaxElapsed = 520
  t1 = t1
  Tab = {t1}
  Modes = {"works", "readThrows", "writeThrows", "absent"}
  MaxDraws = 3
  MaxLoads = 3
  r1 = r1
  r2 = r2
  Request = {r1, r2}
  Bases = {"root", "project"}
  MaxVersion = 2
  MaxOutages = 1
INVARIANTS
  PartsTypeOK
  ReasonIsFirstFault
  AnswerIsOwn
  NeverAhead
  WhatIsKeptIsThere
PROPERTIES
  ImplementsProofPort
  StepsAreMarked
CHECK_DEADLOCK FALSE
