SPECIFICATION Safety
CONSTANTS
  FirstCue = 3
  SecondCue = 7
  ClosingCue = 2
  VisibleFor = 2
  LeaveFor = 1
  Tier <- MCTier
  Measured = 8
  MaxGeneration = 3
PROPERTIES
  NoMomentOverHelp
CHECK_DEADLOCK FALSE
