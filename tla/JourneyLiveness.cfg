SPECIFICATION Spec
CONSTANTS
  FirstCue = 3
  SecondCue = 7
  ClosingCue = 2
  VisibleFor = 2
  LeaveFor = 1
  Tier <- MCTier
  Measured = 8
  MaxGeneration = 4
PROPERTIES
  EachProofLives
  MomentsGoAway
CHECK_DEADLOCK FALSE
