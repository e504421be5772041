SPECIFICATION PatientSpec
CONSTANTS
  FirstCue = 3
  SecondCue = 7
  ClosingCue = 2
  VisibleFor = 2
  LeaveFor = 1
  Tier <- MCTier
  Measured = 8
  MaxGeneration = 5
INVARIANTS
  TypeOK
  NoStepUnanswered
  AnswerIsOwn
  OneRunOneTicker
  ScreenShowsState
  MomentInItsWait
PROPERTIES
  OneMomentAtATime
  OvertimeIsShown
CHECK_DEADLOCK FALSE
