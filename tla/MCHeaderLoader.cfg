SPECIFICATION Spec
CONSTANT Files <- MCFiles
INVARIANTS
  NothingLost
  FailureOwnsNothing
  HeaderDescribesFile
  ImageIsWholeInOnePlane
  SoundFileLoaded
PROPERTY LoadReturns
CHECK_DEADLOCK FALSE
