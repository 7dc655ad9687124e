SPECIFICATION FairSpec
CONSTANTS
  Target = 1
  Interval = 1
  MaxAttempts = 1
  MaxSequence = 3
  MaxBoots = 1
CHECK_DEADLOCK FALSE
INVARIANTS
  NoHiddenProcess
  PauseHolds
PROPERTIES
  StopEndsAttempt
  PauseEnds
