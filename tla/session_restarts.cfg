SPECIFICATION Spec
CONSTANTS
  Target = 2
  Interval = 1
  MaxAttempts = 2
  MaxSequence = 1
  MaxBoots = 0
CONSTRAINT Restarts
CHECK_DEADLOCK FALSE
INVARIANTS
  OneAttemptAtATime
  NothingIsReplayed
  WorkIsCharged
  CleanEndpointLoads
