SPECIFICATION Spec
CONSTANTS
  Target = 2
  Interval = 1
  MaxAttempts = 2
  MaxSequence = 2
  MaxBoots = 0
CONSTRAINT Restarts
CHECK_DEADLOCK FALSE
INVARIANTS
  EndpointIsCommitted
