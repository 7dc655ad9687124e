SPECIFICATION Spec
CONSTANTS
  Capacity = 3
  StepLags <- MCStepLags
  Substeps = 2
  LatchLags <- MCLatchLags
  HoldFrames = 1
  ReleaseFrames = 1
  PreparationLimit = 1
  StableIntervals = 1
  RecoveryLimit = 2
  MaxTick = 3
  MaxRestarts = 1
INVARIANTS
  ArrivalsAreExact
  TorqueStaysInEpoch
  RecoveryBalance
  RecoveryIsBounded
PROPERTY ImplementsBoundary
CHECK_DEADLOCK FALSE
