SPECIFICATION FairSpec
CONSTANTS
  CellCount = 2
  SeedCount = 1
  Updates = 3
  MaxRunAttempts = 2
  MaxRuns = 2
  MaxFaults = 1
INVARIANTS
  AuditIsConservative
  OneWorkerAtATime
  ResumesAtEndpoint
  EvaluatedOnce
PROPERTIES
  ImplementsLedger
  RunEnds
CHECK_DEADLOCK FALSE
