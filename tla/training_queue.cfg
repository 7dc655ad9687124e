SPECIFICATION Spec
CONSTANTS
  c1 = c1
  s1 = s1
  Cells <- MCOneCell
  Seeds <- MCSeeds
  Updates = 2
  Steps = 1
  MaxStarts = 2
  MaxCommands = 2
  MaxKills = 1
INVARIANTS
  ResultsAreEvidenced
  OneWorkerAtATime
  PauseHolds
PROPERTIES
  NothingIsRepeated
  StopEnds
CHECK_DEADLOCK FALSE
