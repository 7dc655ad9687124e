SPECIFICATION Spec
CONSTANTS
  Journals <- MCJournals
  NoJournal = NoJournal
  Stages = {0, 1}
  Target = 3
  Size = 1
  StepLimit = 1
  MaxDepth = 2
  EventLimit = 7
  MaxElapsed = 1
  MaxEvents = 2
CONSTRAINTS
  OneLineage
  NoRepeats
  OneClock
CHECK_DEADLOCK FALSE
INVARIANTS
  BoundaryIsDurable
  WorkFitsReservations
  EveryFailureIsRecoverable
PROPERTIES
  ImplementsBudget
