SPECIFICATION ScheduleSpec
CONSTANTS
  StageBudgets <- MCStageBudgets
  Checkpoints = {c1, c2, c3, c4}
  MaxDecisions = 8
SYMMETRY MCSymmetry
INVARIANTS
  EveryScheduleLoads
  BudgetIsConserved
  StagesAreEarned
