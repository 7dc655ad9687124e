------------------------- MODULE MCCurriculumBudget -------------------------
(* Stage budgets with a quarter that rounds up; either way of promoting.    *)
(* Checkpoint hashes are only compared, so they are interchangeable.        *)
EXTENDS CurriculumBudget, TLC

MCStageBudgets == <<6, 2, 1>>
MCSymmetry == Permutations(Checkpoints)
==============================================================================
