-------------------------- MODULE CurriculumBudget --------------------------
(***************************************************************************)
(* The stage schedule of the curriculum (formal/tasks/curriculum.py, class *)
(* CurriculumBudget): how rollouts are charged to stages, when a stage is  *)
(* left, and how a checkpoint's schedule is rebuilt by replay.             *)
(*                                                                         *)
(* Under "exposure" a stage is left when its budget is spent; under        *)
(* "audited" two successive passing decisions of an independent validator  *)
(* about different checkpoints promote, and what the stage did not spend   *)
(* moves to the last stage.                                                *)
(*                                                                         *)
(* Stages are numbered from 1 here (the code counts from 0).  The three    *)
(* verdicts of a decision only matter together, so a decision carries      *)
(* their conjunction; decisions that fail the identity checks change       *)
(* nothing and are represented by those about another update.              *)
(***************************************************************************)
EXTENDS Integers, Sequences, FiniteSets

Fold == INSTANCE SequencesExt
Sums == INSTANCE Functions

CONSTANTS
  StageBudgets,    (* stage_budgets: the rollouts planned for each stage   *)
  Checkpoints,     (* what checkpoint_sha256 can identify                  *)
  MaxDecisions     (* the decisions a checkpoint may hold: 20 in the code  *)

ASSUME StageBudgetsAssumption ==
  /\ StageBudgets \in Seq(Nat \ {0})
  /\ Len(StageBudgets) > 0

(* Four candidates for every stage but the last.  It is true of the two     *)
(* schedules the code has, of three and of four stages; the constructor     *)
(* itself takes any number of stages.                                       *)
ASSUME DecisionsAssumption ==
  MaxDecisions \in Nat /\ 4 * (Len(StageBudgets) - 1) <= MaxDecisions

VARIABLES
  budget,          (* the CurriculumBudget object                          *)
  saved            (* its state_dict in the last checkpoint                *)

scheduleVars == <<budget, saved>>

------------------------------------------------------------------------------
(* The object and its derived values *)

StageNumbers == 1..Len(StageBudgets)

LastStage == Len(StageBudgets)

Statuses == {"running", "training_budget_complete",
             "training_budget_complete_evaluation_pending",
             "stage_budget_complete_validation_pending",
             "failed_qualification"}

Decision == [stage : StageNumbers, update : Nat, checkpoint : Checkpoints, passed : BOOLEAN]

Promotions == {"exposure", "audited"}

Fresh(promotion) ==
  [promotion |-> promotion, stage |-> 1, consumed |-> [s \in StageNumbers |-> 0],
   transferred_to_consolidation |-> 0, decisions |-> <<>>,
   consecutive_passes |-> 0, status |-> "running"]

TotalUpdates(b) == Sums!SumFunction(b.consumed)

TotalBudget == Sums!SumFunction(StageBudgets)

StageLimit(b) ==
  StageBudgets[b.stage] + IF b.stage = LastStage THEN b.transferred_to_consolidation ELSE 0

------------------------------------------------------------------------------
(* The operations *)

Prepared(b) ==
  IF /\ b.promotion = "exposure"
     /\ b.status = "running"
     /\ b.stage < LastStage
     /\ b.consumed[b.stage] = StageLimit(b)
  THEN [b EXCEPT !.stage = @ + 1]
  ELSE b

ChargeAccepted(b) ==
  LET p == Prepared(b) IN p.status = "running" /\ p.consumed[p.stage] < StageLimit(p)

StatusAfterCharge(b) ==
  CASE b.stage = LastStage /\ TotalUpdates(b) = TotalBudget ->
         IF b.promotion = "exposure" THEN "training_budget_complete"
                                   ELSE "training_budget_complete_evaluation_pending"
    [] b.promotion = "audited" /\ b.stage # LastStage /\ b.consumed[b.stage] = StageLimit(b) ->
         "stage_budget_complete_validation_pending"
    [] OTHER -> b.status

SpentOne(consumed, stage) == [consumed EXCEPT ![stage] = @ + 1]

ChargedRollout(b) ==
  LET p == Prepared(b)
      spent == [p EXCEPT !.consumed = SpentOne(p.consumed, p.stage)]
  IN [spent EXCEPT !.status = StatusAfterCharge(spent)]

(* The decisions already taken about the current stage.                     *)
Previous(b) == {i \in DOMAIN b.decisions : b.decisions[i].stage = b.stage}

DecisionAccepted(b, d) ==
  /\ b.promotion = "audited"
  /\ b.stage # LastStage
  /\ b.status \in {"running", "stage_budget_complete_validation_pending"}
  /\ d.stage = b.stage
  /\ d.update = TotalUpdates(b)
  /\ 4 * b.consumed[b.stage] >= StageBudgets[b.stage]
  /\ Cardinality(Previous(b)) < 4
  /\ \A i \in Previous(b) : /\ b.decisions[i].update # d.update
                            /\ b.decisions[i].checkpoint # d.checkpoint

(* Mutant: a failed decision does not break the run of passes.              *)
PassesKept(b, d) == b.consecutive_passes + IF d.passed THEN 1 ELSE 0

PassesAfter(b, d) == IF d.passed THEN b.consecutive_passes + 1 ELSE 0

(* Mutant: the unspent rollouts of a promoted stage are dropped.            *)
PromotedEmptyHanded(b) ==
  [b EXCEPT !.stage = @ + 1, !.consecutive_passes = 0, !.status = "running"]

Promoted(b) ==
  [b EXCEPT !.transferred_to_consolidation = @ + StageBudgets[b.stage] - b.consumed[b.stage],
            !.stage = @ + 1, !.consecutive_passes = 0, !.status = "running"]

Decided(b, d) ==
  LET recorded == [b EXCEPT !.decisions = Append(@, d),
                            !.consecutive_passes = PassesAfter(b, d)]
  IN IF recorded.consecutive_passes >= 2 THEN Promoted(recorded)
     ELSE IF \/ Cardinality(Previous(b)) + 1 = 4
             \/ b.status = "stage_budget_complete_validation_pending"
          THEN [recorded EXCEPT !.status = "failed_qualification"]
          ELSE recorded

------------------------------------------------------------------------------
(* load_state_dict: the schedule rebuilt from consumption and decisions     *)

Unreplayable == [stage |-> 0]

ChargedOnce(b, ignored) ==
  IF b = Unreplayable \/ ~ChargeAccepted(b) THEN Unreplayable ELSE ChargedRollout(b)

ChargedUpTo(b, update) ==
  IF b = Unreplayable THEN b
  ELSE Fold!FoldLeft(ChargedOnce, b, [i \in 1..update - TotalUpdates(b) |-> i])

Redecided(b, d) ==
  IF b = Unreplayable \/ d.update <= TotalUpdates(b) THEN Unreplayable
  ELSE LET reached == ChargedUpTo(b, d.update)
       IN IF reached = Unreplayable \/ ~DecisionAccepted(reached, d) THEN Unreplayable
          ELSE Decided(reached, d)

(* Mutant: an entry checkpoint's stage is not prepared again.               *)
RestoredWithoutEntry(state) ==
  ChargedUpTo(Fold!FoldLeft(Redecided, Fresh(state.promotion), state.decisions), TotalUpdates(state))

Restored(state) ==
  LET replayed == ChargedUpTo(Fold!FoldLeft(Redecided, Fresh(state.promotion), state.decisions),
                              TotalUpdates(state))
  IN IF replayed # Unreplayable /\ state.stage # replayed.stage THEN Prepared(replayed)
     ELSE replayed

LoadAccepted(state) ==
  /\ TotalUpdates(state) <= TotalBudget
  /\ Len(state.decisions) <= MaxDecisions
  /\ Restored(state) = state

------------------------------------------------------------------------------
(* Behaviour *)

ScheduleInit == \E promotion \in Promotions :
          budget = Fresh(promotion) /\ saved = Fresh(promotion)

(* prepare_rollout, called before the sampler draws for the next rollout.   *)
PrepareRollout ==
  /\ budget' = Prepared(budget)
  /\ UNCHANGED saved

ChargeRollout ==
  /\ ChargeAccepted(budget)
  /\ budget' = ChargedRollout(budget)
  /\ UNCHANGED saved

SubmitStageValidation ==
  \E update \in 0..TotalUpdates(budget), checkpoint \in Checkpoints, passed \in BOOLEAN :
    LET d == [stage |-> budget.stage, update |-> update,
              checkpoint |-> checkpoint, passed |-> passed]
    IN /\ DecisionAccepted(budget, d)
       /\ budget' = Decided(budget, d)
       /\ UNCHANGED saved

SaveState ==
  /\ saved' = budget
  /\ UNCHANGED budget

(* A new process restores the last checkpoint.                              *)
LoadState ==
  /\ LoadAccepted(saved)
  /\ budget' = Restored(saved)
  /\ UNCHANGED saved

ScheduleNext == PrepareRollout \/ ChargeRollout \/ SubmitStageValidation \/ SaveState \/ LoadState

ScheduleSpec == ScheduleInit /\ [][ScheduleNext]_scheduleVars

------------------------------------------------------------------------------
(* Properties *)

Schedules == [promotion : Promotions, stage : StageNumbers, consumed : [StageNumbers -> Nat],
           transferred_to_consolidation : Nat, decisions : Seq(Decision),
           consecutive_passes : {0, 1}, status : Statuses]

(* The schedule stays in its domain: the stage exists, a run of passes is   *)
(* at most one long (the second pass promotes and clears it).               *)
ScheduleTypeOK == budget \in Schedules /\ saved \in Schedules

(* Every schedule the program can reach is accepted by load_state_dict and  *)
(* rebuilt exactly, the entry checkpoint of a stage included: no checkpoint *)
(* it writes is refused when a session resumes.                             *)
EveryScheduleLoads == LoadAccepted(budget)

(* No rollout is lost or invented: what promoted stages left unspent is     *)
(* exactly what the last stage gained, and the schedule is complete exactly *)
(* when the whole planned budget is spent.                                  *)
BudgetIsConserved ==
  /\ budget.transferred_to_consolidation
       = Sums!SumFunction([s \in 1..budget.stage - 1 |-> StageBudgets[s] - budget.consumed[s]])
  /\ budget.status \in {"training_budget_complete",
                        "training_budget_complete_evaluation_pending"}
       <=> TotalUpdates(budget) = TotalBudget

(* Stages are left in order and only when earned.  Under exposure every     *)
(* earlier stage is spent to the last rollout; under audit it was left on   *)
(* two successive passing decisions about different checkpoints, taken      *)
(* after at least a quarter of its budget.                                  *)
LeftOnTwoPasses(b, s) ==
  \E i \in 2..Len(b.decisions) :
    /\ b.decisions[i - 1].stage = s /\ b.decisions[i].stage = s
    /\ b.decisions[i - 1].passed /\ b.decisions[i].passed
    /\ b.decisions[i - 1].update # b.decisions[i].update
    /\ b.decisions[i - 1].checkpoint # b.decisions[i].checkpoint

Earned(b) ==
  /\ \A s \in 1..b.stage - 1 :
       IF b.promotion = "exposure" THEN b.consumed[s] = StageBudgets[s]
       ELSE LeftOnTwoPasses(b, s) /\ 4 * b.consumed[s] >= StageBudgets[s]
  /\ \A s \in b.stage + 1..LastStage : b.consumed[s] = 0
  /\ \A s \in 1..LastStage - 1 : b.consumed[s] <= StageBudgets[s]

StagesAreEarned == Earned(budget)
==============================================================================
