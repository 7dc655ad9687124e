--------------------------- MODULE LearningJournal ---------------------------
(***************************************************************************)
(* The durable consumption journal of the structured learner               *)
(* (formal/learning/accounting.py).                                        *)
(*                                                                         *)
(* A journal is a directory of numbered, hash-linked event files with one  *)
(* writer under a kernel lock.  The hash chain makes an event identify all *)
(* of its predecessors, so event n is represented here by the state that   *)
(* replaying events 1..n yields: chain[j] is the sequence of those states. *)
(* An event becomes durable when its file is linked; the writer may fail   *)
(* just before or just after that point and cannot tell which.             *)
(*                                                                         *)
(* Of the eight executed counters the model keeps the four the rules       *)
(* distinguish: ppo_fresh_endpoints is ppo_updates * Size by rule, and     *)
(* optimizer_steps stands for the actor's and the critic's step counters,  *)
(* which obey the same rule.  A boot change ends the writer's process and  *)
(* is the same event here as a crash.                                      *)
(***************************************************************************)
EXTENDS Integers, Sequences, FiniteSets

Sets == INSTANCE FiniteSetsExt

CONSTANTS
  Journals,    (* journal directories, one per session                     *)
  NoJournal,   (* the source of a journal that did not fork from another   *)
  Stages,      (* curriculum stages                                        *)
  Target,      (* spec.target_rollouts                                     *)
  Size,        (* spec.num_envs * spec.rollout_steps                       *)
  StepLimit,   (* spec.epochs * spec.minibatches                           *)
  MaxDepth,    (* _MAX_RECOVERY_DEPTH: forks in one lineage                *)
  EventLimit,  (* 3 * spec.target_rollouts + 10000: the longest journal    *)
               (* that is opened or recovered from                         *)
  MaxElapsed,  (* bounds the model's active clock                          *)
  MaxEvents    (* bounds the boundary events of one journal                *)

ASSUME JournalsAssumption == NoJournal \notin Journals
ASSUME StagesAssumption == IsFiniteSet(Stages)
ASSUME BudgetAssumption ==
  /\ Target \in Nat \ {0}
  /\ Size \in Nat \ {0}
  /\ StepLimit \in Nat \ {0}
  /\ MaxDepth \in Nat
  /\ EventLimit \in Nat
  /\ MaxElapsed \in Nat
  /\ MaxEvents \in Nat

VARIABLES
  directory,   (* directory[j]: "absent", "unsealed" (no identity pin) or  *)
               (* "sealed"                                                 *)
  chain,       (* chain[j]: the replayed state after each durable event    *)
  writer       (* writer[j]: the object holding writer.lock, if any        *)

vars == <<directory, chain, writer>>

------------------------------------------------------------------------------
(* The replayed state *)

Counters == [attempted_transitions : Nat, returned_transitions : Nat,
             ppo_updates : Nat, optimizer_steps : Nat]

Zero == [attempted_transitions |-> 0, returned_transitions |-> 0,
         ppo_updates |-> 0, optimizer_steps |-> 0]

Plus(a, b) ==
  [attempted_transitions |-> a.attempted_transitions + b.attempted_transitions,
   returned_transitions  |-> a.returned_transitions + b.returned_transitions,
   ppo_updates           |-> a.ppo_updates + b.ppo_updates,
   optimizer_steps       |-> a.optimizer_steps + b.optimizer_steps]

Minus(a, b) ==
  [attempted_transitions |-> a.attempted_transitions - b.attempted_transitions,
   returned_transitions  |-> a.returned_transitions - b.returned_transitions,
   ppo_updates           |-> a.ppo_updates - b.ppo_updates,
   optimizer_steps       |-> a.optimizer_steps - b.optimizer_steps]

AtLeast(a, b) ==
  /\ a.attempted_transitions >= b.attempted_transitions
  /\ a.returned_transitions >= b.returned_transitions
  /\ a.ppo_updates >= b.ppo_updates
  /\ a.optimizer_steps >= b.optimizer_steps

NoRecovery == [source |-> NoJournal, checkpoint |-> 0, depth |-> 0]

Recovery == [source : Journals \cup {NoJournal}, checkpoint : Nat, depth : Nat]

State == [rollouts_reserved : Nat, reserved_by_stage : [Stages -> Nat],
          pending : Nat, failed : BOOLEAN,
          live : Counters, retired : Counters,
          recovery : Recovery, active_elapsed_s : Nat]

InitialState ==
  [rollouts_reserved |-> 0, reserved_by_stage |-> [s \in Stages |-> 0],
   pending |-> 0, failed |-> FALSE, live |-> Zero, retired |-> Zero,
   recovery |-> NoRecovery, active_elapsed_s |-> 0]

(* The state that replaying the first n event files of j yields. *)
Replay(j, n) == IF n = 0 THEN InitialState ELSE chain[j][n]

Durable(j) == Replay(j, Len(chain[j]))

TotalConsumption(s) == Plus(s.live, s.retired)

Clean(s) == s.pending = 0 /\ ~s.failed

------------------------------------------------------------------------------
(* Which events _apply accepts, and what they do *)

(* Mutant: a failed journal goes on. *)
ReserveAfterFailure(s) == s.pending = 0 /\ s.rollouts_reserved < Target

ReserveAccepted(s) == Clean(s) /\ s.rollouts_reserved < Target

Charged(by_stage, stage) == [by_stage EXCEPT ![stage] = @ + 1]

AfterReserve(s, stage) ==
  [s EXCEPT !.pending = s.rollouts_reserved + 1,
            !.rollouts_reserved = @ + 1,
            !.reserved_by_stage = Charged(s.reserved_by_stage, stage)]

(* Mutant: work is accepted that no pending reservation stands for. *)
FinishUnreserved(s, actual, failed) == AtLeast(actual, s.live) /\ ~s.failed

FinishAccepted(s, actual, failed) ==
  LET delta == Minus(actual, s.live) IN
  /\ s.pending # 0
  /\ AtLeast(actual, s.live)
  /\ delta.returned_transitions <= delta.attempted_transitions
  /\ delta.attempted_transitions <= Size
  /\ delta.ppo_updates \in {0, 1}
  /\ delta.ppo_updates = 1 => delta.returned_transitions = Size
  /\ failed \/ delta.ppo_updates = 1
  /\ delta.optimizer_steps <= StepLimit
  /\ delta.ppo_updates = 0 => delta.optimizer_steps = 0

AfterFinish(s, actual, failed) ==
  [s EXCEPT !.live = actual, !.pending = 0, !.failed = failed]

(* _validate_recovery_counters *)
CountersFit(c, reserved) ==
  /\ AtLeast(c, Zero)
  /\ c.ppo_updates <= reserved
  /\ c.ppo_updates * Size <= c.returned_transitions
  /\ c.returned_transitions <= c.attempted_transitions
  /\ c.attempted_transitions <= reserved * Size
  /\ c.optimizer_steps <= c.ppo_updates * StepLimit

StageSum(s) == Sets!MapThenSumSet(LAMBDA g : s.reserved_by_stage[g], Stages)

(* _validate_recovery_boundary, for a summary whose head is event n.        *)
BoundaryFits(s, n) ==
  /\ s.pending = 0
  /\ n <= EventLimit
  /\ StageSum(s) = s.rollouts_reserved
  /\ s.rollouts_reserved <= Target
  /\ CountersFit(s.retired, s.rollouts_reserved)
  /\ CountersFit(s.live, s.rollouts_reserved)
  /\ CountersFit(TotalConsumption(s), s.rollouts_reserved)

(* What the fork recorded in s must have retired: the losses its source had *)
(* already inherited and the source's own executed work after the           *)
(* checkpoint.  The event embeds the source's two summaries; a failed       *)
(* source never changes again, so they are read from its chain.             *)
RetiredBy(r) ==
  IF r.source = NoJournal THEN Zero
  ELSE LET failed == Durable(r.source) IN
       Plus(failed.retired, Minus(failed.live, Replay(r.source, r.checkpoint).live))

StagesAtLeast(s, t) ==
  \A g \in Stages : s.reserved_by_stage[g] >= t.reserved_by_stage[g]

(* Mutant: the history is compared with the failed end, not the checkpoint. *)
KeepsFailedEnd(s) ==
  s.recovery.source # NoJournal =>
    s.retired = RetiredBy(s.recovery) /\ AtLeast(s.live, Durable(s.recovery.source).live)

(* The inherited history of a journal that is itself a fork. *)
KeepsInheritance(s) ==
  s.recovery.source # NoJournal =>
    LET previous_checkpoint == Replay(s.recovery.source, s.recovery.checkpoint)
        previous_failed     == Durable(s.recovery.source)
    IN  /\ s.retired = RetiredBy(s.recovery)
        /\ AtLeast(s.live, previous_checkpoint.live)
        /\ s.active_elapsed_s >= previous_failed.active_elapsed_s
        /\ StagesAtLeast(s, previous_failed)

(* _recovery_retired, for the summary at event c of j and j's failed end. *)
RecoveryAccepted(j, c) ==
  LET checkpoint == Replay(j, c)
      failed     == Durable(j)
      lost       == Minus(failed.live, checkpoint.live)
  IN  /\ c \in 1..(Len(chain[j]) - 1)
      /\ Clean(checkpoint) /\ failed.failed
      /\ BoundaryFits(checkpoint, c) /\ BoundaryFits(failed, Len(chain[j]))
      /\ checkpoint.recovery = failed.recovery
      /\ checkpoint.recovery.depth < MaxDepth
      /\ 0 < checkpoint.live.ppo_updates
      /\ checkpoint.live.ppo_updates <= checkpoint.rollouts_reserved
      /\ checkpoint.rollouts_reserved < failed.rollouts_reserved
      /\ checkpoint.active_elapsed_s <= failed.active_elapsed_s
      /\ KeepsInheritance(checkpoint) /\ KeepsInheritance(failed)
      /\ AtLeast(failed.live, checkpoint.live)
      /\ StagesAtLeast(failed, checkpoint)
      /\ CountersFit(lost, failed.rollouts_reserved - checkpoint.rollouts_reserved)
      /\ CountersFit(Plus(failed.retired, lost), failed.rollouts_reserved)

AfterRecovery(j, c) ==
  LET checkpoint == Replay(j, c)
      failed     == Durable(j)
  IN  [rollouts_reserved |-> failed.rollouts_reserved,
       reserved_by_stage |-> failed.reserved_by_stage,
       pending  |-> 0,
       failed   |-> FALSE,
       live     |-> checkpoint.live,
       retired  |-> Plus(failed.retired, Minus(failed.live, checkpoint.live)),
       recovery |-> [source |-> j, checkpoint |-> c,
                     depth |-> failed.recovery.depth + 1],
       active_elapsed_s |-> failed.active_elapsed_s]

------------------------------------------------------------------------------
(* The writer *)

Closed == [mode |-> "closed", seq |-> 0, state |-> InitialState]

Writer == [mode : {"closed", "creating", "open", "faulted"},
           seq : Nat, state : State]

Init ==
  /\ directory = [j \in Journals |-> "absent"]
  /\ chain = [j \in Journals |-> <<>>]
  /\ writer = [j \in Journals |-> Closed]

(* create(): a new directory without its identity pin is not a journal.     *)
CreateDirectory(j) ==
  /\ directory[j] = "absent"
  /\ directory' = [directory EXCEPT ![j] = "unsealed"]
  /\ writer' = [writer EXCEPT ![j].mode = "creating"]
  /\ UNCHANGED chain

SealIdentity(j) ==
  /\ writer[j].mode = "creating"
  /\ directory' = [directory EXCEPT ![j] = "sealed"]
  /\ writer' = [writer EXCEPT ![j] = [Closed EXCEPT !.mode = "open"]]
  /\ UNCHANGED chain

(* __init__(writable=True): take the lock, replay every event file.  Only   *)
(* here is the length of a journal limited; _append has no such limit.      *)
Open(j) ==
  /\ directory[j] = "sealed"
  /\ writer[j].mode = "closed"
  /\ Len(chain[j]) <= EventLimit
  /\ writer' = [writer EXCEPT ![j] = [mode |-> "open", seq |-> Len(chain[j]),
                                      state |-> Durable(j)]]
  /\ UNCHANGED <<directory, chain>>

(* close(), or the end of the writer's process at any point. *)
Close(j) ==
  /\ writer[j].mode # "closed"
  /\ writer' = [writer EXCEPT ![j] = Closed]
  /\ UNCHANGED <<directory, chain>>

(* Mutant: after an exception the writer carries on with its old memory. *)
AppendUnfaulted(j, prepared) ==
  /\ writer[j].mode = "open" /\ writer[j].seq = Len(chain[j])
  /\ chain' = [chain EXCEPT ![j] = Append(@, prepared)]
  /\ \/ writer' = [writer EXCEPT ![j] = [mode |-> "open", seq |-> @.seq + 1, state |-> prepared]]
     \/ UNCHANGED writer
  /\ UNCHANGED directory

(* _append: link the event file named by the writer's own sequence, which   *)
(* fails if that file exists, then adopt the prepared state.  An exception  *)
(* leaves the event durable or not and the writer faulted, its memory as it *)
(* was.                                                                     *)
AppendEvent(j, prepared) ==
  /\ writer[j].mode = "open"
  /\ \/ /\ writer[j].seq = Len(chain[j])
        /\ chain' = [chain EXCEPT ![j] = Append(@, prepared)]
        /\ \/ writer' = [writer EXCEPT ![j] = [mode |-> "open", seq |-> @.seq + 1,
                                               state |-> prepared]]
           \/ writer' = [writer EXCEPT ![j].mode = "faulted"]
     \/ /\ writer' = [writer EXCEPT ![j].mode = "faulted"]
        /\ UNCHANGED chain
  /\ UNCHANGED directory

At(s, t) == [s EXCEPT !.active_elapsed_s = t]

Reserve(j, stage, t) ==
  /\ t >= writer[j].state.active_elapsed_s
  /\ ReserveAccepted(writer[j].state)
  /\ AppendEvent(j, At(AfterReserve(writer[j].state, stage), t))

Finish(j, actual, failed, t) ==
  /\ t >= writer[j].state.active_elapsed_s
  /\ FinishAccepted(writer[j].state, actual, failed)
  /\ AppendEvent(j, At(AfterFinish(writer[j].state, actual, failed), t))

RecordBoundary(j, t) ==
  /\ Len(chain[j]) < MaxEvents
  /\ t >= writer[j].state.active_elapsed_s
  /\ Clean(writer[j].state)
  /\ AppendEvent(j, At(writer[j].state, t))

(* The first event of a fork, k, from the clean summary at event c of j. *)
ImportFailedConsumption(k, j, c) ==
  /\ writer[k].mode = "open" /\ writer[k].seq = 0
  /\ RecoveryAccepted(j, c)
  /\ AppendEvent(k, AfterRecovery(j, c))

(* The counters a caller can report: what it had, plus one rollout of work. *)
Work == [attempted_transitions : 0..Size, returned_transitions : 0..Size,
         ppo_updates : {0, 1}, optimizer_steps : 0..StepLimit]

Next ==
  \/ \E j \in Journals :
       \/ CreateDirectory(j)
       \/ SealIdentity(j)
       \/ Open(j)
       \/ Close(j)
       \/ \E t \in 0..MaxElapsed :
            \/ \E stage \in Stages : Reserve(j, stage, t)
            \/ \E work \in Work, failed \in BOOLEAN :
                 Finish(j, Plus(writer[j].state.live, work), failed, t)
            \/ RecordBoundary(j, t)
  \/ \E k, j \in Journals : \E c \in 1..Len(chain[j]) :
       ImportFailedConsumption(k, j, c)

Spec == Init /\ [][Next]_vars

------------------------------------------------------------------------------
(* checkpoint_boundary(): the summary a resumable checkpoint may bind to. *)
CheckpointBoundaryAvailable(j) ==
  writer[j].mode = "open" /\ Clean(writer[j].state)

------------------------------------------------------------------------------
(* Properties *)

TypeOK ==
  /\ directory \in [Journals -> {"absent", "unsealed", "sealed"}]
  /\ chain \in [Journals -> Seq(State)]
  /\ writer \in [Journals -> Writer]

(* A writer that can hand out a checkpoint boundary knows the whole durable *)
(* chain: after an append of uncertain outcome, or after any crash, no      *)
(* stale memory state can be bound to a checkpoint (_append, _faulted,      *)
(* checkpoint_boundary).                                                    *)
BoundaryIsDurable ==
  \A j \in Journals : CheckpointBoundaryAvailable(j) =>
    /\ writer[j].seq = Len(chain[j])
    /\ writer[j].state = Durable(j)

(* Executed work, retained and lost, always fits the reservations that were *)
(* made durable before it, and they never exceed the budget (module         *)
(* docstring of accounting.py; _apply; _validate_recovery_counters).        *)
WorkFitsReservations ==
  \A j \in Journals :
    LET s == Durable(j) IN
    /\ s.rollouts_reserved <= Target
    /\ CountersFit(TotalConsumption(s), s.rollouts_reserved)

(* The recovery rules never refuse what the writer itself produced: for any *)
(* failed journal, within the limits on depth and on events, every clean    *)
(* point with a completed update can be forked from (_recovery_retired      *)
(* recomputes and compares the whole inherited history and could reject its *)
(* own output).  A longer journal is refused, at the open already, although *)
(* the writer goes on beyond the limit.                                     *)
EveryFailureIsRecoverable ==
  \A j \in Journals : \A c \in 1..(Len(chain[j]) - 1) :
    /\ Len(chain[j]) <= EventLimit
    /\ Durable(j).failed
    /\ Clean(Replay(j, c))
    /\ Replay(j, c).live.ppo_updates > 0
    /\ Durable(j).recovery.depth < MaxDepth
    => RecoveryAccepted(j, c)

(* No step, of any writer, after any crash or uncertain append, lowers what *)
(* a journal has durably spent or executed, or its clock ("never refunded   *)
(* or silently replayed", docstring of accounting.py).                      *)
NeverRefunded ==
  [][\A j \in Journals :
       /\ Durable(j)'.rollouts_reserved >= Durable(j).rollouts_reserved
       /\ AtLeast(TotalConsumption(Durable(j)'), TotalConsumption(Durable(j)))
       /\ Durable(j)'.active_elapsed_s >= Durable(j).active_elapsed_s]_vars

(* "Existing failed journals remain permanently failed": nothing can be     *)
(* appended behind a failed rollout, whoever reopens the journal (_apply).  *)
FailureIsFinal ==
  [][\A j \in Journals : Durable(j).failed => chain'[j] = chain[j]]_vars

(* The abstract budget this journal implements. *)
LedgerOf(s) == [spent    |-> s.rollouts_reserved,
                executed |-> TotalConsumption(s).attempted_transitions,
                failed   |-> s.failed]

Budget == INSTANCE NonrefundableBudget WITH
  ledger <- [j \in Journals |-> LedgerOf(Durable(j))]

(* The journal implements a budget that is charged, worked off and          *)
(* inherited, and never refunded.                                           *)
ImplementsBudget == Budget!Spec
==============================================================================
