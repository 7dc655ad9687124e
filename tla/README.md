# Formal models of transformer_rl

TLA+ models of the parts of `transformer_rl` whose correctness depends on the order in which
things happen: the session that trains a policy and its files, the journal that charges the
training budget, the schedule of the curriculum, the jump and stair requests of the robots, the
delays, hand-overs and resets of one control interval, the publication of checkpoint files, and
two drivers that run many trainings: the research queue and the learning campaign. TLC checks each
model on small instances; TLAPS proves the most important properties for all values of the
constants. `PROJECT.json` maps every definition
to the source lines it stands for, and lists the runs, mutants, findings, hazards and theorems.

    cd tla
    tlc -config journal_budget.cfg MCLearningJournal.tla     # module and cfg: PROJECT.json, "runs"
    tlapm BudgetProofs.tla

1. [Inventory](#inventory) 2. [Modules](#modules) 3. [Runs and bounds](#runs-and-bounds)
4. [Proofs](#proofs) 5. [Findings](#findings) 6. [What is not modelled](#what-is-not-modelled)
7. [Plan](#plan)

## Inventory

Paths are below `src/src/transformer_rl/`, those that begin with `tools/` below `src/`. The package has a maintained tree (`common/`,
`formal/`, about 30,000 lines) and a tree of frozen studies (`research/`, about 21,000).

### How the parts interact

A *frontend* (a command, a menu, a test) creates a session directory and starts attempts in it.
An attempt is two processes: a *supervisor* that waits for its child, and the *learner*. They and
all later frontends communicate only through JSON files in the session directory and through two
kernel locks, `command.lock` (one frontend at a time) and `run.lock` (the lease: an open
descriptor inherited by supervisor and learner, released when both are gone). The learner owns
the consumption journal and the checkpoint store of the session; it asks the curriculum schedule
which stage to train, reserves a rollout in the journal, lets the environment collect it,
optimizes, and records the completion. Inside the environment, once per policy step and for all
robots, the course steps the jump requests, then the stair requests and the stair trigger, then
the skill mode; the physics between two steps verifies jumps. A recovery creates a new session
that inherits what a failed one has consumed.

| part | state it keeps | operations | hard behaviour | what makes it correct |
|---|---|---|---|---|
| consumption journal `formal/learning/accounting.py` | numbered, hash-linked event files; the replayed counters in memory; the writer's lock | create, open (replay), reserve, finish, record boundary, import a failed journal's consumption, close | an append may raise before or after the event became durable; crashes; forks of forks | consumption is never refunded, a failure is final, a checkpoint binds only to durable state, every failed run can be recovered from |
| training session `formal/runtime/session.py`, `common/training_control.py`, `formal/learning/loop.py`, `formal/runtime/process.py`, `common/termination.py` | `current.json`; per attempt: request, launch, control request, status, result, exit receipt, snapshots; processes; the lease | status, command (pause, resume, stop), start; supervise; the control boundary, reservation, collection, update, checkpoints, finish; signals | no operation is atomic: reads of several files interleave with their writers; every process may die anywhere; the machine may reboot; commands race signals and the end of training | one attempt at a time, no live process is missed, paused means no work, stopped means ended and resumable, no consumed work is replayed |
| curriculum schedule `formal/tasks/curriculum.py` (`CurriculumBudget`) | stage, rollouts per stage, transferred rollouts, decisions, status | prepare, charge, submit a validation decision, save, restore by replay | restore replays history and compares; boundaries at a quarter and at the end of a stage | stages are left when earned, the planned budget is conserved, every reachable schedule can be restored |
| jump requests `formal/tasks/protocol.py`, `formal/lab_env/course_tasks.py` | protocol record and physical record of each robot, id watermarks, outcome counters | step, observe physics, reset, save, restore, stair hand-off | two records of one jump end at different times; ids come from two sources; resets, cancels and restores in any order | no id is replayed, a jump is paid once and only if it is still valid, records agree |
| stair requests `formal/lab_env/course_tasks.py`, `stair_trigger.py`, `skill_fsm.py`, `terrain.py` | request record, mode, trigger with its latency, one-boundary inbox | key, sensor and packet submissions, cancel, `advance_skill`, reset, restore | four sources of requests and five kinds of ends meet in one boundary; trigger memory outlives requests | request and mode agree, one skill at a time, the trigger is re-armed, its submissions are accepted |
| file publication `common/artifacts.py` | the directory entries | `_publish_new_files` | failure, interruption or death between links; rivals | the marker stands only over a complete set |
| checkpoint store `formal/learning/checkpoint.py` | snapshot and receipt files | save, load with binding checks | binding of weights to a journal boundary | a loaded checkpoint describes the journal's present |
| recovery and transition forks `formal/runtime/recovery.py`, `transition.py` | the new session's directory | prepare, load | multi-file programs without a transaction | a fork is complete or absent |
| skill modes without course `formal/lab_env/skill_fsm.py`, `env.py` | JumpFSM and StairFSM of each robot | step, arbitration, reset | timeouts, simultaneous exits | exclusion, every mode ends |
| reset coordination, recovery episodes `formal/runtime/reset_coordinator.py`, `formal/lab_env/recovery_lifecycle.py`, `recovery.py` | per robot: whether a recovery is open, its clocks, the preparation script, the counters; frozen rows, pools | birth, frame of the script, estimate, physical evidence, hand-over, limit, reset, save, restore | two phases with limits of their own; a save forgets open episodes | every birth ends in exactly one way, and in time |
| command, action and observation delays `formal/lab_env/action_transport.py`, `formal/control/communication.py` | delay rings, substep latch, held torques with their origin | push, read, reset rows, flush | lags are drawn again at a reset; ownership changes in between | what arrives is as old as the lag says and of this epoch |
| environment and managed runs `formal/lab_env/env.py`, `managed.py`, `train.py`, ... | the simulator's arrays; episode and epoch of a row | step, reset, save, cold restore | order of the phases of a step | each phase sees the completed data of the one before; one epoch per hand-over or reset |
| rollout collection `formal/learning/collection.py` | buffers | collect | partial rollouts | what is counted is what is returned |
| evaluation `formal/evaluation/` | plan, results | run | none | results belong to the plan |
| research queue `research/training_queue.py`, `training_queue_validation.py`, `session.py`, and `EvaluationControl` | `request.json`, `state.json`, `results.json`, `controller.json`; the files of each attempt and evaluation window; the lease | start, command; the controller: boundary, select, train, relay commands, record, validate, evaluate | a frontend rewrites what the controller publishes; every process may die between two writes; commands are relayed to a child that may be ending | results rest on witnessed evidence, one worker at a time, nothing run twice, a pause holds, a stop ends |
| learning campaign `tools/run_learning_campaign.py` | attempt directories: request, worker record, metrics, completion, receipt; summary; lock | acquire resources, train with retries, seal, evaluate, audit; signals | the controller is killed, interrupted or replaced around every file; a child nobody can name | budgets are never under-counted, one worker at a time, resume at exact endpoints, one evaluation per seed, runs end |
| other study drivers `research/`, `tools/` | as above | as above | as above | as above |
| numeric parts: policies, critic, PPO, rewards, physics, terrain geometry | arrays | pure or simulator calls | floating point | out of a model checker's reach |
| routing and command line `common/session_router.py`, `training_cli.py`, `runtime_paths.py` | none | parse, choose | none | sequential |

The concrete hazards, each at its line and with the property that covers it, are in
`PROJECT.json`, "hazards": the forty that matter most. Where a hazard is not covered, or in part
only, its note says so; what the code then does is described under [Findings](#findings). Situations of which the code itself says
that there is no way out are not among them, though the models have them: an attempt whose start
died after `current.json` was written (`session.py:256`) or whose supervisor was killed
(`training_control.py:228`) closes its session to every later start; a reservation left pending by
a kill leaves a journal that is neither clean nor failed (`accounting.py:343`); a queue paused
before its first update refuses a stop (`training_queue.py:219`).

## Modules

Every component module has its state as variables and one action per operation, holds its
properties, and keeps its *mutants*: plausible wrong forms of one definition (marked "Mutant" in
a comment). Each property of a passing run is known to fail when its mutant replaces the
definition. Modules named `MC...` give constants and constraints for TLC, modules named
`...Proofs` hold theorems.

**`LearningJournal`** (accounting.py). Because events are hash-linked, an event identifies all of
its predecessors, so a journal is the sequence of states that replaying its event files yields.
`AppendEvent` is the heart: it may succeed, fail before the event is durable, or fail after; in
both failures the writer is `faulted` and keeps its old memory. `ReserveAccepted` and
`FinishAccepted` are the rules of `_apply`; `RecoveryAccepted` and `AfterRecovery` are
`_recovery_retired` and the import event, with everything a fork of a fork recomputes.
`EventLimit` is the longest journal that is opened or recovered from; appending has no limit. Four of the
eight counters are kept: the others follow a rule identical to one of these. The process of a
writer may end at any point (`Close`); `Open` replays.

**`NonrefundableBudget`** is what a journal promises, without files, crashes or forks: a budget is
charged, worked off within what is charged, may fail for ever, and can only be inherited whole.
`LearningJournal!ImplementsBudget` is the refinement under `LedgerOf`.

**`LearningSession`** (session.py, training_control.py, loop.py, process.py, termination.py).
Three kinds of processes: one frontend at a time (`command.lock`), a supervisor and a learner per
attempt. Every file read or write that another process can observe is a step of its own:
`ReadStatus` takes the frontend's first reads and `Report` judges later with the files as they
are then, `BeginFinish`, `SaveFinal`, `CommitResult` and `WorkerReturns` are the four steps in
which a learner ends. A process that is exiting no longer shows its identity but still holds the
lease (`Holders`), as the kernel does it. The journal appears by its counters; the phases of
`status.json` nobody decides on are one phase. `Signal` is SIGTERM, SIGINT or the deadline.

**`CurriculumBudget`** (curriculum.py). Both promotion rules (a field of the schedule, chosen at
its start), decisions, and the restore that replays history (`Restored`, with folds) and refuses more
than `MaxDecisions` of them. Stages count from 1 instead of 0.

**`JumpRequests`** (protocol.py, course_tasks.py). One row of the batch, since rows do not
interact. `Boundary` is one `LabCourseTasks.step` with the whole `RequestProtocol.step` in it;
`Observe` the physics between boundaries; `Handoff`, `Reset`, `SaveState`, `ColdRestore` the rest.
Timestamps are kept as ages. `history` is not in the code: it collects the ids submitted, spoiled
and paid in this learning run, and goes back with a restore.

**`StairRequests`** (course_tasks.py, stair_trigger.py, skill_fsm.py, terrain.py). `Boundary` is
one `advance_skill`: the inbox or packet, the trigger's look, latency and submission, the
protocol, the release of the mode, the mode's step, its exit, re-arming and the watermark.
Operators take the names of what they decide: `Fires`, `Accepted`, `Finishes`, `Exits`. Risers
are identities, because the code tells them apart by their position only. The jump requests
appear as the one bit the code passes. `history` remembers what became of the riser last
requested.

**`FilePublication`** (artifacts.py). A path is known by the owner of its inode. Any number of
calls with overlapping contents compete; each may fail or be interrupted at every step,
interrupted again while it takes its links back, or killed. `Replace` is a writer of another kind.

**`TrainingQueue`** (training_queue.py, training_queue_validation.py, research/session.py,
EvaluationControl). One variable per file or kind of directory; the controller's `pc` names the
place in `run`, with a step for every file it writes and every read that another process can
outdate: `BoundaryRead` and `BoundaryDecide`, `PollAttempt`, `ForwardToAttempt` and
`ReportAttempt`, `ValidateAttempt` (the exclusive `worker.process.json`) and `SealAttempt`. A
start is three steps (`StartSpawn`, `StartRegister`, `StartWrite`), so that its rewrite of
`state.json` can undo what the new controller has published. A worker is a record that stands for
its directory and its process; `AtTrainingBoundary` and `AtWindowBoundary` are the two forms of
`boundary`. `state.by` is not in the code: it says which controller wrote the acknowledgement.

**`LearningCampaign`** (tools/run_learning_campaign.py). An attempt is the directory and the process
in it, indexed by its place. `WriteLaunch`, `Spawn`, `Register`, `Reap` are the four steps of
`worker`, between which a kill or a signal leaves different files (`Kill`, `InterruptLaunch`,
`InterruptSpawn`, `InterruptRegister`, `InterruptWatch`, `InterruptIdle`). `ReceiptOf` is
`seal_training`, whose probe of the machine may fail; `AuditedTraining` is what `audit` derives
from the files alone.

**`ReservationLedger`** is what a cell of a campaign promises about its budget: all that is left is
reserved before work, a reservation is settled exactly or forfeited whole.
`LearningCampaign!ImplementsLedger` is the refinement.

**`ControlInterval`** (env.py, action_transport.py, communication.py, recovery_lifecycle.py,
recovery.py, train.py). One row. `Decide` is `_pre_physics_step`, `PhysicsStep` one substep of
`_apply_action`, `Finish` the rest of `step` with `_reset_idx` in it, `Save` and `Restart` the
checkpoint and a cold start. An action is named by the interval in which it was issued, so the
rings can be compared with the age their lag promises. `device` says whether the run delays
actions by whole intervals or by substeps. `history` is not in the code: it has the tick at which
the epoch and the episode began, and the recoveries a restore has lost.

**`RowBoundary`** is what a row promises the reader of its trajectory: one driver per control
epoch, one epoch per hand-over or reset. `ControlInterval!ImplementsBoundary` is the refinement.

`LearningSession` uses the journal's contract rather than its module: it keeps counters where the
journal has event files. `TrainingQueue` models the older session of `research/session.py`, in
which the controller itself is the parent that witnesses the exit.

## Runs and bounds

All bounds are constants of a cfg. Passing runs:

| run | instance | distinct states | shows |
|---|---|---|---|
| `journal_budget` | 3 journals in one lineage, 2 stages, budget 3, rollouts of size 1, depth 2, 7 events to be reopened, a clock of two values | 132,226 | checkpoints bind to durable state, executed work fits reservations, every failure can be recovered from, the non-refundable budget is implemented |
| `session_attempt` | 1 attempt, budget 1, 3 commands, 1 reboot, fairness | 361,980 | no live process is missed, a pause holds, a stop ends the attempt, a pause can be left |
| `session_restarts` | 2 attempts, budget 2, 1 command each | 418,758 | one attempt at a time, nothing is replayed, work is charged, clean endpoints load |
| `curriculum` | budgets 6, 2, 1, four checkpoints, 8 decisions, both promotion rules | 34,671 | restore, conservation, stages earned |
| `jump_requests` | ids 0 and 1, timeout 5, other times 1 or 2 | 62,213 | no replay, payment, fresh automatic ids |
| `stair_requests` | ids 0 and 1, two risers, latency 1, timeout 2 | 5,868 | agreement of request and mode, trigger |
| `publication` | three calls, three names, different orders | 15,785 | markers, roll-back, rivals |
| `training_queue` | one cell of 2 updates, one window of 1 step, 2 controllers, 2 commands, 1 kill, fairness | 1,112,444 | evidence, one worker, no repetition, pause, stop |
| `control_interval` | ring of 3, lags 0 to 2, 2 substeps, latch lags 0 and 1, limits 1 and 2, 3 intervals, 1 restart | 166,339 | age of actions, epoch of torques, balance and bound of recoveries, row boundary |
| `learning_campaign` | 2 cells of 3 updates, 1 seed, 2 attempts, 2 controllers, 1 fault, fairness | 355,934 | audit, one worker, exact resume, one evaluation, ledger, end of a run |

Runs that find a violation: `session_endpoint_race` and `queue_stop`, see [Findings](#findings).

Why they are enough:

- *Journal*: three journals are a run, a fork and a fork of a fork, the first at which inherited
  history is itself checked for inheritance; journals that do not descend from one another share
  nothing, which `OneLineage` uses. A budget of three rollouts lets each of them lose one. Sizes of
  1 make every partial count (0 or all) possible. `MaxEvents` bounds boundaries only, and
  `NoRepeats` leaves out a boundary equal to the event before it. `OneClock` lets time pass in the
  original run only: a fork treats the clock it inherits as it treats its own. The code's
  `EventLimit` is 3 times the target and 10,000 more; seven is less than the eight events a journal
  of the instance can have, so that there are failed journals behind the limit.
- *Session*: one attempt with three commands has pause, resume, pause and pause, resume, stop; two
  attempts have every restart, since a third sees only the second's files. `Restarts` leaves out
  what `session_attempt` explores without it: stale reads of `status()` and pauses of the second
  attempt.
- *Curriculum*: a first stage of 6 has a quarter boundary at 2, room for a full set of four
  candidates before and at its end, and two promotions behind it; under exposure the same stages
  have an entry checkpoint each. Eight decisions are what three stages can need at most.
- *Jump*: a timeout of five leaves room for protection, flight, landing and verification of one
  jump and for a second request while the first is verified. Two ids, because every id is compared
  with the highest seen only.
- *Stair*: the timeouts keep the order of the configuration (hold, stair limit, request timeout,
  body bump limit); two risers are needed for a stale submission, two ids for a replay; risers are
  symmetric.
- *Queue*: two updates make a boundary at which work lies before and behind it; the second
  controller is every restart, since a third has only the same files to go by; two commands make
  a pause and its end or its overtaking by a stop. Larger instances were explored once without
  error: two cells, three controllers, two kills (1.1 to 2.7 million states each).
- *Interval*: a lag of two needs three slots and is longer than a preparation, so that an old action
  would survive a hand-over and a reset; three intervals hold a preparation with its recovery or a
  reset, and a restart after either. Explored once without error beyond that: four intervals with
  preparations of two (860,000 states).
- *Campaign*: three updates can be done in two attempts with a short rollout in one; the second
  controller finds whatever the first has left at any step; two cells, because evaluating one and
  training the other must not overlap. Explored once without error beyond that: three controllers
  with a kill and a signal, and one cell with two seeds and two kills.
- *Publication*: a set, a rival with the same names in another order and one more, and a single
  file that is the other's marker.

Deadlock is not checked where a system may really stop: a journal may be full, a session or a
queue finished, a campaign's runs used up, all publications done, the last interval reached. It is
checked for the curriculum (it can always save), jump and stair runs.

**Fairness** is assumed in three runs (their safety properties do not need it).
`session_attempt`: weak fairness of the steps of each supervisor and each learner. A running
process keeps running; the supervisor blocks in `wait` and the paused learner polls in a loop of
100 ms sleeps. `training_queue`: weak fairness of the controller, of the learner and of the
evaluator, each a loop of its own with sleeps of 100 or 200 ms; the resource gate need never open
(`WaitForResources` may go on waiting). `learning_campaign`: weak fairness of the controller and
of the workers. Nothing obliges a frontend to send a command, a signal to arrive, a fault to happen
or a worker to finish by itself before its time is up, and no strong fairness is used.

## Proofs

| module | theorems | argument |
|---|---|---|
| `BudgetProofs`, journal | `TypeCorrect`, `BoundaryCorrect`, `WorkFits`, `NothingIsRefunded`, `FailureStaysFinal`, `Implements`, `FailuresAreRecoverable` | a writer that is open and not faulted either knows the whole chain or is behind it and cannot append; every state of a chain, also an old one, keeps its counters within its reservations; a step only appends; `HistoryInv`: see below |
| `BudgetProofs`, curriculum | `ScheduleTypeCorrect`, `StagesEarned`, `SchedulesLoad`, `BudgetConserved` | `Accountable` of the live and of the saved schedule: see below |
| `JumpRequestsProofs` | `TypeCorrect`, `ChannelCorrect`, `AutomaticIdsNew`, `NeverReplayed`, `PaymentEarned` | `Inv`: both records typed, pacing of gap and ages, the watermark above all ids, and every id the channel holds submitted, not spoiled, not paid; also of the saved state |
| `StairRequestsProofs` | `TypeCorrect`, `SkillFollows`, `OneSkill`, `TriggerHears`, `SubmissionsAccepted`, `CheckpointsLoad`, `NoneAhead` | `Inv`: request and mode have the same class and age, the trigger is armed, waiting or has an active request, the riser in front is the one last requested and not cleared |
| `ControlIntervalProofs` | `TypeCorrect`, `RecoveryBalances`, `BoundaryIsImplemented`, `RecoveryEnds`, `ActionsAreOnTime`, `TorqueIsOurs` | `BooksBalance` of the live and the saved counters; `RecoveryClock`: the clocks of script and recovery together are the time since birth; `IInv`: slot by slot, the ring holds the action issued that many intervals ago if this epoch is old enough and the neutral one otherwise, and what link and latch hold is of this epoch or empty |
| `TrainingQueueProofs` | `TypeCorrect`, `OneWorkerAtATimeHolds`, `NothingIsRepeatedHolds`, `ResultsAreEvidencedHolds`, `PauseHoldsAlways` | `Invariant`, one part per party: see below |
| `LearningSessionProofs` | `TypeCorrect`, `LeaseIsExclusive`, `LearnersAreSeen`, `WeightsFollowTheJournal`, `BudgetCoversWork`, `LoopHasBudget`, `PauseIsKept`, `EndpointLoads` | `Invariant`: see below |
| `LearningCampaignProofs` | `TypeCorrect`, `WorkersAreAlone`, `AttemptsResume`, `EvaluationsAreFinal`, `AuditsAreConservative`, `LedgerIsImplemented` | `Inv`: see below |
| `FilePublicationProofs` | `TypeCorrect`, `MarkersComplete`, `NothingLeft`, `RivalsSafe` | `Held`: a file a publisher counts on is its own or replaced by a foreign writer, and no other publisher is about to unlink that name; a name about to be unlinked is held in the same sense |

The theorems hold for every value of the constants under the named assumptions of the modules
(`BudgetAssumption`, `TimingAssumption`, `ContentsAssumption` and so on), which TLC evaluates in
every run. `TimingAssumption` states what the configurations of the code satisfy: in
`JumpRequests`, that a timeout leaves room for landing and cancel protection; in `StairRequests`,
the order of the time limits.

The properties alone are not inductive. `PaymentIsEarned`, for example, needs that the id in the
channel was submitted and is neither spoiled nor paid, also in the saved checkpoint, and that an
active request was submitted after everything seen before; `MarkerIsComplete` needs to know who
may be unlinking what. Each `Inv` was checked by TLC before it was proved.

The invariant of the queue is the longest, because what one process does there is right only by
what another has left in files. It holds for any number of controllers, commands and kills:

- `WorkersAreSane`: what the files of one worker agree on by themselves. A receipt is written only
  for a process that has ended, a seal only over a receipt, and a worker that still works under a
  pause has not acknowledged it.
- `WorkerIsThere` and `Situated`: what the controller relies on at each place of `run`, also while it
  waits in a boundary (`Site` is where it will go on).
- `LiveAreAwaited` and `LiveAreLone`: a live worker beside a live controller is the one this
  controller polls. This is where the inherited lease enters: only `StartSpawn` brings a controller
  to life, and the lease it takes is free only when no worker lives.
- `SessionsAreLinked`: each attempt begins where the one before it ended, no update lies ahead of the
  last attempt, and attempts whose controller died before `current.json` named them did nothing.
- `Evidence`: what stands in `results.json` is backed, and how far the controller has come in sealing
  the evidence of the row it will write next.
- `PausesAreKept`: a published state, also the snapshot that `start` will write back, acknowledges the
  present request only if all workers are quiet, and what the controller has read and its worker has
  been told is no newer than the request.

The invariant of the session is built the same way, one part per question (`LearningSessionProofs`):

- `Numbered`: the attempts prepared so far come first, so `Generation` names one nothing has happened
  in.
- `Leased`: a process that holds the lease is of the current attempt and of this boot; a `start` that
  owns it, until it has spawned, is beside nobody. `OneAttemptAtATime` and `NoHiddenProcess` follow:
  what a frontend has read may be stale, but the attempt it read of is the only one that can be alive.
- `Heeded`: acknowledged, read and written sequence are in this order, and equal sequences name equal
  operations; a learner that works last read "resume". This is `PauseHolds`.
- `Accounted`: at most one rollout is charged and not trained, and it is pending or failed; the
  weights of a learner in its loop are those of the journal, whose budget is not spent while it may
  still collect.
- `Committed`: the snapshot and the result of the current attempt agree with each other and, once the
  snapshot is saved, with the journal, which then stands still; an attempt that has not begun finds
  its predecessor as `start` left it. It carries `Accounted` over a cold resume and gives
  `CleanEndpointLoads`.

The steps are proved in that order: first what a process leaves alone (`LearnerFrame`,
`SupervisorFrame`), which settles all attempts but its own, then each part for its own attempt.

The invariant of the campaign (`LearningCampaignProofs`) speaks of files, since they are all the
next controller has:

- `JobsAreSane`: what the files of one job agree on. An unrequested job is untouched, a live worker
  has a record, a receipt charges an endpoint for its rows and everything else for all it reserved.
- `ChainsAreLinked`: an attempt is made behind resumable attempts only and asks for what they left.
- `EvaluationsAreDue`: only a trained cell is evaluated, in the first directory of a seed.
- `JobIsCurrent` and `ProgressIsReal`: what the controller relies on at each place; what it counts as
  completed is what the attempts behind it did.
- `LaunchIsLone`: at most one launch is unresolved, and none where a controller is about to start one.

The argument is that a step changes the files of one job at most, in one of six ways (`JobStep`),
that none of these ways applies to a sealed endpoint (`EndpointIsFinal`), and that the controller only
makes a few kinds of moves (`NextIsMove`). So all but the last attempt of a chain stand still, and
the sums over a cell split into those before the last attempt, which do not change, and its own
files (`LedgerOfLast`, `LedgerOfLastAfter`). With that each step of an attempt is a step of
`ReservationLedger` (`AttemptMoves`): the request reserves, a row works, and a receipt settles or
forfeits. It is also how the audit is shown to charge enough: `Deciding` is the last attempt.

`FailuresAreRecoverable` says that the validation of a fork (`RecoveryAccepted`, twenty conditions
over two journals or more) never refuses a history the writers produced, as long as the journal
has at most `EventLimit` events; a longer one is refused at the open already. `HistoryInv` has what it
needs: each summary accounts for itself (`Account`: its reservations add up over the stages, the
work it kept and the work it inherited as lost each fit them), two summaries of a journal follow
each other (`Follows`: the work between them fits the reservations between them, and a failure
behind a clean point has spent at least one more), and a fork's source is a failed journal whose
end it still covers (`Inherits`). Since nothing is appended behind a failure, what a fork inherited
stays put (`InheritanceStays`).

`SchedulesLoad` says that the replay in `load_state_dict` rebuilds every schedule exactly. Its
invariant has four parts: `FewDecisions` (at most four about each stage but the last, so never more
than a load admits under `DecisionsAssumption`), `SoundSchedule` (typed, earned, and if the run of passes is one, the last
decision is a pass about the current stage), `Conserving` (the sums over the stages, from which
`BudgetConserved` follows) and `Replayable`: the schedule is the one its decisions, then the
rollouts since the last of them, replay to, or that one prepared for its next stage. A decision is
replayed at the update it was taken at because decisions are about later and later updates
(`DecisionIsLater`).

Sums (`SumFunction`, `MapThenSumSet`) and replays (`FoldLeft`) are recursive functions of the
community modules. What they compute is not proved by the library's induction theorems, which the
provers cannot instantiate, but from a smallest counterexample: a smallest set, or shortest history,
on which two solutions of the recursion differ or none exists (`SumExists`, `SumsAgree`,
`ReplayExists`, `ReplaysAgree`), which `WFMin` provides. From these follow the few facts the proofs
use, for instance that changing one summand changes the sum by the same amount (`SumChange`).

Some properties have a theorem and no run of their own, because the proof says more than a run
would: every `TypeOK`, `NeverRefunded` and `FailureIsFinal` of the journal,
`Roomy` of the session (its learner never waits in `Reserve`), `ChannelFollowsProtocol` of the jumps, `OneSkillAtATime`, `SubmissionsAreAccepted` and
`EveryCheckpointLoads` of the stairs.

**Only model-checked**:

- liveness (`StopEndsAttempt`, `PauseEnds`, `StopEnds`, `RunEnds`): the prover does not handle
  fairness;
- what a run finds violated (`StopIsNotAFailure`, `EndpointIsCommitted`): there is
  nothing to prove.

## Findings

Two runs find a documented claim violated; the quotes are in `PROJECT.json`.

| run | what the code does |
|---|---|
| `session_endpoint_race` | the sequence is read once for the final snapshot and once for the result; a command in between makes a committed endpoint that the next attempt refuses to load |
| `queue_stop` | a stop ends the learner with exit code 2, for which `status()` says "failed"; the branch that would publish "stopped" is never reached and a verified stop is published as a failure |

The first has a passing counterpart, `CleanEndpointLoads`: apart from that race every clean
receipt loads.

Behaviours of the models that contradict a comment or a document, often in weaker ways; they have
no run of their own:

- A jump request accepted while the last jump, ended as ESTIMATED_COMPLETE, still awaits physical
  verification overwrites its record (`course_tasks.py:530`), and that jump is counted under none of
  the outcomes `docs/DEVELOPMENT.md:62` lists. In `JumpRequests`, a `Boundary` between two `Observe`.
- A stair packet replaces the cancel of every row (`terrain.py:567-568`), so a cancel of the active
  request given in the same boundary is lost, although `docs/DEVELOPMENT.md:60` says it releases the
  mode in that boundary. In `StairRequests`, `CancelRequest` and then `Boundary` with a packet.
- A boundary at which the robot stands has no beam and counts as having lost the riser
  (`stair_trigger.py:163`), so a robot that failed, stood and moves again requests the same riser in
  place, against `stair_trigger.py:19-21`. `NoRetriggerAhead` states what does hold.
- `RecoveryLifecycle` saves its counters without the episodes that are open
  (`recovery_lifecycle.py:167-169`): after a cold restore births exceed ends by these.
  `RecoveryBalance` counts them as `history.lost`.
- A zero-update stop of a resumed attempt passes the check of `training_queue.py:219`, which looks at
  the cumulative update, and is then refused by the verifier for ever.
- `start` of the queue may overwrite what the controller it has spawned published already
  (`training_queue.py:205-207`).
- `start` of the queue also begins the request sequence at 0 again (`training_queue.py:193`) and
  leaves the previous controller's acknowledgement in `state.json` until the new one publishes its
  own. `command()` compares the two numbers only (`:230`), so a pause or resume with a wait may
  return as acknowledged at once, before anybody has acted on it. In `TrainingQueue`, `StartSpawn`
  and then `CommandWrite` with `state.ack` left from before; `PauseHolds` excepts it by `state.by`
  and speaks of what the running controller has acknowledged.
- The writer of a journal does not know the limit on events that the open and the recovery enforce
  (`accounting.py:106`, `:158`): boundaries recorded beyond it make a journal that can be neither
  opened nor forked. `EveryFailureIsRecoverable` excepts it. It takes some 10,000 boundaries more
  than one for each rollout.
- A signal between `Popen` and the first `process_start` of a campaign's worker raises RuntimeError
  in `terminate_owned` (`tools/run_frame_control_campaign.py:211-212`) in place of the interruption:
  the worker stays, its record says launching, and the summary keeps its last status
  (`InterruptRegister`).
- A SIGINT inside `Popen` leaves a learner recorded as launch_failed
  (`tools/run_learning_campaign.py:608-615`); `OneWorkerAtATime` of the campaign excepts exactly this
  child.
- `status()` reads `result.json` (`training_control.py:202`) before `exit.json` (`:209`): an attempt
  that commits and exits in between is reported once as failed without an endpoint. In
  `LearningSession`, `ReadStatus` and `Report` with the learner's last steps between them.
- A paused learner compares only the operation of the request (`training_control.py:347`): resume
  and pause inside one polling interval leave the second pause unacknowledged while it lasts. In
  `LearningSession`, two `Command` steps between two `Poll` steps.
- A stair packet in the same boundary also replaces a manual request (`terrain.py:565-566`), whose id
  is then cleared unconsumed although `terrain.py:351` says it is consumed.
- The roll-back compares the inode of a name and removes the name in two calls
  (`artifacts.py:59-62`), so a foreign file renamed over it in between is removed. It takes a writer
  the repository does not have: competing publishers are safe, which `RivalsSafe` proves.

Not visible in a model: `ActorUpdateHealth` says a critic-only streak "must terminate the session"
(`formal/learning/loop.py:30-35`), but `require_healthy` is called by a test only. And a request of
exactly the lowest stair height is accepted by the protocol and ignored by the mode
(`skill_fsm.py:195`), which blocks the row until the timeout: `SkillFollowsRequest` states it as it
is.

## What is not modelled

- Numerics: policies, optimizer, rewards, physics, terrain and sensor geometry. Where a model
  needs a number of theirs it chooses among the classes the code distinguishes.
- In `LearningSession`: `create()` and the source pins, checks that bind files to tokens (a file
  is indexed by its attempt instead), the contents of checkpoints.
- In `LearningJournal`: the temporaries a killed writer leaves among the events, which the open
  counts against its limit too (`accounting.py:105-110`).
- In `CurriculumBudget`: the samplers that share the file.
- In `JumpRequests`: two packets at once, heights other than valid or not; `INVALID_CLOCK`, which
  cannot occur because the environment's clock advances at each boundary.
- In `StairRequests`: the statistics and the speed and height commands of a mode; an abort in a
  packet is one with an estimate that is not ready, which the code treats the same.
- In `FilePublication`: loss of power, after which the order of directory entries is the file
  system's.
- In `TrainingQueue`: `adopt` and the pins (a start refuses when one differs), a changed boot (every
  operation then refuses), the numeric predicates of the frozen verifier beyond the one that a model
  can tell apart (an endpoint without updates), signals to a learner (see `LearningSession`).
- In `LearningCampaign`: how the grid, its inputs and its sources are frozen and verified again
  (any such check failing is `Fail`), GPU and memory figures beyond ready or not.
- In `ControlInterval`: observation delays, whose interpolation is numeric, bounds and torque law,
  the pools and collision checks of births, jump and stair modes (their own modules), rewards.
- The other campaign drivers of `research/` and `tools/`, which repeat the same pattern over
  other studies.
- All parts marked `not_modelled` in `PROJECT.json`, with their reasons there.

About 6 % of the package's 64,566 lines are mapped. Most of the rest is numeric or geometric code,
report writers, verification of frozen inputs line by line, and study drivers of which the models
here show one instance each; none of it has interleavings or failures that the models do not have.

## Plan

*Done*: journal and its abstract budget, session, curriculum schedule, jump requests, stair
requests, publication, research queue with evaluation control, control interval with its row
boundary, learning campaign with its ledger; theorems as listed.

What would come next:

1. `SkillModes`: `JumpFSM`, `StairFSM.step` and their arbitration without a course. Exclusion,
   exits, the missing timeout of SETTLE as a liveness question.
2. `RecoveryFork` and `CheckpointStore`: `prepare_failed_recovery`, `load_recovery` and
   `transition.py` over the journal; a crash between any two files; two forks of one failure.
3. `ResetCoordinator` with its pools and freezes; observation delays.
4. Compositions: `LearningSession` with `LearningJournal` instead of its counters; `JumpRequests`
   with `StairRequests`, sharing one boundary, instead of one bit each.
5. Proofs: every safety property that a run checks has a theorem; the compositions of 4 would bring
   new ones.
