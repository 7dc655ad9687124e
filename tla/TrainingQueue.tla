--------------------------- MODULE TrainingQueue ---------------------------
(***************************************************************************)
(* The research queue (research/training_queue.py with                     *)
(* training_queue_validation.py and research/session.py): a detached       *)
(* controller that trains and evaluates the pending cells of a study one   *)
(* after the other, each in a worker process of its own, under the orders  *)
(* of frontends that only share files with it.                             *)
(*                                                                         *)
(* Everything durable is one variable per file or directory: request.json, *)
(* state.json, results.json, controller.json, the attempts of each cell's  *)
(* session and the evaluation directories.  Every process may be killed    *)
(* between any two of its writes.  The queue's lease is an flock inherited *)
(* by every process the controller starts.                                 *)
(*                                                                         *)
(* Left out: the pins checked at a start, a changed boot (every operation  *)
(* then refuses), commands sent to a session behind the queue's back,      *)
(* signals and the time budget of a learner (see LearningSession).         *)
(***************************************************************************)
EXTENDS Integers, Sequences, FiniteSets

Sets == INSTANCE FiniteSetsExt

CONSTANTS
  Cells,           (* the pending cells, in the order of the plan          *)
  Seeds,           (* development_seeds, in their order                    *)
  Updates,         (* the full-cell endpoint, 1200 in the code             *)
  Steps,           (* the steps of an evaluation window                    *)
  MaxStarts,       (* bound: controllers started                           *)
  MaxCommands,     (* bound: commands sent                                 *)
  MaxKills         (* bound: processes killed                              *)

CellSet == {Cells[i] : i \in DOMAIN Cells}
SeedSet == {Seeds[i] : i \in DOMAIN Seeds}

ASSUME QueueAssumption ==
  /\ Cells \in Seq(CellSet) /\ Seeds \in Seq(SeedSet)
  /\ \A i, j \in DOMAIN Cells : Cells[i] = Cells[j] => i = j
  /\ \A i, j \in DOMAIN Seeds : Seeds[i] = Seeds[j] => i = j
  /\ {Updates, Steps} \subseteq Nat \ {0}

VARIABLES
  request,         (* request.json: operation and sequence                 *)
  state,           (* state.json, with the generation whose ack it shows   *)
  results,         (* results.json: one row per cell                       *)
  receipt,         (* controller.json: the generation it names, 0 if none  *)
  controller,      (* the controller process                               *)
  frontend,        (* the frontend that holds command.lock                 *)
  attempts,        (* the attempts of each cell's session                  *)
  windows,         (* the evaluation directory of each cell and seed       *)
  commands,        (* how many commands were sent                          *)
  kills            (* how many processes were killed                       *)

vars == <<request, state, results, receipt, controller, frontend, attempts,
          windows, commands, kills>>

bounds == <<commands, kills>>

------------------------------------------------------------------------------
(* Workers.  A worker's files: control/request.json (operation, sequence),  *)
(* status.json (ack, update), result.json (result), exit.json (receipt) and *)
(* for training worker.process.json and research_validation.json.           *)

Operations == {"pause", "resume", "stop"}

(* A directory whose worker was not started yet.                            *)
Unborn(from) ==
  [from |-> from, by |-> 0, current |-> FALSE, alive |-> FALSE, at |-> "unborn",
   operation |-> "resume", sequence |-> 0, ack |-> -1, update |-> from,
   result |-> "none", code |-> "none", receipt |-> FALSE,
   process |-> FALSE, sealed |-> FALSE]

Absent == [Unborn(0) EXCEPT !.at = "absent"]

Born(worker, generation) ==
  [worker EXCEPT !.alive = TRUE, !.at = "boundary", !.by = generation]

(* TrainingControl.boundary of the learner between two updates.             *)
AtTrainingBoundary(w) ==
  IF w.update = Updates \/ w.operation = "stop" THEN [w EXCEPT !.at = "ending"]
  ELSE [w EXCEPT !.at = IF w.operation = "pause" THEN "paused" ELSE "work",
                 !.ack = w.sequence]

(* EvaluationControl.boundary: a stop waits for the end of the window.      *)
AtWindowBoundary(w) ==
  IF w.update = Steps THEN [w EXCEPT !.at = "ending"]
  ELSE [w EXCEPT !.at = IF w.operation = "pause" THEN "paused" ELSE "work",
                 !.ack = IF w.operation = "stop" THEN @ ELSE w.sequence]

Worked(w) == [w EXCEPT !.update = @ + 1, !.at = "boundary"]

(* finish: the result is committed with whatever command is current.        *)
Finished(w, full) ==
  [w EXCEPT !.at = "closing", !.ack = w.sequence,
            !.result = IF w.update = full THEN "completed" ELSE "stopped"]

(* The process ends: 0 when completed, 2 when stopped.                      *)
Exited(w) ==
  [w EXCEPT !.alive = FALSE, !.at = "ended",
            !.code = IF w.result = "completed" THEN "0" ELSE "2"]

Killed(w) == [w EXCEPT !.alive = FALSE, !.at = "ended", !.code = "other"]

(* Mutant: a paused worker no longer looks at its command.                  *)
CanStepUnlessPaused(w) == w.alive /\ w.at # "paused"

(* One step of a live worker, once its boundary is resolved.  A paused one   *)
(* only looks at its command.                                               *)
CanStep(w) == w.alive /\ ~(w.at = "paused" /\ w.operation = "pause")

Stepped(w, bounded, full) ==
  IF w.at \in {"boundary", "paused"} THEN bounded
  ELSE IF w.at = "work" THEN Worked(w)
  ELSE IF w.at = "ending" THEN Finished(w, full)
  ELSE Exited(w)

------------------------------------------------------------------------------
(* Views of the files *)

Attempts == UNION {{attempts[c][i] : i \in DOMAIN attempts[c]} : c \in CellSet}
Windows == {windows[c][s] : c \in CellSet, s \in SeedSet}

LiveAttempts ==
  UNION {{<<c, i>> : i \in {j \in DOMAIN attempts[c] : attempts[c][j].alive}} : c \in CellSet}

LiveWindows == {p \in CellSet \X SeedSet : windows[p[1]][p[2]].alive}

LiveWorkers == LiveAttempts \cup LiveWindows

(* Mutant: the lease is not passed on to the workers.                       *)
LeaseOfControllerOnly == controller.alive \/ frontend.pc \in {"spawned", "registered"}

LeaseIsHeld ==
  \/ controller.alive
  \/ frontend.pc \in {"spawned", "registered"}
  \/ LiveWorkers # {}

(* status()["active"]: a controller was registered and the lease is held.   *)
Active == receipt # 0 /\ LeaseIsHeld

(* The attempt current.json names, 0 if none.                               *)
CurrentAttempt(c) ==
  LET named == {i \in DOMAIN attempts[c] : attempts[c][i].current}
  IN IF named = {} THEN 0 ELSE Sets!Max(named)

WorkerPhase(w) == IF w.at = "paused" THEN "paused" ELSE "running"

(* ManagedSession.status()["phase"].                                        *)
SessionPhase(c) ==
  IF CurrentAttempt(c) = 0 THEN "ready"
  ELSE LET w == attempts[c][CurrentAttempt(c)]
       IN IF w.receipt THEN IF w.code = "0" THEN w.result ELSE "failed"
          ELSE IF w.alive THEN IF w.result = "none" THEN WorkerPhase(w) ELSE "closing"
          ELSE IF w.result # "none" THEN w.result ELSE "interrupted"

Cell == Cells[controller.cell]
Seed == Seeds[controller.seed]
Attempt == attempts[Cell][Len(attempts[Cell])]
Window == windows[Cell][Seed]

SetAttempt(w) == attempts' = [attempts EXCEPT ![Cell][Len(attempts[Cell])] = w]
SetWindow(w) == windows' = [windows EXCEPT ![Cell][Seed] = w]

------------------------------------------------------------------------------
(* Initially: adopt has written an empty queue.                             *)

Nobody == [alive |-> FALSE, gen |-> 0, pc |-> "none", then |-> "none", cell |-> 0,
           seed |-> 0, index |-> 0, operation |-> "resume", sequence |-> 0]

Idle == [pc |-> "idle", operation |-> "none", snapshot |-> "none"]

Init ==
  /\ request = [operation |-> "resume", sequence |-> -1]
  /\ state = [phase |-> "ready", ack |-> -1, by |-> 0, stage |-> "none", update |-> 0]
  /\ results = [c \in CellSet |-> [status |-> "not_started",
                                   development |-> [s \in SeedSet |-> FALSE]]]
  /\ receipt = 0
  /\ controller = Nobody
  /\ frontend = Idle
  /\ attempts = [c \in CellSet |-> <<>>]
  /\ windows = [c \in CellSet |-> [s \in SeedSet |-> Absent]]
  /\ commands = 0 /\ kills = 0

------------------------------------------------------------------------------
(* Frontends.  command.lock serialises them; the controller never takes it. *)

(* start: the lease, request.json from sequence 0, the process.             *)
StartSpawn ==
  \E operation \in {"pause", "resume"} :
    /\ frontend.pc = "idle" /\ ~Active /\ ~LeaseIsHeld
    /\ controller.gen < MaxStarts
    /\ request' = [operation |-> operation, sequence |-> 0]
    /\ controller' = [Nobody EXCEPT !.alive = TRUE, !.gen = controller.gen + 1,
                                    !.pc = "resources", !.cell = 1]
    /\ frontend' = [Idle EXCEPT !.pc = "spawned"]
    /\ UNCHANGED <<state, results, receipt, attempts, windows, bounds>>

(* controller.json is written and state.json read; a controller that is     *)
(* already gone is not registered.                                          *)
StartRegister ==
  /\ frontend.pc = "spawned"
  /\ IF controller.alive
     THEN /\ receipt' = controller.gen
          /\ frontend' = [Idle EXCEPT !.pc = "registered", !.snapshot = state]
     ELSE frontend' = Idle /\ UNCHANGED receipt
  /\ UNCHANGED <<request, state, results, controller, attempts, windows, bounds>>

(* state.json is written back with phase "starting", over whatever the      *)
(* controller has published since.                                          *)
StartWrite ==
  /\ frontend.pc = "registered"
  /\ state' = [frontend.snapshot EXCEPT !.phase = "starting"]
  /\ frontend' = Idle
  /\ UNCHANGED <<request, results, receipt, controller, attempts, windows, bounds>>

(* command: the checks, on a status() that may be old when the request is   *)
(* written.                                                                 *)
CommandCheck ==
  \E operation \in Operations :
    /\ frontend.pc = "idle" /\ Active
    /\ ~(operation = "stop" /\ state.stage = "training" /\ state.update = 0)
    /\ ~(request.operation = "stop" /\ operation # "stop")
    /\ request.operation # operation /\ commands < MaxCommands
    /\ frontend' = [Idle EXCEPT !.pc = "commanding", !.operation = operation]
    /\ UNCHANGED <<request, state, results, receipt, controller, attempts, windows, bounds>>

CommandWrite ==
  /\ frontend.pc = "commanding"
  /\ request' = [operation |-> frontend.operation, sequence |-> request.sequence + 1]
  /\ commands' = commands + 1
  /\ frontend' = Idle
  /\ UNCHANGED <<state, results, receipt, controller, attempts, windows, kills>>

------------------------------------------------------------------------------
(* The controller *)

At(pc) == controller.alive /\ controller.pc = pc

Goto(pc) == controller' = [controller EXCEPT !.pc = pc]

BoundaryThen(pc) == controller' = [controller EXCEPT !.pc = "boundary", !.then = pc]

Exits == controller' = [Nobody EXCEPT !.gen = controller.gen]

Acknowledged(s, sequence) == [s EXCEPT !.ack = sequence, !.by = controller.gen]

ReadRequest(pc) ==
  controller' = [controller EXCEPT !.pc = pc, !.operation = request.operation,
                                   !.sequence = request.sequence]

(* _boundary reads the request, ...                                         *)
BoundaryRead ==
  /\ At("boundary")
  /\ ReadRequest("decide")
  /\ UNCHANGED <<request, state, results, receipt, frontend, attempts, windows, bounds>>

(* ... publishes its answer, and looks again while it is a pause.           *)
BoundaryDecide ==
  /\ At("decide")
  /\ LET answered == Acknowledged(state, controller.sequence)
     IN \/ /\ controller.operation = "pause"
           /\ state' = [answered EXCEPT !.phase = "paused", !.update = 0]
           /\ Goto("boundary")
        \/ /\ controller.operation = "stop"
           /\ state' = [answered EXCEPT !.phase = "stopped"]
           /\ Exits
        \/ /\ controller.operation = "resume"
           /\ state' = answered
           /\ Goto(controller.then)
  /\ UNCHANGED <<request, results, receipt, frontend, attempts, windows, bounds>>

(* run: the resource gate is looked at again after every boundary.          *)
WaitForResources ==
  /\ At("resources")
  /\ \/ Goto("select") /\ UNCHANGED state
     \/ /\ state' = [state EXCEPT !.phase = "waiting_resources", !.update = 0]
        /\ BoundaryThen("resources")
  /\ UNCHANGED <<request, results, receipt, frontend, attempts, windows, bounds>>

(* The next cell that is not completed, or the end of the queue.            *)
SelectCell ==
  /\ At("select")
  /\ LET open == {i \in controller.cell..Len(Cells) : results[Cells[i]].status # "completed"}
     IN IF open = {}
        THEN /\ state' = [state EXCEPT !.phase = "incomplete", !.stage = "none", !.update = 0]
             /\ Exits
        ELSE \E i \in open :
               /\ \A j \in open : i <= j
               /\ controller' = [controller EXCEPT !.cell = i, !.pc = "boundary",
                                                   !.then = "open"]
               /\ UNCHANGED state
  /\ UNCHANGED <<request, results, receipt, frontend, attempts, windows, bounds>>

OpenCell ==
  /\ At("open")
  /\ state' = [state EXCEPT !.phase = "training", !.stage = "training", !.update = 0]
  /\ results' = [results EXCEPT ![Cell].status = IF @ = "not_started" THEN "training" ELSE @]
  /\ IF SessionPhase(Cell) = "completed"
     THEN controller' = [controller EXCEPT !.pc = "validate", !.index = 1]
     ELSE BoundaryThen("launch")
  /\ UNCHANGED <<request, receipt, frontend, attempts, windows, bounds>>

(* session.start: only the first attempt or one with a stopped predecessor. *)
Resumable(c) ==
  CurrentAttempt(c) # 0 => attempts[c][CurrentAttempt(c)].result = "stopped"

StartUpdate(c) ==
  IF CurrentAttempt(c) = 0 THEN 0 ELSE attempts[c][CurrentAttempt(c)].update

(* The attempt directory with its request, then current.json, then the      *)
(* process.                                                                 *)
PrepareAttempt ==
  /\ At("launch")
  /\ IF Resumable(Cell)
     THEN /\ attempts' = [attempts EXCEPT ![Cell] = Append(@, Unborn(StartUpdate(Cell)))]
          /\ Goto("point")
     ELSE Goto("fail") /\ UNCHANGED attempts
  /\ UNCHANGED <<request, state, results, receipt, frontend, windows, bounds>>

PointAttempt ==
  /\ At("point")
  /\ SetAttempt([Attempt EXCEPT !.current = TRUE])
  /\ Goto("spawn")
  /\ UNCHANGED <<request, state, results, receipt, frontend, windows, bounds>>

SpawnAttempt ==
  /\ At("spawn")
  /\ SetAttempt(Born(Attempt, controller.gen))
  /\ Goto("poll")
  /\ UNCHANGED <<request, state, results, receipt, frontend, windows, bounds>>

(* The loop of _wait_training: is the child alive, and what is requested?   *)
PollAttempt ==
  /\ At("poll")
  /\ IF Attempt.alive THEN ReadRequest("forward") ELSE Goto("record")
  /\ UNCHANGED <<request, state, results, receipt, frontend, attempts, windows, bounds>>

(* session.command, which raises when the child is gone by now (a stop of a *)
(* session that has its result is the exception).                           *)
ForwardToAttempt ==
  /\ At("forward")
  /\ IF controller.operation = Attempt.operation
     THEN Goto("report") /\ UNCHANGED attempts
     ELSE IF Attempt.alive
     THEN /\ SetAttempt([Attempt EXCEPT !.operation = controller.operation,
                                        !.sequence = @ + 1])
          /\ Goto("report")
     ELSE /\ Goto(IF controller.operation = "stop" /\ Attempt.result # "none"
                  THEN "report" ELSE "fail")
          /\ UNCHANGED attempts
  /\ UNCHANGED <<request, state, results, receipt, frontend, windows, bounds>>

(* Mutant: a command is acknowledged when it is forwarded.                  *)
ReportedAtOnce(s, w) ==
  Acknowledged([s EXCEPT !.phase = WorkerPhase(w), !.update = w.update],
               IF controller.operation # "stop" THEN controller.sequence ELSE -1)

(* The worker's status is published, with an ack once the worker has acted. *)
Reported(s, w) ==
  Acknowledged([s EXCEPT !.phase = WorkerPhase(w), !.update = w.update],
               IF w.ack >= w.sequence /\ controller.operation # "stop"
               THEN controller.sequence ELSE -1)

ReportAttempt ==
  /\ At("report")
  /\ state' = Reported(state, Attempt)
  /\ Goto("poll")
  /\ UNCHANGED <<request, results, receipt, frontend, attempts, windows, bounds>>

(* _record_exit *)
RecordAttempt ==
  /\ At("record")
  /\ SetAttempt([Attempt EXCEPT !.receipt = TRUE])
  /\ controller' = [controller EXCEPT !.pc = "validate", !.index = 1]
  /\ UNCHANGED <<request, state, results, receipt, frontend, windows, bounds>>

(* Mutant: an attempt whose parent left no receipt is accepted.             *)
AcceptableUnwitnessed(w) ==
  /\ \/ w.code = "0" /\ w.result = "completed"
     \/ w.code = "2" /\ w.result = "stopped"
  /\ ~w.process

(* validate_training up to its exclusive write of worker.process.json.      *)
Acceptable(w) ==
  /\ w.receipt
  /\ \/ w.code = "0" /\ w.result = "completed"
     \/ w.code = "2" /\ w.result = "stopped"
  /\ ~w.process

Checked == attempts[Cell][controller.index]

ValidateAttempt ==
  /\ At("validate")
  /\ IF controller.index > Len(attempts[Cell])
     THEN Goto("judge") /\ UNCHANGED attempts
     ELSE \/ /\ Checked.sealed
             /\ controller' = [controller EXCEPT !.index = @ + 1]
             /\ UNCHANGED attempts
          \/ /\ ~Checked.sealed /\ Acceptable(Checked)
             /\ attempts' = [attempts EXCEPT ![Cell][controller.index].process = TRUE]
             /\ Goto("verify")
          \/ /\ ~Checked.sealed /\ ~Acceptable(Checked)
             /\ Goto("fail") /\ UNCHANGED attempts
  /\ UNCHANGED <<request, state, results, receipt, frontend, windows, bounds>>

(* The frozen verifier refuses an endpoint without updates; what it accepts *)
(* is sealed.                                                               *)
SealAttempt ==
  /\ At("verify")
  /\ IF Checked.update > Checked.from
     THEN /\ attempts' = [attempts EXCEPT ![Cell][controller.index].sealed = TRUE]
          /\ controller' = [controller EXCEPT !.pc = "validate", !.index = @ + 1]
     ELSE Goto("fail") /\ UNCHANGED attempts
  /\ UNCHANGED <<request, state, results, receipt, frontend, windows, bounds>>

JudgeTraining ==
  /\ At("judge")
  /\ IF SessionPhase(Cell) = "stopped"
     THEN /\ state' = Acknowledged([state EXCEPT !.phase = "stopped",
                                                 !.update = Attempt.update],
                                   request.sequence)
          /\ Exits /\ UNCHANGED results
     ELSE IF SessionPhase(Cell) = "completed" /\ Attempt.update = Updates
     THEN /\ results' = [results EXCEPT ![Cell].status = "evaluating"]
          /\ controller' = [controller EXCEPT !.pc = "seeds", !.seed = 1]
          /\ UNCHANGED state
     ELSE Goto("fail") /\ UNCHANGED <<state, results>>
  /\ UNCHANGED <<request, receipt, frontend, attempts, windows, bounds>>

(* The loop over the development seeds of a trained cell.                   *)
NextSeed ==
  /\ At("seeds")
  /\ IF controller.seed > Len(Seeds)
     THEN /\ results' = [results EXCEPT ![Cell].status = "completed"]
          /\ controller' = [controller EXCEPT !.pc = "select", !.cell = @ + 1]
     ELSE /\ IF results[Cell].development[Seed]
             THEN controller' = [controller EXCEPT !.seed = @ + 1]
             ELSE BoundaryThen("evaluate")
          /\ UNCHANGED results
  /\ UNCHANGED <<request, state, receipt, frontend, attempts, windows, bounds>>

(* Mutant: a window left unsealed is opened again.                          *)
WindowIsUnsealed(w) == ~w.sealed

WindowIsFree(w) == w.at = "absent"

(* _evaluation: a sealed window is taken over, a retained one is refused.   *)
OpenWindow ==
  /\ At("evaluate")
  /\ state' = [state EXCEPT !.phase = "evaluating", !.stage = "evaluating"]
  /\ IF Window.sealed THEN Goto("develop") /\ UNCHANGED windows
     ELSE IF WindowIsFree(Window) THEN SetWindow(Unborn(0)) /\ Goto("window")
     ELSE Goto("fail") /\ UNCHANGED windows
  /\ UNCHANGED <<request, results, receipt, frontend, attempts, bounds>>

SpawnWindow ==
  /\ At("window")
  /\ SetWindow(Born(Window, controller.gen))
  /\ Goto("watch")
  /\ UNCHANGED <<request, state, results, receipt, frontend, attempts, bounds>>

WatchWindow ==
  /\ At("watch")
  /\ IF Window.alive THEN ReadRequest("transmit") ELSE Goto("receive")
  /\ UNCHANGED <<request, state, results, receipt, frontend, attempts, windows, bounds>>

ForwardToWindow ==
  /\ At("transmit")
  /\ IF controller.operation = Window.operation
     THEN UNCHANGED windows
     ELSE SetWindow([Window EXCEPT !.operation = controller.operation, !.sequence = @ + 1])
  /\ Goto("relay")
  /\ UNCHANGED <<request, state, results, receipt, frontend, attempts, bounds>>

ReportWindow ==
  /\ At("relay")
  /\ state' = Reported(state, Window)
  /\ Goto("watch")
  /\ UNCHANGED <<request, results, receipt, frontend, attempts, windows, bounds>>

RecordWindow ==
  /\ At("receive")
  /\ SetWindow([Window EXCEPT !.receipt = TRUE])
  /\ Goto(IF Window.code = "0" THEN "seal" ELSE "fail")
  /\ UNCHANGED <<request, state, results, receipt, frontend, attempts, bounds>>

SealWindow ==
  /\ At("seal")
  /\ SetWindow([Window EXCEPT !.sealed = TRUE])
  /\ Goto("develop")
  /\ UNCHANGED <<request, state, results, receipt, frontend, attempts, bounds>>

FinishSeed ==
  /\ At("develop")
  /\ results' = [results EXCEPT ![Cell].development[Seed] = TRUE]
  /\ controller' = [controller EXCEPT !.pc = "seeds", !.seed = @ + 1]
  /\ UNCHANGED <<request, state, receipt, frontend, attempts, windows, bounds>>

(* Any exception: the error is published and the process leaves.            *)
ControllerFails ==
  /\ At("fail")
  /\ state' = [state EXCEPT !.phase = "failed"]
  /\ Exits
  /\ UNCHANGED <<request, results, receipt, frontend, attempts, windows, bounds>>

ControllerStep ==
  \/ BoundaryRead \/ BoundaryDecide \/ WaitForResources \/ SelectCell \/ OpenCell
  \/ PrepareAttempt \/ PointAttempt \/ SpawnAttempt \/ PollAttempt \/ ForwardToAttempt
  \/ ReportAttempt \/ RecordAttempt \/ ValidateAttempt \/ SealAttempt \/ JudgeTraining
  \/ NextSeed \/ OpenWindow \/ SpawnWindow \/ WatchWindow \/ ForwardToWindow
  \/ ReportWindow \/ RecordWindow \/ SealWindow \/ FinishSeed \/ ControllerFails

------------------------------------------------------------------------------
(* The workers, and the deaths of every process *)

LearnerStep ==
  \E c \in CellSet : \E i \in DOMAIN attempts[c] :
    LET w == attempts[c][i] IN
    /\ CanStep(w)
    /\ attempts' = [attempts EXCEPT ![c][i] = Stepped(w, AtTrainingBoundary(w), Updates)]
    /\ UNCHANGED <<request, state, results, receipt, controller, frontend, windows, bounds>>

EvaluatorStep ==
  \E c \in CellSet, s \in SeedSet :
    LET w == windows[c][s] IN
    /\ CanStep(w)
    /\ windows' = [windows EXCEPT ![c][s] = Stepped(w, AtWindowBoundary(w), Steps)]
    /\ UNCHANGED <<request, state, results, receipt, controller, frontend, attempts, bounds>>

Kill == kills < MaxKills /\ kills' = kills + 1

ControllerKilled ==
  /\ controller.alive /\ Kill
  /\ Exits
  /\ UNCHANGED <<request, state, results, receipt, frontend, attempts, windows, commands>>

FrontendKilled ==
  /\ frontend.pc # "idle" /\ Kill
  /\ frontend' = Idle
  /\ UNCHANGED <<request, state, results, receipt, controller, attempts, windows, commands>>

LearnerKilled ==
  /\ Kill
  /\ \E c \in CellSet : \E i \in DOMAIN attempts[c] :
       /\ attempts[c][i].alive
       /\ attempts' = [attempts EXCEPT ![c][i] = Killed(@)]
  /\ UNCHANGED <<request, state, results, receipt, controller, frontend, windows, commands>>

EvaluatorKilled ==
  /\ Kill
  /\ \E c \in CellSet, s \in SeedSet :
       /\ windows[c][s].alive
       /\ windows' = [windows EXCEPT ![c][s] = Killed(@)]
  /\ UNCHANGED <<request, state, results, receipt, controller, frontend, attempts, commands>>

FrontendStep == StartSpawn \/ StartRegister \/ StartWrite \/ CommandCheck \/ CommandWrite

Next ==
  \/ FrontendStep \/ ControllerStep \/ LearnerStep \/ EvaluatorStep
  \/ ControllerKilled \/ FrontendKilled \/ LearnerKilled \/ EvaluatorKilled

(* The kernel schedules the controller and its workers; operators owe       *)
(* nothing, and the resource gate need never open.                          *)
Fairness ==
  /\ WF_vars(ControllerStep)
  /\ WF_vars(LearnerStep)
  /\ WF_vars(EvaluatorStep)

Spec == Init /\ [][Next]_vars /\ Fairness

------------------------------------------------------------------------------
(* Properties *)

(* The results never promise more than the evidence on disk: a cell counts  *)
(* as trained only when its attempts form one chain of witnessed and        *)
(* verified endpoints, each resuming where the one before stopped, up to    *)
(* the full number of updates; a seed counts only when its window was run   *)
(* to its end, witnessed and sealed; a completed cell has every seed.       *)
Chained(c) ==
  /\ \A i \in DOMAIN attempts[c] :
       /\ attempts[c][i].sealed /\ attempts[c][i].receipt
       /\ attempts[c][i].from = IF i = 1 THEN 0 ELSE attempts[c][i - 1].update
  /\ attempts[c][Len(attempts[c])].update = Updates

ResultsAreEvidenced ==
  \A c \in CellSet :
    /\ results[c].status \in {"evaluating", "completed"} => attempts[c] # <<>> /\ Chained(c)
    /\ \A s \in SeedSet : results[c].development[s] =>
         windows[c][s].sealed /\ windows[c][s].receipt /\ windows[c][s].update = Steps
    /\ results[c].status = "completed" => \A s \in SeedSet : results[c].development[s]

(* Whatever is killed, two workers never run at once, and a controller      *)
(* never runs beside a worker that an earlier controller left behind.       *)
OneWorkerAtATime ==
  /\ Cardinality(LiveWorkers) <= 1
  /\ controller.alive =>
       \A w \in Attempts \cup Windows : w.alive => w.by = controller.gen

(* No work is done twice: an attempt starts only where the evidence of its  *)
(* predecessor ends, a cell that finished its updates is never trained      *)
(* again, and an evaluation window that was opened is never run again, not  *)
(* even after its worker or the controller was killed.                      *)
NothingIsRepeated ==
  [][ /\ \A c \in CellSet, s \in SeedSet :
           windows[c][s].at = "ended" => windows'[c][s].at = "ended"
      /\ \A c \in CellSet : \A i \in DOMAIN attempts'[c] :
           i \notin DOMAIN attempts[c] =>
             \A j \in DOMAIN attempts[c] :
               /\ attempts[c][j].update <= attempts'[c][i].from
               /\ attempts[c][j].update # Updates ]_vars

(* A pause acknowledged by the running controller holds: no worker takes a  *)
(* step of its work until the request is changed (_boundary, and the        *)
(* acknowledgements _wait_training relays).  state.by, whose                *)
(* acknowledgement it is, is not in the file: command() compares numbers    *)
(* only, and after a restart counts one that an earlier controller left in  *)
(* state.json.                                                              *)
PauseHolds ==
  ( /\ controller.alive /\ state.by = controller.gen
    /\ request.operation = "pause" /\ state.ack >= request.sequence )
    => \A w \in Attempts \cup Windows : w.alive => w.at # "work"

(* A stop ends the controller, whatever its worker is doing: a paused       *)
(* worker is released, an evaluation window is finished first.              *)
StopEnds ==
  (request.operation = "stop" /\ controller.alive) ~> ~controller.alive

(* A stop of a training cell whose endpoint was verified leaves the queue   *)
(* "stopped", as the branch at training_queue.py:307 means it: while        *)
(* nothing was killed it is not reported as a failure.                      *)
StopIsNotAFailure ==
  ( /\ request.operation = "stop" /\ kills = 0
    /\ \A w \in Attempts : w.sealed ) => state.phase # "failed"

==============================================================================
