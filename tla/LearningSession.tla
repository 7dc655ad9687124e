--------------------------- MODULE LearningSession ---------------------------
(***************************************************************************)
(* One structured training session: a directory whose files are the only   *)
(* channel between the commands of a frontend, the supervisor of an        *)
(* attempt and the learner it supervises (formal/runtime/session.py,       *)
(* common/training_control.py, formal/runtime/process.py,                  *)
(* formal/learning/loop.py).                                               *)
(*                                                                         *)
(* Every process may die between any two steps and the machine may reboot; *)
(* what is on disk stays.  The session lease run.lock is one open file     *)
(* description inherited by the supervisor and the learner: the kernel     *)
(* releases it when the last of its holders is gone.  The consumption      *)
(* journal, whose own failures LearningJournal covers, appears here by its *)
(* counters.  Tokens and pins bind every file to its attempt, so a file is *)
(* an entry of a function of the attempt.  The phases status.json goes     *)
(* through while its learner works are one phase here, "live": no command  *)
(* looks at them.                                                          *)
(***************************************************************************)
EXTENDS Integers, FiniteSets

CONSTANTS
  Target,       (* the rollout budget: target_update                       *)
  Interval,     (* recipe.checkpoint_interval                              *)
  MaxAttempts,  (* bounds the attempts one session makes                   *)
  MaxSequence,  (* bounds the commands written to one attempt              *)
  MaxBoots      (* bounds the reboots                                      *)

ASSUME SessionAssumption ==
  /\ Target \in Nat \ {0} /\ Interval \in Nat \ {0}
  /\ MaxAttempts \in Nat \ {0} /\ MaxSequence \in Nat /\ MaxBoots \in Nat

VARIABLES
  boot,        (* the kernel's boot id                                     *)
  current,     (* current.json: the attempt it names, or 0                 *)
  request,     (* request[a]: request.json of the attempt and resume.json  *)
  launched,    (* launched[a]: launch.json names the supervisor            *)
  control,     (* control[a]: control/request.json                         *)
  status,      (* status[a]: control/status.json                           *)
  result,      (* result[a]: control/result.json                           *)
  snapshot,    (* snapshot[a]: train/checkpoints/final.pt and its sidecar  *)
  exited,      (* exited[a]: exit.json                                     *)
  journal,     (* the consumption journal                                  *)
  supervisor,  (* supervisor[a]: its process                               *)
  worker,      (* worker[a]: the learner process                           *)
  frontend,    (* the process that holds command.lock                      *)
  collected    (* history: the rollouts ever collected                     *)

frontendFiles == <<current, request, launched, control>>
learnerFiles == <<status, result, snapshot, journal>>
files == <<frontendFiles, learnerFiles, exited>>
vars == <<files, boot, supervisor, worker, frontend, collected>>

------------------------------------------------------------------------------
(* Files and processes *)

Attempts == 1..MaxAttempts

Operations == {"pause", "resume", "stop"}

NoRequest  == [boot |-> -1, start |-> 0, previous |-> 0]
NoStatus   == [identity |-> "none", phase |-> "none", ack |-> -1]
NoResult   == [phase |-> "none", update |-> 0, ack |-> -1]
NoSnapshot == [update |-> 0, events |-> 0, sequence |-> -1]
NoExit     == [identity |-> "none", returncode |-> -1]

NoSupervisor == [pc |-> "none", identity |-> "none"]
NoWorker == [pc |-> "none", op |-> "resume", sequence |-> -1, update |-> 0,
             signalled |-> FALSE, returncode |-> 0]
NoFrontend == [pc |-> "idle", attempt |-> 0, identity |-> "none", phase |-> "none",
               final |-> "none"]

WorkerLoop == {"boundary", "checkpointing", "paused", "deciding", "collecting",
               "reserved", "optimizing", "finishing", "saving", "saved", "committed"}
Finishing == {"finishing", "saving", "saved", "committed"}
WorkerRunning == WorkerLoop \cup {"starting", "loading"}
SupervisorRunning == {"starting", "spawning", "binding", "waiting"}

(* A process that is exiting no longer shows its identity but still holds   *)
(* every descriptor it inherited.                                           *)
IsRunning(a, identity) ==
  \/ identity = "supervisor" /\ supervisor[a].pc \in SupervisorRunning
  \/ identity = "worker" /\ worker[a].pc \in WorkerRunning

Holders ==
  {<<"supervisor", a>> : a \in {b \in Attempts : supervisor[b].pc \notin {"none", "gone"}}}
  \cup {<<"worker", a>> : a \in {b \in Attempts : worker[b].pc \notin {"none", "gone"}}}
  \cup {<<"frontend", 0>> : f \in {g \in {frontend} :
          g.pc \in {"prepared", "published", "spawned"}}}

(* Mutant: only learners inherit the lease. *)
LearnerHoldsLease == \E holder \in Holders : holder[1] = "worker"

LeaseIsHeld == Holders # {}

Init ==
  /\ boot = 0 /\ current = 0 /\ collected = 0
  /\ request = [a \in Attempts |-> NoRequest]
  /\ launched = [a \in Attempts |-> FALSE]
  /\ control = [a \in Attempts |-> [sequence |-> 0, operation |-> "resume"]]
  /\ status = [a \in Attempts |-> NoStatus]
  /\ result = [a \in Attempts |-> NoResult]
  /\ snapshot = [a \in Attempts |-> NoSnapshot]
  /\ exited = [a \in Attempts |-> NoExit]
  /\ journal = [exists |-> FALSE, reserved |-> 0, updates |-> 0, events |-> 0,
                pending |-> FALSE, failed |-> FALSE]
  /\ supervisor = [a \in Attempts |-> NoSupervisor]
  /\ worker = [a \in Attempts |-> NoWorker]
  /\ frontend = NoFrontend

------------------------------------------------------------------------------
(* ManagedSession.status(): what it concludes now about the attempt whose   *)
(* status.json and result.json the frontend read before.  recently: the     *)
(* attempt was submitted less than 30 s ago.                                *)

Judged(recently) ==
  LET a == frontend.attempt
      identity == IF frontend.identity # "none" THEN frontend.identity
                  ELSE IF launched[a] THEN "supervisor" ELSE "none"
      matches == identity # "none" /\ exited[a].identity = identity
  IN IF boot # request[a].boot
     THEN [active |-> FALSE,
           phase  |-> IF frontend.final = "none" THEN "interrupted" ELSE frontend.final]
     ELSE IF exited[a] # NoExit
     THEN [active |-> FALSE,
           phase  |-> IF matches /\ exited[a].returncode = 0 /\ frontend.final # "none"
                      THEN frontend.final ELSE "failed"]
     ELSE IF IsRunning(a, identity) THEN [active |-> TRUE, phase |-> "running"]
     ELSE IF frontend.final # "none" THEN [active |-> TRUE, phase |-> "closing"]
     ELSE IF identity = "none" /\ recently THEN [active |-> TRUE, phase |-> "starting"]
     ELSE [active |-> FALSE,
           phase |-> IF frontend.phase = "failed" THEN "failed" ELSE "interrupted"]

Ready == [active |-> FALSE, phase |-> "ready"]

(* Mutant: the lease is not asked for. *)
ReportWithoutLease(recently) == IF frontend.attempt = 0 THEN Ready ELSE Judged(recently)

Report(recently) ==
  IF frontend.attempt = 0 THEN Ready
  ELSE IF /\ boot = request[frontend.attempt].boot
          /\ ~Judged(recently).active /\ LeaseIsHeld
  THEN [active |-> TRUE,
        phase  |-> IF frontend.final # "none" THEN "closing" ELSE "ownership_pending"]
  ELSE Judged(recently)

------------------------------------------------------------------------------
(* The frontend: command() and start(), under command.lock *)

OthersUnchanged == UNCHANGED <<learnerFiles, exited, boot, supervisor, worker, collected>>

(* Both begin with status(); its first reads are status.json, result.json.  *)
ReadStatus ==
  /\ frontend.pc = "idle"
  /\ frontend' =
       IF current = 0 THEN [NoFrontend EXCEPT !.pc = "read"]
       ELSE [pc |-> "read", attempt |-> current,
             identity |-> status[current].identity, phase |-> status[current].phase,
             final |-> result[current].phase]
  /\ UNCHANGED frontendFiles /\ OthersUnchanged

(* Return without effect, raise, or die: descriptors close, files stay.     *)
FrontendEnds ==
  /\ frontend.pc # "idle"
  /\ frontend' = NoFrontend
  /\ UNCHANGED frontendFiles /\ OthersUnchanged

(* command(): an active attempt; a pending stop admits no other operation.  *)
Command(operation) ==
  LET a == frontend.attempt IN
  /\ frontend.pc = "read"
  /\ \E recently \in BOOLEAN : Report(recently).active
  /\ control[a].operation = "stop" => operation = "stop"
  /\ control[a].operation # operation
  /\ control[a].sequence < MaxSequence
  /\ control' = [control EXCEPT ![a] = [sequence |-> @.sequence + 1,
                                        operation |-> operation]]
  /\ frontend' = NoFrontend
  /\ UNCHANGED <<current, request, launched>> /\ OthersUnchanged

(* start(): a cold start continues only a cleanly stopped attempt whose     *)
(* parent saw it exit with 0.                                               *)
CleanEndpoint(a) ==
  /\ result[a].phase = "stopped"
  /\ exited[a].returncode = 0
  /\ exited[a].identity = "worker"

Generation == Cardinality({a \in Attempts : request[a] # NoRequest}) + 1

(* It takes the lease, is admitted, and writes the files of a new attempt.  *)
PrepareAttempt(paused) ==
  /\ frontend.pc = "read"
  /\ \E recently \in BOOLEAN :
       ~Report(recently).active /\ Report(recently).phase # "completed"
  /\ frontend.attempt # 0 => CleanEndpoint(frontend.attempt)
  /\ ~LeaseIsHeld /\ Generation \in Attempts
  /\ request' = [request EXCEPT ![Generation] =
       [boot |-> boot,
        start |-> IF frontend.attempt = 0 THEN 0 ELSE result[frontend.attempt].update,
        previous |-> frontend.attempt]]
  /\ control' = [control EXCEPT ![Generation] =
       [sequence |-> 0, operation |-> IF paused THEN "pause" ELSE "resume"]]
  /\ frontend' = [NoFrontend EXCEPT !.pc = "prepared", !.attempt = Generation]
  /\ UNCHANGED <<current, launched>> /\ OthersUnchanged

PublishCurrent ==
  /\ frontend.pc = "prepared"
  /\ current' = frontend.attempt
  /\ frontend' = [frontend EXCEPT !.pc = "published"]
  /\ UNCHANGED <<request, launched, control>> /\ OthersUnchanged

SpawnSupervisor ==
  /\ frontend.pc = "published"
  /\ supervisor' = [supervisor EXCEPT ![frontend.attempt].pc = "starting"]
  /\ frontend' = [frontend EXCEPT !.pc = "spawned"]
  /\ UNCHANGED <<files, boot, worker, collected>>

(* launch.json only when the child was seen alive; then start() returns.    *)
BindLaunch ==
  LET a == frontend.attempt IN
  /\ frontend.pc = "spawned"
  /\ IsRunning(a, "supervisor")
  /\ launched' = [launched EXCEPT ![a] = TRUE]
  /\ frontend' = NoFrontend
  /\ UNCHANGED <<current, request, control>> /\ OthersUnchanged

------------------------------------------------------------------------------
(* supervise() *)

Supervise(a, pc) == supervisor' = [supervisor EXCEPT ![a].pc = pc]

PublishStatus(a, identity, phase, ack) ==
  status' = [status EXCEPT ![a] = [identity |-> identity, phase |-> phase, ack |-> ack]]

SupervisorPublishes(a) ==
  /\ supervisor[a].pc = "starting"
  /\ a = current /\ boot = request[a].boot
  /\ PublishStatus(a, "supervisor", "live", -1)
  /\ Supervise(a, "spawning")
  /\ UNCHANGED <<frontendFiles, result, snapshot, journal, exited, boot, worker,
                 frontend, collected>>

SpawnWorker(a) ==
  /\ supervisor[a].pc = "spawning"
  /\ worker' = [worker EXCEPT ![a].pc = "starting"]
  /\ Supervise(a, "binding")
  /\ UNCHANGED <<files, boot, frontend, collected>>

(* _bind_child_identity: the child is seen alive, or no identity is bound.  *)
BindWorker(a) ==
  /\ supervisor[a].pc = "binding"
  /\ \E identity \in {"none"} \cup (IF IsRunning(a, "worker") THEN {"worker"} ELSE {}) :
       supervisor' = [supervisor EXCEPT ![a] = [pc |-> "waiting", identity |-> identity]]
  /\ UNCHANGED <<files, boot, worker, frontend, collected>>

RecordExit(a) ==
  /\ supervisor[a].pc = "waiting" /\ worker[a].pc = "gone"
  /\ exited' = [exited EXCEPT ![a] = [identity |-> supervisor[a].identity,
                                      returncode |-> worker[a].returncode]]
  /\ Supervise(a, "exiting")
  /\ UNCHANGED <<frontendFiles, learnerFiles, boot, worker, frontend, collected>>

SupervisorGone(a) ==
  /\ supervisor[a].pc = "exiting" /\ Supervise(a, "gone")
  /\ UNCHANGED <<files, boot, worker, frontend, collected>>

SupervisorKilled(a) ==
  /\ supervisor[a].pc \in SupervisorRunning /\ Supervise(a, "exiting")
  /\ UNCHANGED <<files, boot, worker, frontend, collected>>

------------------------------------------------------------------------------
(* The learner: run_worker(), StructuredLearningLoop, TrainingControl       *)

Worker(a, pc) == worker' = [worker EXCEPT ![a].pc = pc]

Exits(a, returncode) ==
  worker' = [worker EXCEPT ![a] = [NoWorker EXCEPT !.pc = "exiting",
                                                   !.returncode = returncode]]

(* What every learner step leaves alone. *)
RestUnchanged == UNCHANGED <<frontendFiles, exited, boot, supervisor, frontend>>

Publishes(a, phase, ack) == PublishStatus(a, "worker", phase, ack)

WorkerPublishes(a) ==
  /\ worker[a].pc = "starting" /\ boot = request[a].boot
  /\ Publishes(a, "live", -1)
  /\ Worker(a, "loading")
  /\ UNCHANGED <<result, snapshot, journal, collected>> /\ RestUnchanged

(* A fresh attempt creates the journal, which must not exist yet.           *)
StartFresh(a) ==
  /\ worker[a].pc = "loading" /\ request[a].previous = 0
  /\ request[a].start = 0 /\ ~journal.exists
  /\ journal' = [journal EXCEPT !.exists = TRUE]
  /\ Worker(a, "boundary")
  /\ UNCHANGED <<status, result, snapshot, collected>> /\ RestUnchanged

(* load_stopped_attempt, StructuredCheckpointStore.load and the checks of   *)
(* the loop's constructor: every receipt of the previous attempt p and the  *)
(* journal describe the same point.                                         *)
LoadAccepted(p) ==
  /\ exited[p] = [identity |-> "worker", returncode |-> 0]
  /\ result[p].phase = "stopped"
  /\ result[p].update = journal.updates
  /\ snapshot[p].sequence = result[p].ack
  /\ snapshot[p].events = journal.events
  /\ ~journal.pending /\ ~journal.failed

Resumable(a) ==
  LET p == request[a].previous IN
  LoadAccepted(p) /\ request[a].start = snapshot[p].update

(* Mutant: the restored trainer forgets its update index. *)
ColdResumeFromZero(a) ==
  /\ worker[a].pc = "loading" /\ request[a].previous # 0 /\ Resumable(a)
  /\ Worker(a, "boundary")
  /\ UNCHANGED <<status, result, snapshot, journal, collected>> /\ RestUnchanged

ColdResume(a) ==
  /\ worker[a].pc = "loading" /\ request[a].previous # 0
  /\ Resumable(a)
  /\ worker' = [worker EXCEPT ![a].pc = "boundary",
                              ![a].update = snapshot[request[a].previous].update]
  /\ UNCHANGED <<status, result, snapshot, journal, collected>> /\ RestUnchanged

RefuseResume(a) ==
  /\ worker[a].pc = "loading" /\ request[a].previous # 0
  /\ ~Resumable(a)
  /\ Publishes(a, "failed", -1)
  /\ Exits(a, 1)
  /\ UNCHANGED <<result, snapshot, journal, collected>> /\ RestUnchanged

(* SIGINT, SIGTERM or the active-time deadline set _StopBudget.reason. *)
Signal(a) ==
  /\ worker[a].pc \in WorkerLoop \ Finishing /\ ~worker[a].signalled
  /\ worker' = [worker EXCEPT ![a].signalled = TRUE]
  /\ UNCHANGED <<learnerFiles, collected>> /\ RestUnchanged

(* run_update() publishes, then boundary() reads the request. *)
ReadRequest(a) ==
  /\ worker[a].pc = "boundary"
  /\ worker' = [worker EXCEPT
       ![a].pc = IF control[a].operation = "pause" THEN "checkpointing" ELSE "deciding",
       ![a].op = control[a].operation, ![a].sequence = control[a].sequence]
  /\ Publishes(a, "live", status[a].ack)
  /\ UNCHANGED <<result, snapshot, journal, collected>> /\ RestUnchanged

(* _pause_checkpoint, and only then the acknowledgement. *)
AcknowledgePause(a) ==
  /\ worker[a].pc = "checkpointing"
  /\ journal' = [journal EXCEPT !.events = @ + 1]
  /\ Publishes(a, "live", worker[a].sequence)
  /\ Worker(a, "paused")
  /\ UNCHANGED <<result, snapshot, collected>> /\ RestUnchanged

(* Mutants: the loop waits for "resume" only; it never looks at signals. *)
PollForResume(a) ==
  /\ worker[a].pc = "paused"
  /\ worker[a].signalled \/ control[a].operation = "resume"
  /\ worker' = [worker EXCEPT ![a].pc = "deciding", ![a].op = control[a].operation,
                              ![a].sequence = control[a].sequence]
  /\ UNCHANGED <<learnerFiles, collected>> /\ RestUnchanged
PollDeaf(a) ==
  /\ worker[a].pc = "paused" /\ control[a].operation # "pause"
  /\ worker' = [worker EXCEPT ![a].pc = "deciding", ![a].op = control[a].operation,
                              ![a].sequence = control[a].sequence]
  /\ UNCHANGED <<learnerFiles, collected>> /\ RestUnchanged

(* One turn of the polling loop of a paused learner. *)
Poll(a) ==
  /\ worker[a].pc = "paused"
  /\ IF worker[a].signalled THEN Worker(a, "deciding")
     ELSE worker' = [worker EXCEPT
       ![a].pc = IF control[a].operation = "pause" THEN "paused" ELSE "deciding",
       ![a].op = control[a].operation, ![a].sequence = control[a].sequence]
  /\ UNCHANGED <<learnerFiles, collected>> /\ RestUnchanged

(* Mutant: it acknowledges whatever command is there by now. *)
DecideUnread(a) ==
  /\ worker[a].pc = "deciding" /\ worker[a].op # "stop" /\ ~worker[a].signalled
  /\ Publishes(a, "live", control[a].sequence)
  /\ Worker(a, "collecting")
  /\ UNCHANGED <<result, snapshot, journal, collected>> /\ RestUnchanged

(* The end of boundary(): stop, or acknowledge and go on. *)
Decide(a) ==
  /\ worker[a].pc = "deciding"
  /\ \/ /\ worker[a].op = "stop" \/ worker[a].signalled
        /\ Publishes(a, "live", status[a].ack)
        /\ Worker(a, "finishing")
     \/ /\ worker[a].op # "stop" /\ ~worker[a].signalled
        /\ Publishes(a, "live", worker[a].sequence)
        /\ Worker(a, "collecting")
  /\ UNCHANGED <<result, snapshot, journal, collected>> /\ RestUnchanged

Complete == journal.reserved = Target

(* Mutant: the reservation is left to the end of the rollout. *)
ReserveLate(a) ==
  /\ worker[a].pc = "collecting" /\ ~Complete
  /\ journal' = [journal EXCEPT !.pending = TRUE]
  /\ Worker(a, "reserved")
  /\ UNCHANGED <<status, result, snapshot, collected>> /\ RestUnchanged

(* The reservation is durable before any of its work exists.  Complete      *)
(* cannot hold here: the update that spends the budget ends the run itself. *)
Reserve(a) ==
  /\ worker[a].pc = "collecting" /\ ~Complete
  /\ ~journal.pending /\ ~journal.failed
  /\ journal' = [journal EXCEPT !.reserved = @ + 1, !.events = @ + 1, !.pending = TRUE]
  /\ Worker(a, "reserved")
  /\ UNCHANGED <<status, result, snapshot, collected>> /\ RestUnchanged

Collect(a) ==
  /\ worker[a].pc = "reserved"
  /\ collected' = collected + 1
  /\ Publishes(a, "live", status[a].ack)
  /\ Worker(a, "optimizing")
  /\ UNCHANGED <<result, snapshot, journal>> /\ RestUnchanged

(* trainer.update, journal.finish, and the periodic checkpoint. *)
Update(a) ==
  LET update == worker[a].update + 1 IN
  /\ worker[a].pc = "optimizing"
  /\ journal' = [journal EXCEPT
       !.updates = update, !.pending = FALSE,
       !.events = @ + (IF ~Complete /\ update % Interval = 0 THEN 2 ELSE 1)]
  /\ worker' = [worker EXCEPT ![a].pc = IF Complete THEN "finishing" ELSE "boundary",
                              ![a].update = update]
  /\ UNCHANGED <<status, result, snapshot, collected>> /\ RestUnchanged

(* An exception: the pending rollout is sealed as failed, status says so.   *)
WorkerFails(a) ==
  /\ worker[a].pc \in WorkerRunning \ {"starting"}
  /\ journal' = IF journal.pending
                THEN [journal EXCEPT !.pending = FALSE, !.failed = TRUE, !.events = @ + 1]
                ELSE journal
  /\ Publishes(a, "failed", status[a].ack)
  /\ Exits(a, 1)
  /\ UNCHANGED <<result, snapshot, collected>> /\ RestUnchanged

(* _finish(): read the request's sequence, save final.pt bound to it and to *)
(* the journal's boundary, then finish() reads the request once more and    *)
(* publishes result.json.                                                   *)
BeginFinish(a) ==
  /\ worker[a].pc = "finishing"
  /\ worker' = [worker EXCEPT ![a].pc = "saving", ![a].sequence = control[a].sequence]
  /\ UNCHANGED <<learnerFiles, collected>> /\ RestUnchanged

(* Mutant: the snapshot binds to the boundary before its own event. *)
SaveFinalEarly(a) ==
  /\ worker[a].pc = "saving" /\ ~journal.pending /\ ~journal.failed
  /\ journal' = [journal EXCEPT !.events = @ + 1]
  /\ snapshot' = [snapshot EXCEPT ![a] =
       [update |-> worker[a].update, events |-> journal.events,
        sequence |-> worker[a].sequence]]
  /\ Worker(a, "saved")
  /\ UNCHANGED <<status, result, collected>> /\ RestUnchanged

SaveFinal(a) ==
  /\ worker[a].pc = "saving" /\ ~journal.pending /\ ~journal.failed
  /\ journal' = [journal EXCEPT !.events = @ + 1]
  /\ snapshot' = [snapshot EXCEPT ![a] =
       [update |-> worker[a].update, events |-> journal.events + 1,
        sequence |-> worker[a].sequence]]
  /\ Worker(a, "saved")
  /\ UNCHANGED <<status, result, collected>> /\ RestUnchanged

CommitResult(a) ==
  /\ worker[a].pc = "saved"
  /\ result' = [result EXCEPT ![a] =
       [phase |-> IF Complete THEN "completed" ELSE "stopped",
        update |-> worker[a].update, ack |-> control[a].sequence]]
  /\ Worker(a, "committed")
  /\ UNCHANGED <<status, snapshot, journal, collected>> /\ RestUnchanged

WorkerReturns(a) ==
  /\ worker[a].pc = "committed"
  /\ Publishes(a, result[a].phase, result[a].ack)
  /\ Exits(a, 0)
  /\ UNCHANGED <<result, snapshot, journal, collected>> /\ RestUnchanged

WorkerKilled(a) ==
  /\ worker[a].pc \in WorkerRunning
  /\ Exits(a, 1)
  /\ UNCHANGED <<learnerFiles, collected>> /\ RestUnchanged

WorkerGone(a) ==
  /\ worker[a].pc = "exiting" /\ Worker(a, "gone")
  /\ UNCHANGED <<learnerFiles, collected>> /\ RestUnchanged

------------------------------------------------------------------------------
(* The machine *)

Reboot ==
  /\ boot < MaxBoots
  /\ boot' = boot + 1
  /\ frontend' = NoFrontend
  /\ supervisor' = [a \in Attempts |->
       IF supervisor[a].pc = "none" THEN supervisor[a] ELSE [supervisor[a] EXCEPT !.pc = "gone"]]
  /\ worker' = [a \in Attempts |->
       IF worker[a].pc = "none" THEN worker[a] ELSE [worker[a] EXCEPT !.pc = "gone"]]
  /\ UNCHANGED <<files, collected>>

FrontendStep ==
  \/ ReadStatus
  \/ \E operation \in Operations : Command(operation)
  \/ \E paused \in BOOLEAN : PrepareAttempt(paused)
  \/ PublishCurrent \/ SpawnSupervisor \/ BindLaunch
  \/ FrontendEnds

SupervisorStep(a) ==
  \/ SupervisorPublishes(a) \/ SpawnWorker(a) \/ BindWorker(a) \/ RecordExit(a) \/ SupervisorGone(a)

WorkerStep(a) ==
  \/ WorkerPublishes(a) \/ StartFresh(a) \/ ColdResume(a) \/ RefuseResume(a)
  \/ ReadRequest(a) \/ AcknowledgePause(a) \/ Poll(a) \/ Decide(a)
  \/ Reserve(a) \/ Collect(a) \/ Update(a)
  \/ BeginFinish(a) \/ SaveFinal(a) \/ CommitResult(a) \/ WorkerReturns(a)
  \/ WorkerGone(a)

Fault(a) ==
  \/ Signal(a) \/ WorkerFails(a) \/ WorkerKilled(a) \/ SupervisorKilled(a)

Next ==
  \/ FrontendStep
  \/ \E a \in Attempts : SupervisorStep(a) \/ WorkerStep(a) \/ Fault(a)
  \/ Reboot

Spec == Init /\ [][Next]_vars

(* Running processes keep running; nothing obliges anybody to send another  *)
(* command, and nothing obliges a fault to happen.                          *)
Fairness == \A a \in Attempts : WF_vars(SupervisorStep(a)) /\ WF_vars(WorkerStep(a))

FairSpec == Spec /\ Fairness

------------------------------------------------------------------------------
(* Properties *)

Phases == {"none", "live", "failed", "stopped", "completed"}

(* Only one attempt of a session has live processes, and a start() that     *)
(* owns the lease runs beside none but its own (run.lock, start()).         *)
OneAttemptAtATime ==
  LET attemptOf(holder) == IF holder[1] = "frontend" THEN frontend.attempt ELSE holder[2]
  IN  \A h, k \in Holders : attemptOf(h) = attemptOf(k)

(* A frontend never takes an attempt with live processes for inactive: not  *)
(* in the launch, exec, exit and reap gaps, nor from stale reads (status(): *)
(* "Do not report shutdown or permit a new attempt in that gap").           *)
NoHiddenProcess ==
  frontend.pc = "read" /\ (\E a \in Attempts : <<"worker", a>> \in Holders)
    => \A recently \in BOOLEAN : Report(recently).active

(* The weights a learner trains are always those the journal describes: no  *)
(* restart, however it is interleaved with commands, signals and crashes,   *)
(* continues from older weights or over failed or unfinished work.          *)
NothingIsReplayed ==
  \A a \in Attempts : worker[a].pc \in WorkerLoop =>
    /\ worker[a].update = journal.updates
    /\ ~journal.failed
    /\ journal.pending <=> worker[a].pc \in {"reserved", "optimizing"}

(* Every rollout ever collected, by whatever attempt and with whatever end, *)
(* was charged to the one budget before.                                    *)
WorkIsCharged ==
  /\ journal.updates <= collected
  /\ collected <= journal.reserved
  /\ journal.reserved <= Target

(* A pause that is still the last command, once the learner has read or     *)
(* acknowledged it, keeps the learner from any work: it rests at an update  *)
(* boundary or ends there, however signals and later commands interleave.   *)
PauseHolds ==
  \A a \in Attempts :
    /\ control[a].operation = "pause"
    /\ control[a].sequence \in {status[a].ack, worker[a].sequence}
    => worker[a].pc \notin {"boundary", "collecting", "reserved", "optimizing"}

(* A clean receipt is enough to resume: the loader refuses it only when the *)
(* final snapshot and the result name different commands.                   *)
CleanEndpointLoads ==
  \A a \in Attempts : worker[a].pc = "loading" /\ request[a].previous # 0 =>
    \/ Resumable(a)
    \/ snapshot[request[a].previous].sequence # result[request[a].previous].ack

(* A requested stop ends every process of its attempt. *)
StopEndsAttempt ==
  \A a \in Attempts :
    control[a].operation = "stop" ~>
      supervisor[a].pc \in {"none", "gone"} /\ worker[a].pc \in {"none", "gone"}

(* A paused learner leaves the pause once a command or a signal tells it to *)
(* and does not change its mind.                                            *)
PauseEnds ==
  \A a \in Attempts :
    LET released == worker[a].signalled \/ control[a].operation # "pause"
    IN  worker[a].pc = "paused" /\ released ~> worker[a].pc # "paused" \/ ~released

------------------------------------------------------------------------------
(* What the code's own words claim and the code does not do *)

(* "The final result is the cold-resume commit marker": an attempt that     *)
(* start() accepts as cleanly stopped can be loaded.                        *)
EndpointIsCommitted ==
  \A a \in Attempts :
    worker[a].pc = "loading" /\ request[a].previous # 0 => Resumable(a)
==============================================================================
