-------------------------- MODULE LearningCampaign --------------------------
(***************************************************************************)
(* The controller of a learning campaign (tools/run_learning_campaign.py): *)
(* it trains the cells of a frozen grid one after another, each in a chain *)
(* of attempts that resume one another, evaluates every trained cell once  *)
(* per seed, and audits what the files say.                                *)
(*                                                                         *)
(* The controller may be killed or interrupted between any two steps; the  *)
(* learner it started then goes on alone, and the next controller has only *)
(* the files to tell what happened.  A file is written before the process  *)
(* is started, one after, and one at its end; a controller that finds a    *)
(* launch without a process must assume that one is running.               *)
(*                                                                         *)
(* One controller runs at a time: it holds the lock of the campaign, which *)
(* the operating system releases with the process.                         *)
(***************************************************************************)
EXTENDS Integers, FiniteSets, FiniteSetsExt

CONSTANTS
  CellCount,       (* cells of the grid                                    *)
  SeedCount,       (* development seeds a trained cell is evaluated with   *)
  Updates,         (* UPDATES: the budget of a cell                        *)
  MaxRunAttempts,  (* max_run_attempts of the manifest                     *)
  MaxRuns,         (* bound: how often a controller is started             *)
  MaxFaults        (* bound: how often one is killed or interrupted        *)

ASSUME CampaignAssumption ==
  /\ CellCount \in Nat \ {0} /\ SeedCount \in Nat \ {0}
  /\ Updates \in Nat \ {0} /\ MaxRunAttempts \in Nat \ {0}
  /\ MaxRuns \in Nat /\ MaxFaults \in Nat

VARIABLES
  job,      (* the attempt directories and the workers they belong to      *)
  ctl,      (* the controller                                              *)
  summary,  (* status of summary.json                                      *)
  used      (* how many runs and faults there were                         *)

vars == <<job, ctl, summary, used>>

------------------------------------------------------------------------------
(* Attempts *)

Cells == 1..CellCount

Attempt(c, n) == [kind |-> "train", cell |-> c, seed |-> 0, n |-> n]

Evaluation(c, s, n) == [kind |-> "eval", cell |-> c, seed |-> s, n |-> n]

Attempts(c) == {Attempt(c, n) : n \in 1..MaxRunAttempts}

(* The sum of f over the first n attempts.                                 *)
SumTo(n, f) ==
  LET sum[i \in 0..n] == IF i = 0 THEN 0 ELSE sum[i - 1] + f[i] IN sum[n]

(* One evaluation directory is all there may be; a second would be a retry. *)
Evaluations(c, s) == {Evaluation(c, s, n) : n \in 1..2}

Jobs == UNION ({Attempts(c) : c \in Cells}
                 \cup {Evaluations(c, s) : c \in Cells, s \in 1..SeedCount})

NoReceipt == [status |-> "none", charged |-> 0, actual |-> 0]

(* made, request: the directory, and request.json in it.  start: the       *)
(* update it starts from.  record: worker.process.json.  alive: there is a *)
(* process.  rows, short: complete rows of metrics.jsonl, and whether the  *)
(* last rollout was cut short.  done: completion.json, or the exit of an   *)
(* evaluation.                                                             *)
Absent == [made |-> FALSE, request |-> FALSE, start |-> 0,
           record |-> "absent", alive |-> FALSE, rows |-> 0, short |-> FALSE,
           done |-> "none", receipt |-> NoReceipt]

IsTraining(j) == j.kind = "train"

Reserved(j) == Updates - job[j].start

Sealed(j) == job[j].receipt.status # "none"

(* Mutant: an unresolved launch counts as one that never happened.         *)
LiveWorkersOnly(j) == job[j].record = "running" /\ job[j].alive

(* workers_in: an original worker is there, or nobody can tell.            *)
Unresolved(j) ==
  \/ job[j].record = "launching"
  \/ job[j].record = "running" /\ job[j].alive

WorkersIn(S) == {j \in S : Unresolved(j)}

(* Mutant: an endpoint in the middle of a rollout is taken for exact.      *)
ExactEvenIfShort(j) ==
  /\ job[j].record \in {"running", "finished"} /\ ~job[j].alive
  /\ job[j].done # "none"
  /\ job[j].rows > 0

(* training_evidence: a known worker that has ended, at a sealed endpoint  *)
(* of complete rollouts only.                                              *)
Exact(j) ==
  /\ job[j].record \in {"running", "finished"} /\ ~job[j].alive
  /\ job[j].done # "none"
  /\ job[j].rows > 0 /\ ~job[j].short

------------------------------------------------------------------------------
(* The controller *)

Off == [pc |-> "off", cell |-> 1, seed |-> 1, n |-> 0, completed |-> 0,
        job |-> Attempt(1, 1), raised |-> FALSE]

Init ==
  /\ job = [j \in Jobs |-> Absent]
  /\ ctl = Off
  /\ summary = "absent"
  /\ used = [runs |-> 0, faults |-> 0]

At(pc) == ctl.pc = pc

GoTo(pc) == ctl' = [ctl EXCEPT !.pc = pc]

(* The controller ends: with a status it publishes, or with an exception.  *)
Exit(status) == ctl' = Off /\ summary' = status

Fail == ctl' = Off /\ UNCHANGED summary

ToCell(c) ==
  IF c <= CellCount
    THEN [Off EXCEPT !.pc = "train", !.cell = c]
    ELSE [Off EXCEPT !.pc = "audit", !.cell = CellCount]

ToSeed(s) ==
  IF s <= SeedCount THEN [ctl EXCEPT !.pc = "eval", !.seed = s]
                    ELSE ToCell(ctl.cell + 1)

Start ==
  /\ At("off") /\ used.runs < MaxRuns
  /\ used' = [used EXCEPT !.runs = @ + 1]
  /\ GoTo("wait")
  /\ UNCHANGED <<job, summary>>

(* acquire_resources: the locks, the campaigns this one waits for, and     *)
(* every worker any of them left behind.                                   *)
Acquire ==
  /\ At("wait") /\ WorkersIn(Jobs) = {}
  /\ ctl' = ToCell(1) /\ summary' = "training"
  /\ UNCHANGED <<job, used>>

GiveUp ==
  /\ At("wait")
  /\ Exit("waiting")
  /\ UNCHANGED <<job, used>>

------------------------------------------------------------------------------
(* train_cell *)

Made(S) == {j \in S : job[j].made}

NextAttempt == Attempt(ctl.cell, ctl.n + 1)

(* The cell has its budget, or has no attempts left.                       *)
TrainDone ==
  /\ At("train") /\ ctl.completed = Updates
  /\ ctl' = [ctl EXCEPT !.pc = "eval", !.seed = 1]
  /\ UNCHANGED <<job, summary, used>>

OutOfAttempts ==
  /\ At("train") /\ ctl.completed < Updates /\ ctl.n >= MaxRunAttempts
  /\ ctl' = ToCell(ctl.cell + 1)
  /\ UNCHANGED <<job, summary, used>>

(* An attempt of an earlier run: its request must be what this run would   *)
(* ask for, and it is sealed if it is not yet.                             *)
TakeUpAttempt ==
  /\ At("train") /\ ctl.completed < Updates /\ ctl.n < MaxRunAttempts
  /\ job[NextAttempt].made
  /\ IF job[NextAttempt].request /\ job[NextAttempt].start = ctl.completed
       THEN /\ ctl' = [ctl EXCEPT !.pc = "seal", !.job = NextAttempt]
            /\ UNCHANGED summary
       ELSE Fail
  /\ UNCHANGED <<job, used>>

(* Make the directory of a job nobody has begun, unless a worker of the    *)
(* campaign is still there.                                                *)
Open(j) ==
  /\ \/ /\ WorkersIn(Jobs) = {}
        /\ job' = [job EXCEPT ![j].made = TRUE]
        /\ ctl' = [ctl EXCEPT !.pc = "request", !.job = j]
        /\ UNCHANGED summary
     \/ /\ WorkersIn(Jobs) # {}
        /\ Exit("waiting") /\ UNCHANGED job
  /\ UNCHANGED used

OpenAttempt ==
  /\ At("train") /\ ctl.completed < Updates /\ ctl.n < MaxRunAttempts
  /\ ~job[NextAttempt].made
  /\ Open(NextAttempt)

------------------------------------------------------------------------------
(* worker *)

WriteRequest ==
  /\ At("request")
  /\ job' = [job EXCEPT ![ctl.job].request = TRUE,
                        ![ctl.job].start =
                          IF IsTraining(ctl.job) THEN ctl.completed ELSE 0]
  /\ GoTo("launch")
  /\ summary' = IF IsTraining(ctl.job) THEN "training" ELSE "evaluating"
  /\ UNCHANGED used

Record(status) == job' = [job EXCEPT ![ctl.job].record = status]

WriteLaunch ==
  /\ At("launch")
  /\ Record("launching") /\ GoTo("spawn")
  /\ UNCHANGED <<summary, used>>

Spawn ==
  /\ At("spawn")
  /\ job' = [job EXCEPT ![ctl.job].alive = TRUE] /\ GoTo("register")
  /\ UNCHANGED <<summary, used>>

(* After an exception the finally of train_cell still seals the attempt;   *)
(* evaluate_cell has none.                                                 *)
Raise ==
  IF IsTraining(ctl.job)
    THEN ctl' = [ctl EXCEPT !.pc = "seal", !.raised = TRUE] /\ UNCHANGED summary
    ELSE Fail

SpawnFails ==
  /\ At("spawn")
  /\ Record("launch_failed") /\ Raise
  /\ UNCHANGED used

Register ==
  /\ At("register")
  /\ Record("running") /\ GoTo("watch")
  /\ UNCHANGED <<summary, used>>

(* The process has ended by itself.                                        *)
Reap ==
  /\ At("watch") /\ ~job[ctl.job].alive
  /\ Record("finished") /\ GoTo("seal")
  /\ UNCHANGED <<summary, used>>

(* terminate_owned: the learner may reach an endpoint within its ten       *)
(* seconds, in the middle of a rollout or not, or be killed.               *)
Cut(j, cut, end) ==
  [j EXCEPT !.alive = FALSE, !.record = "finished", !.rows = @ + cut,
            !.short = (cut = 1), !.done = end]

Terminated(j) ==
  {Cut(j, cut, end) : cut \in {n \in {0, 1} : j.rows + n <= Updates - j.start},
                      end \in {"none", "stopped"}}

Stopped(j) == IF IsTraining(j) THEN Terminated(job[j])
              ELSE {[job[j] EXCEPT !.alive = FALSE, !.record = "finished",
                                   !.done = "failed"]}

Timeout ==
  /\ At("watch") /\ job[ctl.job].alive
  /\ \E stopped \in Stopped(ctl.job) : job' = [job EXCEPT ![ctl.job] = stopped]
  /\ GoTo("seal")
  /\ UNCHANGED <<summary, used>>

------------------------------------------------------------------------------
(* seal_training, and what train_cell does with the receipt *)

(* Mutant: a failed attempt is charged for what it did.                    *)
ReceiptOfWork(j, probed) ==
  IF Exact(j) /\ probed
    THEN [status |-> IF job[j].rows = Reserved(j) THEN "completed" ELSE "resumable",
          charged |-> job[j].rows, actual |-> job[j].rows]
    ELSE [status |-> "incomplete", charged |-> job[j].rows,
          actual |-> job[j].rows]

(* The checkpoint is probed in another process, which may fail or time     *)
(* out.                                                                    *)
ReceiptOf(j, probed) ==
  IF Exact(j) /\ probed
    THEN [status |-> IF job[j].rows = Reserved(j) THEN "completed" ELSE "resumable",
          charged |-> job[j].rows, actual |-> job[j].rows]
    ELSE [status |-> "incomplete", charged |-> Reserved(j),
          actual |-> job[j].rows]

(* Mutant: a failed attempt is not counted.                                *)
AfterReceiptForgiven(receipt) ==
  IF receipt.status = "incomplete" THEN [ctl EXCEPT !.pc = "train"]
  ELSE [ctl EXCEPT !.pc = "train", !.n = @ + 1,
                   !.completed = @ + receipt.charged]

AfterReceipt(receipt) ==
  IF receipt.status = "incomplete" THEN ToCell(ctl.cell + 1)
  ELSE [ctl EXCEPT !.pc = "train", !.n = @ + 1,
                   !.completed = @ + receipt.charged]

SealLater ==
  /\ At("seal") /\ IsTraining(ctl.job) /\ Unresolved(ctl.job)
  /\ Exit(IF ctl.raised THEN summary ELSE "waiting")
  /\ UNCHANGED <<job, used>>

SealAttempt ==
  /\ At("seal") /\ IsTraining(ctl.job)
  /\ ~Unresolved(ctl.job) /\ ~Sealed(ctl.job)
  /\ \E probed \in BOOLEAN :
       LET receipt == ReceiptOf(ctl.job, probed)
       IN /\ job' = [job EXCEPT ![ctl.job].receipt = receipt]
          /\ ctl' = IF ctl.raised THEN Off ELSE AfterReceipt(receipt)
  /\ UNCHANGED <<summary, used>>

(* What a sealed receipt says must still be so.                            *)
StillTrue(j, probed) ==
  IF job[j].receipt.status = "incomplete"
    THEN job[j].receipt.actual = job[j].rows
    ELSE Exact(j) /\ probed /\ job[j].receipt.charged = job[j].rows

CheckReceipt ==
  /\ At("seal") /\ IsTraining(ctl.job)
  /\ ~Unresolved(ctl.job) /\ Sealed(ctl.job)
  /\ \E probed \in BOOLEAN :
       IF StillTrue(ctl.job, probed)
         THEN ctl' = AfterReceipt(job[ctl.job].receipt) /\ UNCHANGED summary
         ELSE Fail
  /\ UNCHANGED <<job, used>>

------------------------------------------------------------------------------
(* evaluate_cell *)

EvaluationsMade == Made(Evaluations(ctl.cell, ctl.seed))

(* Mutant: an evaluation that failed is tried again.                       *)
NewEvaluationUnlessCompleted ==
  {j \in Evaluations(ctl.cell, ctl.seed) :
     /\ ~job[j].made
     /\ \A i \in EvaluationsMade : job[i].receipt.status = "incomplete"}

(* A seed is evaluated once, whatever comes of it.                         *)
NewEvaluation ==
  {j \in Evaluations(ctl.cell, ctl.seed) : j.n = 1 /\ EvaluationsMade = {}}

OpenEvaluation ==
  /\ At("eval")
  /\ \E j \in NewEvaluation : Open(j)

TakeUpEvaluation ==
  /\ At("eval") /\ NewEvaluation = {}
  /\ \E j \in EvaluationsMade :
       IF Unresolved(j) THEN Exit("waiting")
       ELSE IF Sealed(j) THEN ctl' = ToSeed(ctl.seed + 1) /\ UNCHANGED summary
       ELSE IF ~job[j].request THEN Fail
       ELSE ctl' = [ctl EXCEPT !.pc = "seal", !.job = j] /\ UNCHANGED summary
  /\ UNCHANGED <<job, used>>

SealEvaluation ==
  /\ At("seal") /\ ~IsTraining(ctl.job)
  /\ LET proved == job[ctl.job].record = "finished" /\ job[ctl.job].done = "completed"
     IN job' = [job EXCEPT ![ctl.job].receipt.status =
                  IF proved THEN "completed" ELSE "incomplete"]
  /\ ctl' = ToSeed(ctl.seed + 1)
  /\ UNCHANGED <<summary, used>>

------------------------------------------------------------------------------
(* audit: a reader of the files that takes no lock *)

Charges(c) == [i \in 1..MaxRunAttempts |-> job[Attempt(c, i)].receipt.charged]

ChargedBefore(c, n) == SumTo(n - 1, Charges(c))

MadeAttempts(c) == Cardinality(Made(Attempts(c)))

(* The first attempt that is not a sealed endpoint, or the last one.       *)
Settled(c, n) ==
  /\ ~Unresolved(Attempt(c, n))
  /\ job[Attempt(c, n)].receipt.status \in {"completed", "resumable"}

Deciding(c) ==
  Min({n \in 1..MadeAttempts(c) : ~Settled(c, n)} \cup {MadeAttempts(c)})

Audited(status, charged, completed) ==
  [status |-> status, charged |-> charged, completed |-> completed]

(* Mutant: an attempt that is not sealed is charged for what it did.       *)
UnsealedChargeOfWork(j) == job[j].rows

UnsealedCharge(j) == Reserved(j)

AuditedTraining(c) ==
  LET n == Deciding(c)
      j == Attempt(c, n)
      before == ChargedBefore(c, n)
  IN
  IF MadeAttempts(c) = 0 THEN Audited("not_started", 0, 0)
  ELSE IF ~job[j].request THEN Audited("refused", 0, 0)
  ELSE IF Unresolved(j) THEN Audited("running", 0, 0)
  ELSE IF ~Sealed(j) THEN
    IF n # MadeAttempts(c) THEN Audited("refused", 0, 0)
    ELSE Audited("unsealed", before + UnsealedCharge(j), before)
  ELSE IF job[j].receipt.status = "incomplete" THEN
    IF n # MadeAttempts(c) \/ job[j].receipt.actual # job[j].rows
      THEN Audited("refused", 0, 0)
      ELSE Audited("incomplete", before + job[j].receipt.charged, before)
  ELSE LET completed == before + job[j].receipt.charged
       IN Audited(IF completed = Updates THEN "completed" ELSE "resumable",
                  completed, completed)

EvaluationIsComplete(c, s) ==
  \E j \in Made(Evaluations(c, s)) : job[j].receipt.status = "completed"

CellIsComplete(c) ==
  /\ AuditedTraining(c).status = "completed"
  /\ \A s \in 1..SeedCount : EvaluationIsComplete(c, s)

Audit ==
  /\ At("audit")
  /\ \/ /\ \A c \in Cells : AuditedTraining(c).status # "refused"
        /\ Exit(IF \A c \in Cells : CellIsComplete(c) THEN "completed"
                                                      ELSE "incomplete")
     \/ Fail               \* evidence cannot be read again
  /\ UNCHANGED <<job, used>>

------------------------------------------------------------------------------
(* Workers: the learner and the evaluator, as the campaign sees them *)

Work(j) ==
  /\ IsTraining(j) /\ job[j].alive
  /\ job[j].rows < Reserved(j)
  /\ job' = [job EXCEPT ![j].rows = @ + 1]
  /\ UNCHANGED <<ctl, summary, used>>

(* It has all its updates, or its time is up between two rollouts or in    *)
(* the middle of one, or it fails.                                         *)
LearnerEnds(j) ==
  /\ IsTraining(j) /\ job[j].alive
  /\ \/ \E end \in {"stopped", "none"} :
          job' = [job EXCEPT ![j].alive = FALSE,
                             ![j].done = IF end = "none" THEN end
                                         ELSE IF job[j].rows = Reserved(j)
                                                THEN "completed" ELSE end]
     \/ /\ job[j].rows < Reserved(j)
        /\ job' = [job EXCEPT ![j].alive = FALSE, ![j].done = "stopped",
                              ![j].rows = @ + 1, ![j].short = TRUE]
  /\ UNCHANGED <<ctl, summary, used>>

EvaluatorEnds(j) ==
  /\ ~IsTraining(j) /\ job[j].alive
  /\ \E end \in {"completed", "failed"} :
       job' = [job EXCEPT ![j].alive = FALSE, ![j].done = end]
  /\ UNCHANGED <<ctl, summary, used>>

WorkerStep == \E j \in Jobs : Work(j) \/ LearnerEnds(j) \/ EvaluatorEnds(j)

------------------------------------------------------------------------------
(* Faults *)

Interruptible == ~At("off") /\ used.faults < MaxFaults

Faulted == used' = [used EXCEPT !.faults = @ + 1]

(* SIGKILL, or the machine: the worker is in a session of its own and      *)
(* stays.                                                                  *)
Kill ==
  /\ Interruptible
  /\ Faulted /\ Fail /\ UNCHANGED job

(* SIGINT or SIGTERM outside of worker: nothing more is written than the   *)
(* summary.                                                                *)
InterruptIdle ==
  /\ Interruptible
  /\ ctl.pc \notin {"spawn", "register", "watch"}
  /\ Exit("interrupted") /\ Faulted /\ UNCHANGED job

(* In worker, before its own try, the attempt is sealed if it can be.      *)
InterruptLaunch ==
  /\ Interruptible
  /\ ctl.pc \in {"launch", "spawn"} /\ IsTraining(ctl.job)
  /\ ctl' = [ctl EXCEPT !.pc = "seal", !.raised = TRUE]
  /\ summary' = "interrupted" /\ Faulted /\ UNCHANGED job

(* Within Popen the child may exist already, and nobody has its number.    *)
InterruptSpawn ==
  /\ Interruptible /\ At("spawn")
  /\ \E forked \in BOOLEAN :
       job' = [job EXCEPT ![ctl.job].record = "launch_failed",
                          ![ctl.job].alive = forked]
  /\ ctl' = IF IsTraining(ctl.job)
              THEN [ctl EXCEPT !.pc = "seal", !.raised = TRUE] ELSE Off
  /\ summary' = "interrupted" /\ Faulted

(* Before its start is known the child cannot be owned, and is left: the   *)
(* refusal (terminate_owned) takes the place of the interruption, so not   *)
(* even the summary is written.                                            *)
InterruptRegister ==
  /\ Interruptible /\ At("register") /\ job[ctl.job].alive
  /\ ctl' = IF IsTraining(ctl.job)
              THEN [ctl EXCEPT !.pc = "seal", !.raised = TRUE] ELSE Off
  /\ Faulted /\ UNCHANGED <<job, summary>>

(* Otherwise it is terminated and its end recorded.                        *)
InterruptWatch ==
  /\ Interruptible /\ ctl.pc \in {"register", "watch"}
  /\ \/ /\ job[ctl.job].alive
        /\ \E stopped \in Stopped(ctl.job) : job' = [job EXCEPT ![ctl.job] = stopped]
     \/ ~job[ctl.job].alive /\ Record("finished")
  /\ ctl' = IF IsTraining(ctl.job)
              THEN [ctl EXCEPT !.pc = "seal", !.raised = TRUE] ELSE Off
  /\ summary' = "interrupted" /\ Faulted

Fault == \/ Kill \/ InterruptIdle \/ InterruptLaunch \/ InterruptSpawn
         \/ InterruptRegister \/ InterruptWatch

------------------------------------------------------------------------------
(* The campaign *)

ControllerStep ==
  \/ Acquire \/ GiveUp \/ TrainDone \/ OutOfAttempts \/ TakeUpAttempt
  \/ OpenAttempt \/ WriteRequest \/ WriteLaunch \/ Spawn \/ SpawnFails
  \/ Register \/ Reap \/ Timeout \/ SealLater \/ SealAttempt \/ CheckReceipt
  \/ OpenEvaluation \/ TakeUpEvaluation \/ SealEvaluation \/ Audit

Next == Start \/ ControllerStep \/ WorkerStep \/ Fault

Spec == Init /\ [][Next]_vars

FairSpec == Spec /\ WF_vars(ControllerStep) /\ WF_vars(WorkerStep)

------------------------------------------------------------------------------
(* Properties *)

Places == {"off", "wait", "train", "request", "launch", "spawn", "register",
           "watch", "seal", "eval", "audit"}

Job == [made : BOOLEAN, request : BOOLEAN, start : Nat,
        record : {"absent", "launching", "launch_failed", "running", "finished"},
        alive : BOOLEAN, rows : Nat, short : BOOLEAN,
        done : {"none", "stopped", "completed", "failed"},
        receipt : [status : {"none", "incomplete", "resumable", "completed"},
                   charged : Nat, actual : Nat]]

Controller == [pc : Places, cell : Cells, seed : 1..SeedCount,
               n : 0..MaxRunAttempts, completed : Nat, job : Jobs, raised : BOOLEAN]

Summaries == {"absent", "waiting", "training", "evaluating", "interrupted",
              "completed", "incomplete"}

(* The files and the controller keep their types.                          *)
TypeOK ==
  /\ job \in [Jobs -> Job]
  /\ ctl \in Controller
  /\ summary \in Summaries
  /\ used \in [runs : Nat, faults : Nat]

(* Updates that have really been applied in a cell.                        *)
Rows(c) == [i \in 1..MaxRunAttempts |-> job[Attempt(c, i)].rows]

WorkedBefore(c, n) == SumTo(n - 1, Rows(c))

Worked(c) == WorkedBefore(c, MaxRunAttempts + 1)

Charged(c) == ChargedBefore(c, MaxRunAttempts + 1)

(* What a reader of the receipts and requests sees of the budget.          *)
OpenReservation(j) == IF job[j].request /\ ~Sealed(j) THEN Reserved(j) ELSE 0

OpenReservations(c) == [i \in 1..MaxRunAttempts |-> OpenReservation(Attempt(c, i))]

Outstanding(c) == SumTo(MaxRunAttempts, OpenReservations(c))

Closed(c) == \E j \in Attempts(c) : job[j].receipt.status = "incomplete"

Ledger(c) == INSTANCE ReservationLedger WITH
  Target <- Updates,
  ledger <- [charged |-> Charged(c), open |-> Outstanding(c),
             worked |-> Worked(c), closed |-> Closed(c)]

(* The attempts of a cell are reservations that are settled exactly or     *)
(* forfeited, whatever is killed or interrupted (train_cell and            *)
(* seal_training).                                                         *)
ImplementsLedger ==
  /\ \A c \in Cells : Ledger(c)!Init
  /\ [][\A c \in Cells : Ledger(c)!Step]_vars

(* No two workers of the campaign run at once, in this run or left behind  *)
(* by an earlier one.  The one exception is a child whose launch was       *)
(* interrupted before anybody had its number.                              *)
OneWorkerAtATime ==
  Cardinality({j \in Jobs : job[j].alive /\ job[j].record # "launch_failed"}) <= 1

(* An attempt starts where the last one ended: everything before it is     *)
(* sealed as an endpoint, has no process, and adds up to its start.        *)
ResumesAtEndpoint ==
  \A c \in Cells : \A n \in 1..MaxRunAttempts :
    job[Attempt(c, n)].request =>
      /\ \A i \in 1..(n - 1) :
           /\ job[Attempt(c, i)].receipt.status = "resumable"
           /\ ~job[Attempt(c, i)].alive /\ ~job[Attempt(c, i)].short
      /\ job[Attempt(c, n)].start = WorkedBefore(c, n)

(* An evaluation is of a cell that has its whole budget, and there is one  *)
(* for a seed, whatever came of it.                                        *)
EvaluatedOnce ==
  \A c \in Cells : \A s \in 1..SeedCount :
    LET made == Made(Evaluations(c, s))
    IN made # {} => /\ Cardinality(made) = 1
                    /\ Worked(c) = Updates
                    /\ \A j \in Attempts(c) : ~job[j].alive

(* What is or may come to be charged to a cell without new work.           *)
MayBeCharged(c) ==
  {Charged(c)} \cup
  {Charged(c) + ReceiptOf(j, probed).charged :
     j \in {i \in Attempts(c) : job[i].request /\ ~Sealed(i)}, probed \in BOOLEAN}

(* Whenever the audit is taken, it charges a cell at least for the work    *)
(* that was done and for what sealing may come to charge, and proves no    *)
(* more than was done (audit).                                             *)
AuditIsConservative ==
  \A c \in Cells :
    LET audited == AuditedTraining(c)
    IN audited.status \notin {"refused", "running", "not_started"} =>
         /\ audited.completed <= Worked(c) /\ Worked(c) <= audited.charged
         /\ \A charge \in MayBeCharged(c) : charge <= audited.charged

(* A run of the controller ends, whatever its workers do.                  *)
RunEnds == ~At("off") ~> At("off")

=============================================================================
