------------------------ MODULE LearningSessionProofs ------------------------
(***************************************************************************)
(* What LearningSession promises, proved for every budget, every number of *)
(* attempts, commands and reboots.                                         *)
(*                                                                         *)
(* The inductive invariant has one part per question: which attempts exist *)
(* (Numbered), who owns the lease (Leased), what the learner and its       *)
(* frontend know of each other's files (Heeded), what the journal's        *)
(* counters say of the learner that is working (Accounted), and what a     *)
(* final result stands for until the next learner works (Committed).       *)
(***************************************************************************)
EXTENDS LearningSession, FiniteSetTheorems, TLAPS

------------------------------------------------------------------------------
(* Types *)

Identities == {"none", "supervisor", "worker"}

Requests == [boot : Int, start : Nat, previous : {0} \cup Attempts]

Commands == [sequence : Nat, operation : Operations]

Reports == [identity : Identities, phase : Phases, ack : Int]

Results == [phase : {"none", "stopped", "completed"}, update : Nat, ack : Int]

Snapshots == [update : Nat, events : Nat, sequence : Int]

Receipts == [identity : Identities, returncode : Int]

Supervisors ==
  [pc : SupervisorRunning \cup {"none", "exiting", "gone"}, identity : Identities]

LearnerPcs == WorkerRunning \cup {"none", "exiting", "gone"}

Learners ==
  [pc : LearnerPcs, op : Operations, sequence : Int,
   update : Nat, signalled : BOOLEAN, returncode : Int]

Journals ==
  [exists : BOOLEAN, reserved : Nat, updates : Nat, events : Nat, pending : BOOLEAN,
   failed : BOOLEAN]

Frontends ==
  [pc : {"idle", "read", "prepared", "published", "spawned"}, attempt : {0} \cup Attempts,
   identity : Identities, phase : Phases, final : {"none", "stopped", "completed"}]

TypeOK ==
  /\ boot \in Nat /\ collected \in Nat
  /\ current \in {0} \cup Attempts
  /\ request \in [Attempts -> Requests]
  /\ launched \in [Attempts -> BOOLEAN]
  /\ control \in [Attempts -> Commands]
  /\ status \in [Attempts -> Reports]
  /\ result \in [Attempts -> Results]
  /\ snapshot \in [Attempts -> Snapshots]
  /\ exited \in [Attempts -> Receipts]
  /\ journal \in Journals
  /\ supervisor \in [Attempts -> Supervisors]
  /\ worker \in [Attempts -> Learners]
  /\ frontend \in Frontends

------------------------------------------------------------------------------
(* The inductive invariant *)

(* The attempts that were ever prepared come first, and nothing has         *)
(* happened in the others.                                                  *)
Untouched(a) ==
  /\ supervisor[a] = NoSupervisor /\ worker[a] = NoWorker
  /\ status[a].ack = -1 /\ result[a].phase = "none"

Numbered ==
  /\ \E n \in 0..MaxAttempts : \A a \in Attempts : request[a] # NoRequest <=> a <= n
  /\ \A a \in Attempts : request[a] = NoRequest => Untouched(a)
  /\ current # 0 => request[current] # NoRequest

(* The processes that hold the lease are those of the current attempt, and  *)
(* belong to this boot; a start that holds it is beside none but its own.   *)
SupervisorHolds(a) == supervisor[a].pc \notin {"none", "gone"}

WorkerHolds(a) == worker[a].pc \notin {"none", "gone"}

Leased ==
  /\ \A a \in Attempts :
       /\ SupervisorHolds(a) \/ WorkerHolds(a) => a = current /\ request[a].boot = boot
       /\ worker[a].pc # "none" => supervisor[a].pc \notin {"none", "starting", "spawning"}
  /\ frontend.pc = "read" => frontend.attempt = current
  /\ frontend.pc \in {"prepared", "published"} =>
       /\ \A a \in Attempts : ~SupervisorHolds(a) /\ ~WorkerHolds(a)
       /\ frontend.attempt # 0
       /\ request[frontend.attempt] # NoRequest
       /\ request[frontend.attempt].boot = boot
       /\ Untouched(frontend.attempt)
  /\ frontend.pc \in {"published", "spawned"} => frontend.attempt = current /\ current # 0

(* What a learner has read of its commands, and acknowledged.               *)
Unbegun == {"none", "starting", "loading"}
Heeding == WorkerLoop \ Finishing

Heeds(a) ==
  /\ worker[a].pc \in Unbegun =>
       /\ worker[a] = [NoWorker EXCEPT !.pc = worker[a].pc]
       /\ status[a].ack = -1
  /\ worker[a].pc \in Heeding =>
       /\ status[a].ack <= worker[a].sequence
       /\ worker[a].sequence <= control[a].sequence
       /\ worker[a].sequence = control[a].sequence => worker[a].op = control[a].operation
       /\ worker[a].pc \in {"boundary", "collecting", "reserved", "optimizing"} =>
            worker[a].op = "resume"
       /\ worker[a].pc = "deciding" /\ ~worker[a].signalled => worker[a].op # "pause"

Heeded == \A a \in Attempts : Heeds(a)

(* The journal's counters: one rollout at most is charged and not trained.  *)
Balanced ==
  /\ journal.reserved <= Target
  /\ ~(journal.pending /\ journal.failed)
  /\ ~journal.exists => /\ journal.reserved = 0 /\ ~journal.pending /\ ~journal.failed
  /\ IF journal.pending \/ journal.failed
     THEN /\ journal.reserved = journal.updates + 1
          /\ collected \in {journal.updates, journal.reserved}
     ELSE journal.reserved = journal.updates /\ collected = journal.reserved

Works(a) ==
  worker[a].pc \in WorkerLoop =>
    /\ journal.exists /\ ~journal.failed
    /\ worker[a].update = journal.updates
    /\ journal.pending <=> worker[a].pc \in {"reserved", "optimizing"}
    /\ worker[a].pc = "reserved" => collected = journal.updates
    /\ worker[a].pc = "optimizing" => collected = journal.reserved
    /\ worker[a].pc \in {"boundary", "checkpointing", "paused", "deciding", "collecting"} =>
         ~Complete

Accounted == Balanced /\ \A a \in Attempts : Works(a)

(* What the snapshot and the result of an attempt say of the journal.       *)
Matches(a) ==
  /\ journal.exists /\ ~journal.pending /\ ~journal.failed
  /\ snapshot[a].update = journal.updates
  /\ snapshot[a].events = journal.events

Final(a) ==
  /\ result[a].phase # "none" =>
       /\ worker[a].pc \in {"committed", "exiting", "gone"}
       /\ result[a].update = snapshot[a].update
  /\ result[a].phase = "stopped" => result[a].update # Target
  /\ a = current /\ (result[a].phase # "none" \/ worker[a].pc \in {"saved", "committed"})
       => Matches(a)

(* An attempt that has not begun finds its predecessor as start() left it.  *)
Awaits(a) ==
  LET p == request[a].previous IN
  /\ p # 0 /\ worker[a].pc \in Unbegun
  /\ a = current \/ (frontend.pc = "prepared" /\ a = frontend.attempt)
  => /\ p # a /\ CleanEndpoint(p) /\ Matches(p)
     /\ request[a].start = result[p].update

Committed == \A a \in Attempts : Final(a) /\ Awaits(a)

Invariant == TypeOK /\ Numbered /\ Leased /\ Heeded /\ Accounted /\ Committed

------------------------------------------------------------------------------
(* Types are kept *)

LEMMA RowTypes ==
  ASSUME TypeOK, NEW a \in Attempts
  PROVE  /\ request[a] \in Requests /\ control[a] \in Commands /\ status[a] \in Reports
         /\ result[a] \in Results /\ snapshot[a] \in Snapshots /\ exited[a] \in Receipts
         /\ supervisor[a] \in Supervisors /\ worker[a] \in Learners
  BY DEF TypeOK

LEMMA TypeInit == Init => TypeOK
<1>1. NoRequest \in Requests /\ NoStatus \in Reports /\ NoResult \in Results
  BY DEF NoRequest, NoStatus, NoResult, Requests, Reports, Results, Identities, Phases
<1>2. NoSnapshot \in Snapshots /\ NoExit \in Receipts /\ NoSupervisor \in Supervisors
  BY DEF NoSnapshot, NoExit, NoSupervisor, Snapshots, Receipts, Supervisors, Identities
<1>3. NoWorker \in Learners /\ NoFrontend \in Frontends
  BY DEF NoWorker, NoFrontend, Learners, LearnerPcs, Frontends, Operations, Identities, Phases
<1> QED
  BY <1>1, <1>2, <1>3 DEF Init, TypeOK, Commands, Operations, Journals

LEMMA FrontendTypes ==
  ASSUME TypeOK, FrontendStep
  PROVE  TypeOK'
<1> USE DEF TypeOK, frontendFiles, learnerFiles, files, OthersUnchanged
<1>1. NoFrontend \in Frontends
  BY DEF NoFrontend, Frontends, Identities, Phases
<1>2. CASE ReadStatus
  <2>1. frontend' \in Frontends
    BY <1>1, <1>2 DEF ReadStatus, Frontends, NoFrontend, Reports, Results
  <2> QED
    BY <1>2, <2>1 DEF ReadStatus
<1>3. ASSUME NEW operation \in Operations, Command(operation)
      PROVE  TypeOK'
  <2>1. control' \in [Attempts -> Commands]
    <3>1. CASE frontend.attempt \in Attempts
      <4>1. control[frontend.attempt].sequence + 1 \in Nat
        BY <3>1, RowTypes DEF Commands
      <4> QED
        BY <1>3, <4>1 DEF Command, Commands
    <3>2. CASE frontend.attempt \notin Attempts
      BY <1>3, <3>2 DEF Command
    <3> QED
      BY <3>1, <3>2
  <2> QED
    BY <1>1, <1>3, <2>1 DEF Command
<1>4. ASSUME NEW paused \in BOOLEAN, PrepareAttempt(paused)
      PROVE  TypeOK'
  <2>1. request' \in [Attempts -> Requests]
    BY <1>4 DEF PrepareAttempt, Requests, Results, Frontends
  <2>2. control' \in [Attempts -> Commands]
    BY <1>4 DEF PrepareAttempt, Commands, Operations
  <2>3. frontend' \in Frontends
    BY <1>1, <1>4 DEF PrepareAttempt, Frontends, NoFrontend
  <2> QED
    BY <1>4, <2>1, <2>2, <2>3 DEF PrepareAttempt
<1>5. CASE PublishCurrent
  BY <1>5 DEF PublishCurrent, Frontends
<1>6. CASE SpawnSupervisor
  BY <1>6 DEF SpawnSupervisor, Frontends, Supervisors, SupervisorRunning
<1>7. CASE BindLaunch
  BY <1>1, <1>7 DEF BindLaunch
<1>8. CASE FrontendEnds
  BY <1>1, <1>8 DEF FrontendEnds
<1> QED
  BY <1>2, <1>3, <1>4, <1>5, <1>6, <1>7, <1>8 DEF FrontendStep

(* Whatever a supervisor or a learner does.                                 *)
Supervises(a) == SupervisorStep(a) \/ SupervisorKilled(a)

Learns(a) == WorkerStep(a) \/ Signal(a) \/ WorkerFails(a) \/ WorkerKilled(a)

LEMMA SupervisorTypes ==
  ASSUME TypeOK, NEW a \in Attempts, Supervises(a)
  PROVE  TypeOK'
<1> USE DEF TypeOK, frontendFiles, learnerFiles, files, Supervise, Supervisors, SupervisorRunning
<1>1. CASE SupervisorPublishes(a)
  BY <1>1 DEF SupervisorPublishes, PublishStatus, Reports, Identities, Phases
<1>2. CASE SpawnWorker(a)
  <2>1. worker' \in [Attempts -> Learners]
    BY <1>2, ZenonT(30) DEF SpawnWorker, Learners, LearnerPcs, WorkerRunning
  <2> QED
    BY <1>2, <2>1 DEF SpawnWorker
<1>3. CASE BindWorker(a)
  BY <1>3 DEF BindWorker, Identities
<1>4. CASE RecordExit(a)
  BY <1>4 DEF RecordExit, Receipts, Identities, Learners
<1>5. CASE SupervisorGone(a)
  BY <1>5 DEF SupervisorGone
<1>6. CASE SupervisorKilled(a)
  BY <1>6 DEF SupervisorKilled
<1> QED
  BY <1>1, <1>2, <1>3, <1>4, <1>5, <1>6 DEF Supervises, SupervisorStep

(* The changes of several fields at once keep the type.                     *)
LEMMA ExitingRow ==
  \A w \in Learners, pc \in LearnerPcs, code \in Int :
    [w EXCEPT !.pc = pc, !.returncode = code] \in Learners
  BY Zenon DEF Learners

LEMMA SequencedRow ==
  \A w \in Learners, pc \in LearnerPcs, sequence \in Int :
    [w EXCEPT !.pc = pc, !.sequence = sequence] \in Learners
  BY Zenon DEF Learners

LEMMA CommandedRow ==
  \A w \in Learners, pc \in LearnerPcs, op \in Operations, sequence \in Int :
    [w EXCEPT !.pc = pc, !.op = op, !.sequence = sequence] \in Learners
  BY Zenon DEF Learners

LEMMA ReservedJournal ==
  \A j \in Journals, reserved \in Nat, events \in Nat :
    [j EXCEPT !.reserved = reserved, !.events = events, !.pending = TRUE] \in Journals
  BY Zenon DEF Journals

LEMMA FinishedJournal ==
  \A j \in Journals, updates \in Nat, events \in Nat :
    [j EXCEPT !.updates = updates, !.pending = FALSE, !.events = events] \in Journals
  BY Zenon DEF Journals

LEMMA SealedJournal ==
  \A j \in Journals, events \in Nat :
    [j EXCEPT !.pending = FALSE, !.failed = TRUE, !.events = events] \in Journals
  BY Zenon DEF Journals

LEMMA LearnerUpdates ==
  ASSUME TypeOK, NEW a \in Attempts
  PROVE  /\ \A pc \in LearnerPcs : Worker(a, pc) => worker' \in [Attempts -> Learners]
         /\ \A code \in Int : Exits(a, code) => worker' \in [Attempts -> Learners]
         /\ \A identity \in Identities, phase \in Phases, ack \in Int :
              PublishStatus(a, identity, phase, ack) => status' \in [Attempts -> Reports]
<1>1. ASSUME NEW pc \in LearnerPcs, Worker(a, pc)
      PROVE  worker' \in [Attempts -> Learners]
  BY <1>1 DEF TypeOK, Learners, Worker
<1>2. ASSUME NEW code \in Int, Exits(a, code)
      PROVE  worker' \in [Attempts -> Learners]
  <2>1. NoWorker \in Learners
    BY DEF NoWorker, Learners, LearnerPcs, Operations
  <2>2. [NoWorker EXCEPT !.pc = "exiting", !.returncode = code] \in Learners
    <3>1. "exiting" \in LearnerPcs
      BY DEF LearnerPcs
    <3> QED
      BY <2>1, <3>1, ExitingRow, Zenon
  <2> QED
    BY <1>2, <2>2 DEF Exits, TypeOK
<1>3. ASSUME NEW identity \in Identities, NEW phase \in Phases, NEW ack \in Int,
             PublishStatus(a, identity, phase, ack)
      PROVE  status' \in [Attempts -> Reports]
  BY <1>3 DEF PublishStatus, TypeOK, Reports
<1> QED
  BY <1>1, <1>2, <1>3

LEMMA LearnerTypes ==
  ASSUME TypeOK, NEW a \in Attempts, Learns(a)
  PROVE  TypeOK'
<1> DEFINE WorkerTyped == worker' \in [Attempts -> Learners]
           StatusTyped == status' \in [Attempts -> Reports]
           JournalTyped == journal' \in Journals
           Steady == UNCHANGED <<result, snapshot, collected>> /\ RestUnchanged
<1>1. ASSUME Steady, WorkerTyped, StatusTyped, JournalTyped
      PROVE  TypeOK'
  BY <1>1 DEF TypeOK, RestUnchanged, frontendFiles
<1>2. /\ worker[a] \in Learners /\ control[a] \in Commands /\ status[a] \in Reports
      /\ snapshot[a] \in Snapshots /\ result[a] \in Results
      /\ journal \in Journals
  BY RowTypes DEF TypeOK
<1>3. /\ UNCHANGED worker => WorkerTyped
      /\ UNCHANGED status => StatusTyped
      /\ UNCHANGED journal => JournalTyped
  BY DEF TypeOK
<1>4. CASE WorkerPublishes(a)
  <2>1. WorkerTyped
    BY <1>4, LearnerUpdates DEF WorkerPublishes, LearnerPcs, WorkerRunning, WorkerLoop
  <2>2. StatusTyped
    BY <1>4, <1>2, LearnerUpdates DEF WorkerPublishes, Publishes, Identities, Phases, Reports, Learners, Results
  <2> QED
    BY <1>1, <1>3, <1>4, <2>1, <2>2 DEF WorkerPublishes, learnerFiles
<1>5. CASE StartFresh(a)
  <2>1. WorkerTyped
    BY <1>5, LearnerUpdates DEF StartFresh, LearnerPcs, WorkerRunning, WorkerLoop
  <2>2. JournalTyped
    BY <1>5, <1>2 DEF StartFresh, Journals, Learners
  <2> QED
    BY <1>1, <1>3, <1>5, <2>1, <2>2 DEF StartFresh, learnerFiles
<1>6. CASE ColdResume(a)
  <2>1. WorkerTyped
    BY <1>6, <1>2 DEF ColdResume, TypeOK, Learners, LearnerPcs, WorkerRunning, WorkerLoop, Snapshots, Requests
  <2> QED
    BY <1>1, <1>3, <1>6, <2>1 DEF ColdResume, learnerFiles
<1>7. CASE RefuseResume(a)
  <2>1. WorkerTyped
    BY <1>7, LearnerUpdates DEF RefuseResume
  <2>2. StatusTyped
    BY <1>7, <1>2, LearnerUpdates DEF RefuseResume, Publishes, Identities, Phases, Reports, Learners, Results
  <2> QED
    BY <1>1, <1>3, <1>7, <2>1, <2>2 DEF RefuseResume, learnerFiles
<1>8. CASE Signal(a)
  <2>1. WorkerTyped
    BY <1>8, <1>2 DEF Signal, TypeOK, Learners, LearnerPcs, WorkerRunning, WorkerLoop
  <2> QED
    BY <1>1, <1>3, <1>8, <2>1 DEF Signal, learnerFiles
<1>9. CASE ReadRequest(a)
  <2>1. WorkerTyped
    <3> DEFINE pc == IF control[a].operation = "pause" THEN "checkpointing" ELSE "deciding"
               row == [worker[a] EXCEPT !.pc = pc, !.op = control[a].operation,
                                        !.sequence = control[a].sequence]
    <3>1. worker' = [worker EXCEPT ![a] = row]
      BY <1>9, Zenon DEF ReadRequest, TypeOK
    <3>2. row \in Learners
      <4>1. pc \in LearnerPcs
        BY DEF LearnerPcs, WorkerRunning, WorkerLoop
      <4>2. control[a].operation \in Operations /\ control[a].sequence \in Int
        BY <1>2 DEF Commands
      <4> QED
        BY <1>2, <4>1, <4>2, CommandedRow, Zenon
    <3> QED
      BY <3>1, <3>2 DEF TypeOK
  <2>2. StatusTyped
    BY <1>9, <1>2, LearnerUpdates DEF ReadRequest, Publishes, Identities, Phases, Reports, Learners, Results
  <2> QED
    BY <1>1, <1>3, <1>9, <2>1, <2>2 DEF ReadRequest, learnerFiles
<1>10. CASE AcknowledgePause(a)
  <2>1. WorkerTyped
    BY <1>10, LearnerUpdates DEF AcknowledgePause, LearnerPcs, WorkerRunning, WorkerLoop
  <2>2. StatusTyped
    BY <1>10, <1>2, LearnerUpdates DEF AcknowledgePause, Publishes, Identities, Phases, Reports, Learners, Results
  <2>3. JournalTyped
    BY <1>10, <1>2 DEF AcknowledgePause, Journals, Learners
  <2> QED
    BY <1>1, <1>3, <1>10, <2>1, <2>2, <2>3 DEF AcknowledgePause, learnerFiles
<1>11. CASE Poll(a)
  <2>1. WorkerTyped
    <3> DEFINE pc == IF control[a].operation = "pause" THEN "paused" ELSE "deciding"
               row == [worker[a] EXCEPT !.pc = pc, !.op = control[a].operation,
                                        !.sequence = control[a].sequence]
    <3>1. CASE Worker(a, "deciding")
      BY <3>1, LearnerUpdates DEF LearnerPcs, WorkerRunning, WorkerLoop
    <3>2. CASE ~Worker(a, "deciding")
      <4>1. worker' = [worker EXCEPT ![a] = row]
        BY <1>11, <3>2, Zenon DEF Poll, TypeOK
      <4>2. pc \in LearnerPcs
        BY DEF LearnerPcs, WorkerRunning, WorkerLoop
      <4>3. control[a].operation \in Operations /\ control[a].sequence \in Int
        BY <1>2 DEF Commands
      <4>4. row \in Learners
        BY <1>2, <4>2, <4>3, CommandedRow, Zenon
      <4> QED
        BY <4>1, <4>4 DEF TypeOK
    <3> QED
      BY <3>1, <3>2
  <2> QED
    BY <1>1, <1>3, <1>11, <2>1 DEF Poll, learnerFiles
<1>12. CASE Decide(a)
  <2>1. WorkerTyped
    BY <1>12, LearnerUpdates DEF Decide, LearnerPcs, WorkerRunning, WorkerLoop
  <2>2. StatusTyped
    BY <1>12, <1>2, LearnerUpdates DEF Decide, Publishes, Identities, Phases, Reports, Learners, Results
  <2> QED
    BY <1>1, <1>3, <1>12, <2>1, <2>2 DEF Decide, learnerFiles
<1>13. CASE Reserve(a)
  <2>1. WorkerTyped
    BY <1>13, LearnerUpdates DEF Reserve, LearnerPcs, WorkerRunning, WorkerLoop
  <2>2. JournalTyped
    <3>1. journal.reserved + 1 \in Nat /\ journal.events + 1 \in Nat
      BY <1>2 DEF Journals
    <3> QED
      BY <1>2, <1>13, <3>1, ReservedJournal, Zenon DEF Reserve
  <2> QED
    BY <1>1, <1>3, <1>13, <2>1, <2>2 DEF Reserve, learnerFiles
<1>14. CASE Collect(a)
  <2>1. WorkerTyped
    BY <1>14, LearnerUpdates DEF Collect, LearnerPcs, WorkerRunning, WorkerLoop
  <2>2. StatusTyped
    BY <1>14, <1>2, LearnerUpdates DEF Collect, Publishes, Identities, Phases, Reports, Learners, Results
  <2>3. collected' \in Nat
    BY <1>14 DEF Collect, TypeOK
  <2> QED
    BY <1>3, <1>14, <2>1, <2>2, <2>3 DEF Collect, TypeOK, RestUnchanged, frontendFiles
<1>15. CASE Update(a)
  <2>1. WorkerTyped
    BY <1>15, <1>2 DEF Update, TypeOK, Learners, LearnerPcs, WorkerRunning, WorkerLoop
  <2>2. JournalTyped
    <3>1. worker[a].update + 1 \in Nat
      BY <1>2 DEF Learners
    <3>2. journal.events + (IF ~Complete /\ (worker[a].update + 1) % Interval = 0 THEN 2 ELSE 1)
            \in Nat
      BY <1>2 DEF Journals
    <3> QED
      BY <1>2, <1>15, <3>1, <3>2, FinishedJournal, Zenon DEF Update
  <2> QED
    BY <1>1, <1>3, <1>15, <2>1, <2>2 DEF Update, learnerFiles
<1>16. CASE WorkerFails(a)
  <2>1. WorkerTyped
    BY <1>16, LearnerUpdates DEF WorkerFails
  <2>2. StatusTyped
    BY <1>16, <1>2, LearnerUpdates DEF WorkerFails, Publishes, Identities, Phases, Reports, Learners, Results
  <2>3. JournalTyped
    <3>1. journal.events + 1 \in Nat
      BY <1>2 DEF Journals
    <3> QED
      BY <1>2, <1>16, <3>1, SealedJournal, Zenon DEF WorkerFails
  <2> QED
    BY <1>1, <1>3, <1>16, <2>1, <2>2, <2>3 DEF WorkerFails, learnerFiles
<1>17. CASE BeginFinish(a)
  <2>1. WorkerTyped
    <3> DEFINE row == [worker[a] EXCEPT !.pc = "saving", !.sequence = control[a].sequence]
    <3>1. worker' = [worker EXCEPT ![a] = row]
      BY <1>17, Zenon DEF BeginFinish, TypeOK
    <3>2. "saving" \in LearnerPcs /\ control[a].sequence \in Int
      BY <1>2 DEF Commands, LearnerPcs, WorkerRunning, WorkerLoop
    <3>3. row \in Learners
      BY <1>2, <3>2, SequencedRow, Zenon
    <3> QED
      BY <3>1, <3>3 DEF TypeOK
  <2> QED
    BY <1>1, <1>3, <1>17, <2>1 DEF BeginFinish, learnerFiles
<1>18. CASE SaveFinal(a)
  <2>1. WorkerTyped
    BY <1>18, LearnerUpdates DEF SaveFinal, LearnerPcs, WorkerRunning, WorkerLoop
  <2>2. JournalTyped
    BY <1>18, <1>2 DEF SaveFinal, Journals, Learners
  <2>3. snapshot' \in [Attempts -> Snapshots]
    BY <1>18, <1>2 DEF SaveFinal, TypeOK, Snapshots, Learners, Journals
  <2> QED
    BY <1>3, <1>18, <2>1, <2>2, <2>3 DEF SaveFinal, TypeOK, RestUnchanged, frontendFiles
<1>19. CASE CommitResult(a)
  <2>1. WorkerTyped
    BY <1>19, LearnerUpdates DEF CommitResult, LearnerPcs, WorkerRunning, WorkerLoop
  <2>2. result' \in [Attempts -> Results]
    BY <1>19, <1>2 DEF CommitResult, TypeOK, Results, Learners, Commands
  <2> QED
    BY <1>3, <1>19, <2>1, <2>2 DEF CommitResult, TypeOK, RestUnchanged, frontendFiles
<1>20. CASE WorkerReturns(a)
  <2>1. WorkerTyped
    BY <1>20, LearnerUpdates DEF WorkerReturns
  <2>2. StatusTyped
    BY <1>20, <1>2, LearnerUpdates DEF WorkerReturns, Publishes, Identities, Phases, Reports, Learners, Results
  <2> QED
    BY <1>1, <1>3, <1>20, <2>1, <2>2 DEF WorkerReturns, learnerFiles
<1>21. CASE WorkerKilled(a)
  <2>1. WorkerTyped
    BY <1>21, LearnerUpdates DEF WorkerKilled
  <2> QED
    BY <1>1, <1>3, <1>21, <2>1 DEF WorkerKilled, learnerFiles
<1>22. CASE WorkerGone(a)
  <2>1. WorkerTyped
    BY <1>22, LearnerUpdates DEF WorkerGone, LearnerPcs, WorkerRunning, WorkerLoop
  <2> QED
    BY <1>1, <1>3, <1>22, <2>1 DEF WorkerGone, learnerFiles
<1> QED
  BY <1>4, <1>5, <1>6, <1>7, <1>8, <1>9, <1>10, <1>11, <1>12, <1>13, <1>14, <1>15, <1>16, <1>17, <1>18, <1>19, <1>20, <1>21, <1>22
  DEF Learns, WorkerStep

LEMMA TypeKept == TypeOK /\ [Next]_vars => TypeOK'
<1> SUFFICES ASSUME TypeOK, [Next]_vars
             PROVE  TypeOK'
  OBVIOUS
<1>1. CASE FrontendStep
  BY <1>1, FrontendTypes
<1>2. ASSUME NEW a \in Attempts, SupervisorStep(a) \/ WorkerStep(a) \/ Fault(a)
      PROVE  TypeOK'
  BY <1>2, SupervisorTypes, LearnerTypes DEF Fault, Supervises, Learns
<1>3. CASE Reboot
  <2>1. boot' \in Nat /\ frontend' \in Frontends
    BY <1>3 DEF Reboot, TypeOK, NoFrontend, Frontends, Identities, Phases
  <2>2. supervisor' \in [Attempts -> Supervisors]
    BY <1>3 DEF Reboot, TypeOK, Supervisors
  <2>3. worker' \in [Attempts -> Learners]
    <3>1. \A w \in Learners : [w EXCEPT !.pc = "gone"] \in Learners
      BY DEF Learners, LearnerPcs
    <3> QED
      BY <1>3, <3>1 DEF Reboot, TypeOK
  <2> QED
    BY <1>3, <2>1, <2>2, <2>3 DEF Reboot, TypeOK, files, frontendFiles, learnerFiles
<1>4. CASE UNCHANGED vars
  BY <1>4 DEF TypeOK, vars, files, frontendFiles, learnerFiles
<1> QED
  BY <1>1, <1>2, <1>3, <1>4 DEF Next

------------------------------------------------------------------------------
(* What a step leaves alone *)

(* A learner touches nothing but its own row of its own files.              *)
LEMMA LearnerFrame ==
  ASSUME TypeOK, NEW a \in Attempts, Learns(a)
  PROVE  /\ UNCHANGED <<current, request, launched, control, exited, boot, supervisor, frontend>>
         /\ worker[a].pc \notin {"none", "gone"} /\ worker'[a].pc # "none"
         /\ \A b \in Attempts \ {a} :
              /\ worker'[b] = worker[b] /\ status'[b] = status[b]
              /\ result'[b] = result[b] /\ snapshot'[b] = snapshot[b]
<1> USE DEF TypeOK, RestUnchanged, frontendFiles, learnerFiles
<1>1. CASE WorkerPublishes(a)
  BY <1>1 DEF WorkerPublishes, Worker, Publishes, PublishStatus, Exits, WorkerRunning, WorkerLoop, Finishing, Learners
<1>2. CASE StartFresh(a)
  BY <1>2 DEF StartFresh, Worker, Publishes, PublishStatus, Exits, WorkerRunning, WorkerLoop, Finishing, Learners
<1>3. CASE ColdResume(a)
  BY <1>3 DEF ColdResume, Worker, Publishes, PublishStatus, Exits, WorkerRunning, WorkerLoop, Finishing, Learners
<1>4. CASE RefuseResume(a)
  BY <1>4 DEF RefuseResume, Worker, Publishes, PublishStatus, Exits, WorkerRunning, WorkerLoop, Finishing, Learners
<1>5. CASE Signal(a)
  BY <1>5 DEF Signal, Worker, Publishes, PublishStatus, Exits, WorkerRunning, WorkerLoop, Finishing, Learners
<1>6. CASE ReadRequest(a)
  BY <1>6 DEF ReadRequest, Worker, Publishes, PublishStatus, Exits, WorkerRunning, WorkerLoop, Finishing, Learners
<1>7. CASE AcknowledgePause(a)
  BY <1>7 DEF AcknowledgePause, Worker, Publishes, PublishStatus, Exits, WorkerRunning, WorkerLoop, Finishing, Learners
<1>8. CASE Poll(a)
  BY <1>8 DEF Poll, Worker, Publishes, PublishStatus, Exits, WorkerRunning, WorkerLoop, Finishing, Learners
<1>9. CASE Decide(a)
  BY <1>9 DEF Decide, Worker, Publishes, PublishStatus, Exits, WorkerRunning, WorkerLoop, Finishing, Learners
<1>10. CASE Reserve(a)
  BY <1>10 DEF Reserve, Worker, Publishes, PublishStatus, Exits, WorkerRunning, WorkerLoop, Finishing, Learners
<1>11. CASE Collect(a)
  BY <1>11 DEF Collect, Worker, Publishes, PublishStatus, Exits, WorkerRunning, WorkerLoop, Finishing, Learners
<1>12. CASE Update(a)
  BY <1>12 DEF Update, Worker, Publishes, PublishStatus, Exits, WorkerRunning, WorkerLoop, Finishing, Learners
<1>13. CASE WorkerFails(a)
  BY <1>13 DEF WorkerFails, Worker, Publishes, PublishStatus, Exits, WorkerRunning, WorkerLoop, Finishing, Learners
<1>14. CASE BeginFinish(a)
  BY <1>14 DEF BeginFinish, Worker, Publishes, PublishStatus, Exits, WorkerRunning, WorkerLoop, Finishing, Learners
<1>15. CASE SaveFinal(a)
  BY <1>15 DEF SaveFinal, Worker, Publishes, PublishStatus, Exits, WorkerRunning, WorkerLoop, Finishing, Learners
<1>16. CASE CommitResult(a)
  BY <1>16 DEF CommitResult, Worker, Publishes, PublishStatus, Exits, WorkerRunning, WorkerLoop, Finishing, Learners
<1>17. CASE WorkerReturns(a)
  BY <1>17 DEF WorkerReturns, Worker, Publishes, PublishStatus, Exits, WorkerRunning, WorkerLoop, Finishing, Learners
<1>18. CASE WorkerKilled(a)
  BY <1>18 DEF WorkerKilled, Worker, Publishes, PublishStatus, Exits, WorkerRunning, WorkerLoop, Finishing, Learners
<1>19. CASE WorkerGone(a)
  BY <1>19 DEF WorkerGone, Worker, Publishes, PublishStatus, Exits, WorkerRunning, WorkerLoop, Finishing, Learners
<1> QED
  BY <1>1, <1>2, <1>3, <1>4, <1>5, <1>6, <1>7, <1>8, <1>9, <1>10, <1>11, <1>12, <1>13, <1>14, <1>15, <1>16, <1>17, <1>18, <1>19
  DEF Learns, WorkerStep

(* A supervisor touches nothing but its own row, and one learner it spawns. *)
LEMMA SupervisorFrame ==
  ASSUME TypeOK, NEW a \in Attempts, Supervises(a)
  PROVE  /\ UNCHANGED <<current, request, launched, control, result, snapshot, journal, boot,
                        frontend, collected>>
         /\ supervisor[a].pc \notin {"none", "gone"}
         /\ \A b \in Attempts \ {a} :
              /\ worker'[b] = worker[b] /\ status'[b] = status[b]
              /\ supervisor'[b] = supervisor[b] /\ exited'[b] = exited[b]
         /\ SpawnWorker(a) \/ UNCHANGED worker
         /\ \/ status'[a].ack = status[a].ack
            \/ supervisor[a].pc = "starting" /\ status'[a].ack = -1
         /\ supervisor'[a].pc \notin {"none", "starting"}
         /\ supervisor'[a].pc = "spawning" => supervisor[a].pc = "starting"
<1> USE DEF TypeOK, frontendFiles, learnerFiles, files, Supervise, Supervisors, SupervisorRunning
<1>1. CASE SupervisorPublishes(a)
  BY <1>1 DEF SupervisorPublishes, PublishStatus, Reports
<1>2. CASE SpawnWorker(a)
  BY <1>2 DEF SpawnWorker
<1>3. CASE BindWorker(a)
  BY <1>3 DEF BindWorker
<1>4. CASE RecordExit(a)
  BY <1>4 DEF RecordExit
<1>5. CASE SupervisorGone(a)
  BY <1>5 DEF SupervisorGone
<1>6. CASE SupervisorKilled(a)
  BY <1>6 DEF SupervisorKilled
<1> QED
  BY <1>1, <1>2, <1>3, <1>4, <1>5, <1>6 DEF Supervises, SupervisorStep

(* Only a live process of the current attempt steps.                        *)
LEMMA LearnerIsCurrent ==
  ASSUME TypeOK, Leased, NEW a \in Attempts, Learns(a)
  PROVE  /\ a = current /\ request[a].boot = boot /\ WorkerHolds(a)
         /\ supervisor[a].pc \notin {"none", "starting", "spawning"}
         /\ frontend.pc \notin {"prepared", "published"}
  BY LearnerFrame DEF Leased, WorkerHolds

LEMMA SupervisorIsCurrent ==
  ASSUME TypeOK, Leased, NEW a \in Attempts, Supervises(a)
  PROVE  /\ a = current /\ request[a].boot = boot /\ SupervisorHolds(a)
         /\ frontend.pc \notin {"prepared", "published"}
  BY SupervisorFrame DEF Leased, SupervisorHolds

------------------------------------------------------------------------------
(* Learners and supervisors keep Numbered and Leased *)

LEMMA LearnerNumbered ==
  ASSUME TypeOK, Numbered, Leased, NEW a \in Attempts, Learns(a)
  PROVE  Numbered'
<1>1. UNCHANGED <<current, request, supervisor>> /\ worker[a].pc # "none"
  BY LearnerFrame
<1>2. ASSUME NEW b \in Attempts, request'[b] = NoRequest
      PROVE  Untouched(b)'
  <2>1. Untouched(b)
    BY <1>1, <1>2 DEF Numbered
  <2>2. b # a
    BY <1>1, <2>1 DEF Untouched, NoWorker
  <2> QED
    BY <1>1, <2>1, <2>2, LearnerFrame DEF Untouched
<1> QED
  BY <1>1, <1>2 DEF Numbered

LEMMA LearnerLeased ==
  ASSUME TypeOK, Leased, NEW a \in Attempts, Learns(a)
  PROVE  Leased'
<1>1. UNCHANGED <<current, request, supervisor, boot, frontend>>
  BY LearnerFrame
<1>2. ASSUME NEW b \in Attempts
      PROVE  /\ SupervisorHolds(b)' \/ WorkerHolds(b)' => b = current' /\ request'[b].boot = boot'
             /\ worker'[b].pc # "none" => supervisor'[b].pc \notin {"none", "starting", "spawning"}
  <2>1. CASE b = a
    BY <1>1, <2>1, LearnerIsCurrent
  <2>2. CASE b # a
    BY <1>1, <2>2, LearnerFrame DEF Leased, SupervisorHolds, WorkerHolds
  <2> QED
    BY <2>1, <2>2
<1> QED
  BY <1>1, <1>2, LearnerIsCurrent DEF Leased

LEMMA SupervisorNumbered ==
  ASSUME TypeOK, Numbered, Leased, NEW a \in Attempts, Supervises(a)
  PROVE  Numbered'
<1>1. UNCHANGED <<current, request, result>> /\ supervisor[a].pc # "none"
  BY SupervisorFrame
<1>2. ASSUME NEW b \in Attempts, request'[b] = NoRequest
      PROVE  Untouched(b)'
  <2>1. Untouched(b)
    BY <1>1, <1>2 DEF Numbered
  <2>2. b # a
    BY <1>1, <2>1 DEF Untouched, NoSupervisor
  <2> QED
    BY <1>1, <2>1, <2>2, SupervisorFrame DEF Untouched
<1> QED
  BY <1>1, <1>2 DEF Numbered

LEMMA SupervisorLeased ==
  ASSUME TypeOK, Leased, NEW a \in Attempts, Supervises(a)
  PROVE  Leased'
<1>1. UNCHANGED <<current, request, boot, frontend>>
  BY SupervisorFrame
<1>2. ASSUME NEW b \in Attempts
      PROVE  /\ SupervisorHolds(b)' \/ WorkerHolds(b)' => b = current' /\ request'[b].boot = boot'
             /\ worker'[b].pc # "none" => supervisor'[b].pc \notin {"none", "starting", "spawning"}
  <2>1. CASE b = a
    <3>1. CASE SpawnWorker(a)
      BY <1>1, <2>1, <3>1, SupervisorIsCurrent DEF SpawnWorker, Supervise, TypeOK
    <3>2. CASE UNCHANGED worker
      BY <1>1, <2>1, <3>2, SupervisorIsCurrent, SupervisorFrame DEF Leased
    <3> QED
      BY <3>1, <3>2, SupervisorFrame
  <2>2. CASE b # a
    BY <1>1, <2>2, SupervisorFrame DEF Leased, SupervisorHolds, WorkerHolds
  <2> QED
    BY <2>1, <2>2
<1> QED
  BY <1>1, <1>2, SupervisorIsCurrent DEF Leased

------------------------------------------------------------------------------
(* A supervisor keeps the rest of the invariant *)

LEMMA SupervisorHeeded ==
  ASSUME TypeOK, Leased, Heeded, NEW a \in Attempts, Supervises(a)
  PROVE  Heeded'
<1>1. UNCHANGED control
  BY SupervisorFrame
<1>2. ASSUME NEW b \in Attempts
      PROVE  Heeds(b)'
  <2>1. Heeds(b)
    BY DEF Heeded
  <2>2. CASE b # a
    BY <1>1, <2>1, <2>2, SupervisorFrame DEF Heeds
  <2>3. CASE b = a /\ SpawnWorker(a)
    <3>1. worker[a] = NoWorker /\ status[a].ack = -1
      BY <2>1, <2>3 DEF SpawnWorker, Leased, Heeds, Unbegun, NoWorker
    <3> QED
      BY <2>3, <3>1 DEF SpawnWorker, Heeds, Unbegun, Heeding, WorkerLoop, Finishing, files, learnerFiles, TypeOK
  <2>4. CASE b = a /\ UNCHANGED worker
    <3>1. supervisor[a].pc = "starting" => worker[a].pc = "none"
      BY DEF Leased
    <3>2. CASE status'[a].ack = status[a].ack
      BY <1>1, <2>1, <2>4, <3>2 DEF Heeds
    <3>3. CASE supervisor[a].pc = "starting" /\ status'[a].ack = -1
      BY <2>1, <2>4, <3>1, <3>3 DEF Heeds, Unbegun, Heeding, WorkerLoop
    <3> QED
      BY <3>2, <3>3, SupervisorFrame
  <2> QED
    BY <2>2, <2>3, <2>4, SupervisorFrame
<1> QED
  BY <1>2 DEF Heeded

LEMMA SupervisorAccounted ==
  ASSUME TypeOK, Accounted, NEW a \in Attempts, Supervises(a)
  PROVE  Accounted'
<1>1. UNCHANGED <<journal, collected>>
  BY SupervisorFrame
<1>2. ASSUME NEW b \in Attempts
      PROVE  Works(b)'
  <2>1. Works(b)
    BY DEF Accounted
  <2>2. CASE worker'[b] = worker[b]
    BY <1>1, <2>1, <2>2 DEF Works, Complete
  <2>3. CASE SpawnWorker(a) /\ b = a
    BY <2>3 DEF SpawnWorker, Works, TypeOK, WorkerLoop
  <2> QED
    BY <2>2, <2>3, SupervisorFrame
<1> QED
  BY <1>1, <1>2 DEF Accounted, Balanced

LEMMA SupervisorCommitted ==
  ASSUME TypeOK, Leased, Committed, NEW a \in Attempts, Supervises(a)
  PROVE  Committed'
<1>1. UNCHANGED <<current, request, result, snapshot, journal, frontend>>
  BY SupervisorFrame
<1>2. a = current /\ frontend.pc # "prepared"
  BY SupervisorIsCurrent
<1>3. ASSUME NEW b \in Attempts
      PROVE  Final(b)' /\ Awaits(b)'
  <2>1. Final(b) /\ Awaits(b)
    BY DEF Committed
  <2>2. Final(b)'
    <3>1. CASE worker'[b] = worker[b]
      BY <1>1, <2>1, <3>1 DEF Final, Matches
    <3>2. CASE SpawnWorker(a) /\ b = a
      <4>1. worker[a].pc = "none" /\ worker'[a].pc = "starting"
        BY <3>2 DEF SpawnWorker, Leased, TypeOK
      <4> QED
        BY <1>1, <2>1, <3>2, <4>1 DEF Final
    <3> QED
      BY <3>1, <3>2, SupervisorFrame
  <2>3. Awaits(b)'
    <3>1. SUFFICES ASSUME b = current, request[b].previous # 0, worker'[b].pc \in Unbegun
                   PROVE  LET p == request[b].previous IN
                          /\ p # b /\ CleanEndpoint(p)' /\ Matches(p)
                          /\ request[b].start = result[p].update
      BY <1>1, <1>2 DEF Awaits, Matches
    <3>2. worker[b].pc \in Unbegun
      BY <3>1, SupervisorFrame DEF SpawnWorker, Leased, Unbegun
    <3>3. request[b].previous \in Attempts
      BY <3>1, RowTypes DEF Requests
    <3>4. request[b].previous # b /\ CleanEndpoint(request[b].previous)
      BY <2>1, <3>1, <3>2 DEF Awaits
    <3>5. exited'[request[b].previous] = exited[request[b].previous]
      BY <1>2, <3>1, <3>3, <3>4, SupervisorFrame
    <3> QED
      BY <1>1, <2>1, <3>1, <3>2, <3>4, <3>5 DEF Awaits, CleanEndpoint
  <2> QED
    BY <2>2, <2>3
<1> QED
  BY <1>3 DEF Committed

------------------------------------------------------------------------------
(* A learner keeps the rest of the invariant *)

LEMMA LearnerHeeds ==
  ASSUME TypeOK, Heeded, NEW a \in Attempts, Learns(a)
  PROVE  Heeded'
<1>1. control' = control /\ Heeds(a)
  BY LearnerFrame DEF Heeded
<1>2. worker[a] \in Learners /\ control[a] \in Commands /\ status[a] \in Reports
  BY RowTypes
<1> USE DEF Heeds, Unbegun, Heeding, WorkerLoop, Finishing
<1>3. Heeds(a)'
  <2>1. CASE WorkerPublishes(a)
    BY <1>1, <1>2, <2>1 DEF WorkerPublishes, TypeOK, Worker, Publishes, PublishStatus, Exits, NoWorker, Learners, Commands, Reports, Operations, learnerFiles
  <2>2. CASE StartFresh(a)
    <3>1. worker[a].op = "resume" /\ worker[a].sequence = -1 /\ status[a].ack = -1
      BY <1>1, <2>2 DEF StartFresh, NoWorker
    <3>2. /\ worker'[a].pc = "boundary" /\ worker'[a].op = worker[a].op
          /\ worker'[a].sequence = worker[a].sequence /\ status' = status
      BY <1>2, <2>2 DEF StartFresh, Worker, TypeOK, Learners
    <3> QED
      BY <1>1, <1>2, <3>1, <3>2 DEF Commands
  <2>3. CASE ColdResume(a)
    BY <1>1, <1>2, <2>3 DEF ColdResume, TypeOK, Worker, Publishes, PublishStatus, Exits, NoWorker, Learners, Commands, Reports, Operations, learnerFiles
  <2>4. CASE RefuseResume(a)
    BY <1>1, <1>2, <2>4 DEF RefuseResume, TypeOK, Worker, Publishes, PublishStatus, Exits, NoWorker, Learners, Commands, Reports, Operations, learnerFiles
  <2>5. CASE Signal(a)
    BY <1>1, <1>2, <2>5 DEF Signal, TypeOK, Worker, Publishes, PublishStatus, Exits, NoWorker, Learners, Commands, Reports, Operations, learnerFiles
  <2>6. CASE ReadRequest(a)
    BY <1>1, <1>2, <2>6 DEF ReadRequest, TypeOK, Worker, Publishes, PublishStatus, Exits, NoWorker, Learners, Commands, Reports, Operations, learnerFiles
  <2>7. CASE AcknowledgePause(a)
    BY <1>1, <1>2, <2>7 DEF AcknowledgePause, TypeOK, Worker, Publishes, PublishStatus, Exits, NoWorker, Learners, Commands, Reports, Operations, learnerFiles
  <2>8. CASE Poll(a)
    <3>1. CASE worker[a].signalled
      BY <1>1, <1>2, <2>8, <3>1 DEF Poll, TypeOK, Worker, Learners, learnerFiles
    <3>2. CASE ~worker[a].signalled
      BY <1>1, <1>2, <2>8, <3>2 DEF Poll, TypeOK, Learners, Commands, Reports, learnerFiles
    <3> QED
      BY <3>1, <3>2
  <2>9. CASE Decide(a)
    <3>1. CASE Worker(a, "finishing")
      BY <1>1, <1>2, <2>9, <3>1 DEF Worker, TypeOK, Learners
    <3>2. CASE Worker(a, "collecting") /\ Publishes(a, "live", worker[a].sequence)
      <4>1. worker[a].pc = "deciding" /\ worker[a].op # "stop" /\ ~worker[a].signalled
        BY <1>2, <2>9, <3>2 DEF Decide, Worker, TypeOK, Learners
      <4>2. worker[a].op = "resume"
        BY <1>1, <1>2, <4>1 DEF Learners, Operations
      <4> QED
        BY <1>1, <1>2, <3>2, <4>1, <4>2
        DEF Worker, Publishes, PublishStatus, TypeOK, Learners, Reports, Commands
    <3> QED
      BY <2>9, <3>1, <3>2 DEF Decide
  <2>10. CASE Reserve(a)
    BY <1>1, <1>2, <2>10 DEF Reserve, TypeOK, Worker, Publishes, PublishStatus, Exits, NoWorker, Learners, Commands, Reports, Operations, learnerFiles
  <2>11. CASE Collect(a)
    BY <1>1, <1>2, <2>11 DEF Collect, TypeOK, Worker, Publishes, PublishStatus, Exits, NoWorker, Learners, Commands, Reports, Operations, learnerFiles
  <2>12. CASE Update(a)
    BY <1>1, <1>2, <2>12 DEF Update, TypeOK, Worker, Publishes, PublishStatus, Exits, NoWorker, Learners, Commands, Reports, Operations, learnerFiles
  <2>13. CASE WorkerFails(a)
    BY <1>1, <1>2, <2>13 DEF WorkerFails, TypeOK, Worker, Publishes, PublishStatus, Exits, NoWorker, Learners, Commands, Reports, Operations, learnerFiles
  <2>14. CASE BeginFinish(a)
    BY <1>1, <1>2, <2>14 DEF BeginFinish, TypeOK, Worker, Publishes, PublishStatus, Exits, NoWorker, Learners, Commands, Reports, Operations, learnerFiles
  <2>15. CASE SaveFinal(a)
    BY <1>1, <1>2, <2>15 DEF SaveFinal, TypeOK, Worker, Publishes, PublishStatus, Exits, NoWorker, Learners, Commands, Reports, Operations, learnerFiles
  <2>16. CASE CommitResult(a)
    BY <1>1, <1>2, <2>16 DEF CommitResult, TypeOK, Worker, Publishes, PublishStatus, Exits, NoWorker, Learners, Commands, Reports, Operations, learnerFiles
  <2>17. CASE WorkerReturns(a)
    BY <1>1, <1>2, <2>17 DEF WorkerReturns, TypeOK, Worker, Publishes, PublishStatus, Exits, NoWorker, Learners, Commands, Reports, Operations, learnerFiles
  <2>18. CASE WorkerKilled(a)
    BY <1>1, <1>2, <2>18 DEF WorkerKilled, TypeOK, Worker, Publishes, PublishStatus, Exits, NoWorker, Learners, Commands, Reports, Operations, learnerFiles
  <2>19. CASE WorkerGone(a)
    BY <1>1, <1>2, <2>19 DEF WorkerGone, TypeOK, Worker, Publishes, PublishStatus, Exits, NoWorker, Learners, Commands, Reports, Operations, learnerFiles
  <2> QED
    BY <2>1, <2>2, <2>3, <2>4, <2>5, <2>6, <2>7, <2>8, <2>9, <2>10, <2>11, <2>12, <2>13, <2>14, <2>15, <2>16, <2>17, <2>18, <2>19
    DEF Learns, WorkerStep
<1>4. ASSUME NEW b \in Attempts \ {a}
      PROVE  Heeds(b)'
  BY <1>1, <1>4, LearnerFrame DEF Heeded
<1> QED
  BY <1>3, <1>4 DEF Heeded

LEMMA LearnerAccounted ==
  ASSUME TypeOK, Leased, Heeded, Accounted, Committed, NEW a \in Attempts, Learns(a)
  PROVE  Accounted'
<1>1. Heeds(a) /\ Works(a) /\ Awaits(a) /\ Balanced
  BY DEF Heeded, Accounted, Committed
<1>2. worker[a] \in Learners /\ journal \in Journals /\ collected \in Nat
  BY RowTypes DEF TypeOK
<1> USE DEF Works, Balanced, Complete, WorkerLoop, Finishing
<1>3. Works(a)' /\ Balanced'
  <2>1. CASE WorkerPublishes(a)
    BY <1>1, <1>2, <2>1 DEF WorkerPublishes, TypeOK, Worker, Exits, NoWorker, Learners, Journals, learnerFiles
  <2>2. CASE StartFresh(a)
    <3>1. worker[a].update = 0 /\ ~journal.exists
      BY <1>1, <2>2 DEF StartFresh, Heeds, Unbegun, NoWorker
    <3>2. journal.reserved = 0 /\ journal.updates = 0 /\ collected = 0
          /\ ~journal.pending /\ ~journal.failed
      BY <1>1, <1>2, <3>1 DEF Journals
    <3>3. /\ worker'[a].pc = "boundary" /\ worker'[a].update = worker[a].update
          /\ journal' = [journal EXCEPT !.exists = TRUE] /\ collected' = collected
      BY <1>2, <2>2 DEF StartFresh, Worker, TypeOK, Learners
    <3>4. /\ journal'.exists /\ journal'.reserved = 0 /\ journal'.updates = 0
          /\ ~journal'.pending /\ ~journal'.failed
      BY <1>2, <3>2, <3>3 DEF Journals
    <3> QED
      BY <3>1, <3>2, <3>3, <3>4, SessionAssumption
  <2>3. CASE ColdResume(a)
    <3> DEFINE p == request[a].previous
    <3>1. p \in Attempts /\ p # 0 /\ a = current /\ worker[a].pc = "loading"
      BY <2>3, RowTypes, LearnerIsCurrent DEF ColdResume, Requests
    <3>2. CleanEndpoint(p) /\ Matches(p)
      BY <1>1, <3>1 DEF Awaits, Unbegun
    <3>3. /\ worker'[a].pc = "boundary" /\ worker'[a].update = snapshot[p].update
          /\ UNCHANGED <<journal, collected>>
      BY <1>2, <2>3 DEF ColdResume, TypeOK, Learners
    <3>4. result[p].phase = "stopped" /\ result[p].update = journal.updates
      BY <2>3 DEF ColdResume, Resumable, LoadAccepted
    <3>5. result[p].update # Target
      BY <3>1, <3>4 DEF Committed, Final
    <3> QED
      BY <1>1, <1>2, <3>2, <3>3, <3>4, <3>5 DEF Matches
  <2>4. CASE RefuseResume(a)
    BY <1>1, <1>2, <2>4 DEF RefuseResume, TypeOK, Worker, Exits, NoWorker, Learners, Journals, learnerFiles
  <2>5. CASE Signal(a)
    BY <1>1, <1>2, <2>5 DEF Signal, TypeOK, Worker, Exits, NoWorker, Learners, Journals, learnerFiles
  <2>6. CASE ReadRequest(a)
    BY <1>1, <1>2, <2>6 DEF ReadRequest, TypeOK, Worker, Exits, NoWorker, Learners, Journals, learnerFiles
  <2>7. CASE AcknowledgePause(a)
    BY <1>1, <1>2, <2>7 DEF AcknowledgePause, TypeOK, Worker, Exits, NoWorker, Learners, Journals, learnerFiles
  <2>8. CASE Poll(a)
    BY <1>1, <1>2, <2>8 DEF Poll, TypeOK, Worker, Exits, NoWorker, Learners, Journals, learnerFiles
  <2>9. CASE Decide(a)
    BY <1>1, <1>2, <2>9 DEF Decide, TypeOK, Worker, Exits, NoWorker, Learners, Journals, learnerFiles
  <2>10. CASE Reserve(a)
    <3>1. /\ worker[a].pc = "collecting" /\ worker'[a].pc = "reserved"
          /\ worker'[a].update = worker[a].update /\ collected' = collected
      BY <1>2, <2>10 DEF Reserve, Worker, TypeOK, Learners
    <3>2. /\ journal'.reserved = journal.reserved + 1 /\ journal'.updates = journal.updates
          /\ journal'.exists = journal.exists /\ journal'.pending
          /\ journal'.failed = journal.failed
      BY <1>2, <2>10 DEF Reserve, Journals
    <3>3. /\ journal.reserved = journal.updates /\ collected = journal.reserved
          /\ journal.exists /\ ~journal.failed /\ journal.reserved # Target
      BY <1>1, <2>10, <3>1 DEF Reserve
    <3>4. journal.reserved \in Nat /\ journal.updates \in Nat /\ Target \in Nat
      BY <1>2, SessionAssumption DEF Journals
    <3> QED
      BY <1>1, <3>1, <3>2, <3>3, <3>4
  <2>11. CASE Collect(a)
    BY <1>1, <1>2, <2>11 DEF Collect, TypeOK, Worker, Exits, NoWorker, Learners, Journals, learnerFiles
  <2>12. CASE Update(a)
    BY <1>1, <1>2, <2>12 DEF Update, TypeOK, Worker, Exits, NoWorker, Learners, Journals, learnerFiles
  <2>13. CASE WorkerFails(a)
    BY <1>1, <1>2, <2>13 DEF WorkerFails, TypeOK, Worker, Exits, NoWorker, Learners, Journals, learnerFiles
  <2>14. CASE BeginFinish(a)
    BY <1>1, <1>2, <2>14 DEF BeginFinish, TypeOK, Worker, Exits, NoWorker, Learners, Journals, learnerFiles
  <2>15. CASE SaveFinal(a)
    BY <1>1, <1>2, <2>15 DEF SaveFinal, TypeOK, Worker, Exits, NoWorker, Learners, Journals, learnerFiles
  <2>16. CASE CommitResult(a)
    BY <1>1, <1>2, <2>16 DEF CommitResult, TypeOK, Worker, Exits, NoWorker, Learners, Journals, learnerFiles
  <2>17. CASE WorkerReturns(a)
    BY <1>1, <1>2, <2>17 DEF WorkerReturns, TypeOK, Worker, Exits, NoWorker, Learners, Journals, learnerFiles
  <2>18. CASE WorkerKilled(a)
    BY <1>1, <1>2, <2>18 DEF WorkerKilled, TypeOK, Worker, Exits, NoWorker, Learners, Journals, learnerFiles
  <2>19. CASE WorkerGone(a)
    BY <1>1, <1>2, <2>19 DEF WorkerGone, TypeOK, Worker, Exits, NoWorker, Learners, Journals, learnerFiles
  <2> QED
    BY <2>1, <2>2, <2>3, <2>4, <2>5, <2>6, <2>7, <2>8, <2>9, <2>10, <2>11, <2>12, <2>13, <2>14, <2>15, <2>16, <2>17, <2>18, <2>19
    DEF Learns, WorkerStep
<1>4. ASSUME NEW b \in Attempts \ {a}
      PROVE  Works(b)'
  <2>1. worker'[b] = worker[b] /\ worker[b].pc \in {"none", "gone"}
    BY LearnerFrame, LearnerIsCurrent DEF Leased, WorkerHolds
  <2> QED
    BY <2>1
<1> QED
  BY <1>3, <1>4 DEF Accounted

(* A learner that has not begun has done nothing but publish.               *)
LEMMA LearnerBegins ==
  ASSUME TypeOK, NEW a \in Attempts, Learns(a), worker'[a].pc \in Unbegun
  PROVE  worker[a].pc \in Unbegun /\ UNCHANGED <<result, snapshot, journal>>
<1> USE DEF TypeOK, Worker, Unbegun, Learners, learnerFiles
<1>1. CASE WorkerPublishes(a)
  BY <1>1 DEF WorkerPublishes, Exits, NoWorker, WorkerLoop
<1>2. CASE StartFresh(a)
  BY <1>2 DEF StartFresh, Exits, NoWorker, WorkerLoop
<1>3. CASE ColdResume(a)
  BY <1>3 DEF ColdResume, Exits, NoWorker, WorkerLoop
<1>4. CASE RefuseResume(a)
  BY <1>4 DEF RefuseResume, Exits, NoWorker, WorkerLoop
<1>5. CASE Signal(a)
  BY <1>5 DEF Signal, Exits, NoWorker, WorkerLoop
<1>6. CASE ReadRequest(a)
  BY <1>6 DEF ReadRequest, Exits, NoWorker, WorkerLoop
<1>7. CASE AcknowledgePause(a)
  BY <1>7 DEF AcknowledgePause, Exits, NoWorker, WorkerLoop
<1>8. CASE Poll(a)
  BY <1>8 DEF Poll, Exits, NoWorker, WorkerLoop
<1>9. CASE Decide(a)
  BY <1>9 DEF Decide, Exits, NoWorker, WorkerLoop
<1>10. CASE Reserve(a)
  BY <1>10 DEF Reserve, Exits, NoWorker, WorkerLoop
<1>11. CASE Collect(a)
  BY <1>11 DEF Collect, Exits, NoWorker, WorkerLoop
<1>12. CASE Update(a)
  BY <1>12 DEF Update, Exits, NoWorker, WorkerLoop
<1>13. CASE WorkerFails(a)
  BY <1>13 DEF WorkerFails, Exits, NoWorker, WorkerLoop
<1>14. CASE BeginFinish(a)
  BY <1>14 DEF BeginFinish, Exits, NoWorker, WorkerLoop
<1>15. CASE SaveFinal(a)
  BY <1>15 DEF SaveFinal, Exits, NoWorker, WorkerLoop
<1>16. CASE CommitResult(a)
  BY <1>16 DEF CommitResult, Exits, NoWorker, WorkerLoop
<1>17. CASE WorkerReturns(a)
  BY <1>17 DEF WorkerReturns, Exits, NoWorker, WorkerLoop
<1>18. CASE WorkerKilled(a)
  BY <1>18 DEF WorkerKilled, Exits, NoWorker, WorkerLoop
<1>19. CASE WorkerGone(a)
  BY <1>19 DEF WorkerGone, Exits, NoWorker, WorkerLoop
<1> QED
  BY <1>1, <1>2, <1>3, <1>4, <1>5, <1>6, <1>7, <1>8, <1>9, <1>10, <1>11, <1>12, <1>13, <1>14, <1>15, <1>16, <1>17, <1>18, <1>19
  DEF Learns, WorkerStep

LEMMA LearnerCommitted ==
  ASSUME TypeOK, Leased, Accounted, Committed, NEW a \in Attempts, Learns(a)
  PROVE  Committed'
<1>1. Final(a) /\ Awaits(a) /\ Works(a) /\ Balanced /\ a = current /\ frontend.pc # "prepared"
  BY LearnerIsCurrent DEF Committed, Accounted
<1>2. UNCHANGED <<current, request, exited, frontend>>
  BY LearnerFrame
<1>3. /\ worker[a] \in Learners /\ journal \in Journals
      /\ result[a] \in Results /\ snapshot[a] \in Snapshots
  BY RowTypes DEF TypeOK
<1>4. Final(a)'
  <2> USE DEF Final, Matches, WorkerLoop, Finishing
  <2>1. CASE WorkerPublishes(a)
    BY <1>1, <1>2, <1>3, <2>1 DEF WorkerPublishes, TypeOK, Worker, Exits, NoWorker, Learners, Journals, learnerFiles
  <2>2. CASE StartFresh(a)
    BY <1>1, <1>2, <1>3, <2>2 DEF StartFresh, TypeOK, Worker, Exits, NoWorker, Learners, Journals, learnerFiles
  <2>3. CASE ColdResume(a)
    BY <1>1, <1>2, <1>3, <2>3 DEF ColdResume, TypeOK, Worker, Exits, NoWorker, Learners, Journals, learnerFiles
  <2>4. CASE RefuseResume(a)
    BY <1>1, <1>2, <1>3, <2>4 DEF RefuseResume, TypeOK, Worker, Exits, NoWorker, Learners, Journals, learnerFiles
  <2>5. CASE Signal(a)
    BY <1>1, <1>2, <1>3, <2>5 DEF Signal, TypeOK, Worker, Exits, NoWorker, Learners, Journals, learnerFiles
  <2>6. CASE ReadRequest(a)
    BY <1>1, <1>2, <1>3, <2>6 DEF ReadRequest, TypeOK, Worker, Exits, NoWorker, Learners, Journals, learnerFiles
  <2>7. CASE AcknowledgePause(a)
    BY <1>1, <1>2, <1>3, <2>7 DEF AcknowledgePause, TypeOK, Worker, Exits, NoWorker, Learners, Journals, learnerFiles
  <2>8. CASE Poll(a)
    BY <1>1, <1>2, <1>3, <2>8 DEF Poll, TypeOK, Worker, Exits, NoWorker, Learners, Journals, learnerFiles
  <2>9. CASE Decide(a)
    BY <1>1, <1>2, <1>3, <2>9 DEF Decide, TypeOK, Worker, Exits, NoWorker, Learners, Journals, learnerFiles
  <2>10. CASE Reserve(a)
    BY <1>1, <1>2, <1>3, <2>10 DEF Reserve, TypeOK, Worker, Exits, NoWorker, Learners, Journals, learnerFiles
  <2>11. CASE Collect(a)
    BY <1>1, <1>2, <1>3, <2>11 DEF Collect, TypeOK, Worker, Exits, NoWorker, Learners, Journals, learnerFiles
  <2>12. CASE Update(a)
    BY <1>1, <1>2, <1>3, <2>12 DEF Update, TypeOK, Worker, Exits, NoWorker, Learners, Journals, learnerFiles
  <2>13. CASE WorkerFails(a)
    BY <1>1, <1>2, <1>3, <2>13 DEF WorkerFails, TypeOK, Worker, Exits, NoWorker, Learners, Journals, learnerFiles
  <2>14. CASE BeginFinish(a)
    BY <1>1, <1>2, <1>3, <2>14 DEF BeginFinish, TypeOK, Worker, Exits, NoWorker, Learners, Journals, learnerFiles
  <2>15. CASE SaveFinal(a)
    <3>1. /\ worker[a].pc = "saving" /\ result' = result
          /\ ~journal.pending /\ ~journal.failed /\ journal.exists
          /\ worker[a].update = journal.updates
      BY <1>1, <2>15 DEF SaveFinal, Works
    <3>2. /\ snapshot'[a].update = worker[a].update
          /\ snapshot'[a].events = journal.events + 1
      BY <2>15 DEF SaveFinal, TypeOK
    <3>3. /\ journal'.exists = journal.exists /\ journal'.updates = journal.updates
          /\ journal'.pending = journal.pending /\ journal'.failed = journal.failed
          /\ journal'.events = journal.events + 1
      BY <1>3, <2>15 DEF SaveFinal, Journals
    <3>4. result[a].phase = "none"
      BY <1>1, <3>1
    <3> QED
      BY <3>1, <3>2, <3>3, <3>4
  <2>16. CASE CommitResult(a)
    <3>1. /\ worker[a].pc = "saved" /\ UNCHANGED <<snapshot, journal>>
          /\ worker[a].update = journal.updates /\ Matches(a)
      BY <1>1, <2>16 DEF CommitResult, Works
    <3>2. journal.reserved = journal.updates
      BY <1>1, <3>1 DEF Balanced
    <3>3. /\ result'[a].phase = (IF Complete THEN "completed" ELSE "stopped")
          /\ result'[a].update = worker[a].update
          /\ worker'[a].pc = "committed"
      BY <1>3, <2>16 DEF CommitResult, Worker, TypeOK, Learners
    <3> QED
      BY <1>1, <1>2, <3>1, <3>2, <3>3 DEF Complete
  <2>17. CASE WorkerReturns(a)
    BY <1>1, <1>2, <1>3, <2>17 DEF WorkerReturns, TypeOK, Worker, Exits, NoWorker, Learners, Journals, learnerFiles
  <2>18. CASE WorkerKilled(a)
    BY <1>1, <1>2, <1>3, <2>18 DEF WorkerKilled, TypeOK, Worker, Exits, NoWorker, Learners, Journals, learnerFiles
  <2>19. CASE WorkerGone(a)
    BY <1>1, <1>2, <1>3, <2>19 DEF WorkerGone, TypeOK, Worker, Exits, NoWorker, Learners, Journals, learnerFiles
  <2> QED
    BY <2>1, <2>2, <2>3, <2>4, <2>5, <2>6, <2>7, <2>8, <2>9, <2>10, <2>11, <2>12, <2>13, <2>14, <2>15, <2>16, <2>17, <2>18, <2>19
    DEF Learns, WorkerStep
<1>5. Awaits(a)'
  <2>1. SUFFICES ASSUME request[a].previous # 0, worker'[a].pc \in Unbegun
                 PROVE  LET p == request[a].previous IN
                        /\ p # a /\ CleanEndpoint(p)' /\ Matches(p)'
                        /\ request[a].start = result'[p].update
    BY <1>2 DEF Awaits
  <2>2. worker[a].pc \in Unbegun /\ UNCHANGED <<result, snapshot, journal>>
    BY <2>1, LearnerBegins
  <2> QED
    BY <1>1, <1>2, <2>1, <2>2 DEF Awaits, CleanEndpoint, Matches
<1>6. ASSUME NEW b \in Attempts \ {a}
      PROVE  Final(b)' /\ Awaits(b)'
  <2>1. /\ worker'[b] = worker[b] /\ result'[b] = result[b] /\ snapshot'[b] = snapshot[b]
        /\ b # current
    BY <1>1, LearnerFrame
  <2>2. Final(b)
    BY DEF Committed
  <2> QED
    BY <1>1, <1>2, <2>1, <2>2 DEF Final, Awaits
<1> QED
  BY <1>4, <1>5, <1>6 DEF Committed

------------------------------------------------------------------------------
(* The frontend and the machine keep the invariant *)

(* A new attempt takes the next number.                                     *)
LEMMA NextAttempt ==
  ASSUME Numbered
  PROVE  \E n \in 0..MaxAttempts :
           Generation = n + 1 /\ \A a \in Attempts : request[a] # NoRequest <=> a <= n
<1>1. PICK n \in 0..MaxAttempts : \A a \in Attempts : request[a] # NoRequest <=> a <= n
  BY DEF Numbered
<1>2. {a \in Attempts : request[a] # NoRequest} = 1..n
  BY <1>1, SessionAssumption DEF Attempts
<1>3. Cardinality(1..n) = n
  BY FS_Interval
<1> QED
  BY <1>1, <1>2, <1>3 DEF Generation

LEMMA LeaseIsFree ==
  ASSUME ~LeaseIsHeld
  PROVE  /\ \A a \in Attempts : ~SupervisorHolds(a) /\ ~WorkerHolds(a)
         /\ frontend.pc \notin {"prepared", "published", "spawned"}
  BY DEF LeaseIsHeld, Holders, SupervisorHolds, WorkerHolds

(* What PrepareAttempt writes, and for whom.                                *)
LEMMA PreparedAttempt ==
  ASSUME TypeOK, Numbered, Leased, NEW paused \in BOOLEAN, PrepareAttempt(paused)
  PROVE  LET g == Generation
         IN  /\ g \in Attempts /\ request[g] = NoRequest /\ Untouched(g) /\ g # current
             /\ frontend.attempt = current
             /\ frontend'.pc = "prepared" /\ frontend'.attempt = g
             /\ request'[g].boot = boot /\ request'[g].previous = current
             /\ current # 0 => request'[g].start = result[current].update
             /\ request'[g] # NoRequest
             /\ \A a \in Attempts \ {g} : request'[a] = request[a] /\ control'[a] = control[a]
<1>1. PICK n \in 0..MaxAttempts :
        Generation = n + 1 /\ \A a \in Attempts : request[a] # NoRequest <=> a <= n
  BY NextAttempt
<1>2. Generation \in Attempts /\ request[Generation] = NoRequest
  BY <1>1 DEF PrepareAttempt
<1>3. Untouched(Generation) /\ Generation # current
  BY <1>2, SessionAssumption DEF Numbered, Attempts
<1>4. frontend.attempt = current
  BY DEF Leased, PrepareAttempt
<1>5. frontend'.pc = "prepared" /\ frontend'.attempt = Generation
  BY DEF PrepareAttempt, NoFrontend
<1>6. /\ request'[Generation].boot = boot /\ request'[Generation].previous = current
      /\ current # 0 => request'[Generation].start = result[current].update
      /\ \A a \in Attempts \ {Generation} : request'[a] = request[a] /\ control'[a] = control[a]
  BY <1>2, <1>4 DEF PrepareAttempt, TypeOK
<1>7. request'[Generation] # NoRequest
  BY <1>6 DEF TypeOK, NoRequest
<1> QED
  BY <1>2, <1>3, <1>4, <1>5, <1>6, <1>7

LEMMA FrontendNumbered ==
  ASSUME TypeOK, Numbered, Leased, FrontendStep
  PROVE  Numbered'
<1> USE DEF frontendFiles, learnerFiles, files, OthersUnchanged
<1>1. CASE UNCHANGED <<current, request, supervisor, worker, status, result>>
  BY <1>1 DEF Numbered, Untouched
<1>2. ASSUME NEW operation \in Operations, Command(operation)
      PROVE  UNCHANGED <<current, request, supervisor, worker, status, result>>
  BY <1>2 DEF Command
<1>3. ASSUME NEW paused \in BOOLEAN, PrepareAttempt(paused)
      PROVE  Numbered'
  <2>1. UNCHANGED <<current, supervisor, worker, status, result>>
    BY <1>3 DEF PrepareAttempt
  <2>2. PICK n \in 0..MaxAttempts :
          Generation = n + 1 /\ \A a \in Attempts : request[a] # NoRequest <=> a <= n
    BY NextAttempt
  <2>3. n + 1 \in 0..MaxAttempts /\ n + 1 \in Attempts
    BY <1>3, <2>2, PreparedAttempt, SessionAssumption DEF Attempts
  <2>4. \A a \in Attempts : request'[a] # NoRequest <=> a <= n + 1
    BY <1>3, <2>2, <2>3, PreparedAttempt DEF Attempts
  <2>5. \A a \in Attempts : request'[a] = NoRequest => request[a] = NoRequest
    BY <2>2, <2>4 DEF Attempts
  <2>6. current # 0 => request'[current] # NoRequest
    BY <2>5 DEF Numbered, TypeOK
  <2> QED
    BY <2>1, <2>3, <2>4, <2>5, <2>6 DEF Numbered, Untouched
<1>4. CASE PublishCurrent
  BY <1>4 DEF PublishCurrent, Numbered, Leased, Untouched
<1>5. CASE SpawnSupervisor
  <2>1. /\ UNCHANGED <<current, request, worker, status, result>>
        /\ \A b \in Attempts : b # frontend.attempt => supervisor'[b] = supervisor[b]
    BY <1>5 DEF SpawnSupervisor, TypeOK
  <2>2. request[frontend.attempt] # NoRequest
    BY <1>5 DEF SpawnSupervisor, Leased
  <2> QED
    BY <2>1, <2>2 DEF Numbered, Untouched
<1> QED
  BY <1>1, <1>2, <1>3, <1>4, <1>5 DEF FrontendStep, ReadStatus, BindLaunch, FrontendEnds

LEMMA FrontendLeased ==
  ASSUME TypeOK, Numbered, Leased, FrontendStep
  PROVE  Leased'
<1> USE DEF frontendFiles, learnerFiles, files, OthersUnchanged, SupervisorHolds, WorkerHolds,
            Untouched
<1>1. CASE ReadStatus
  BY <1>1 DEF ReadStatus, Leased, NoFrontend
<1>2. ASSUME NEW operation \in Operations, Command(operation)
      PROVE  Leased'
  BY <1>2 DEF Command, Leased, NoFrontend
<1>3. ASSUME NEW paused \in BOOLEAN, PrepareAttempt(paused)
      PROVE  Leased'
  <2>1. UNCHANGED <<boot, current, supervisor, worker, status, result>> /\ ~LeaseIsHeld
    BY <1>3 DEF PrepareAttempt
  <2>2. \A a \in Attempts : ~SupervisorHolds(a) /\ ~WorkerHolds(a)
    BY <2>1, LeaseIsFree
  <2>3. /\ frontend'.pc = "prepared" /\ frontend'.attempt \in Attempts
        /\ request'[frontend'.attempt] # NoRequest /\ request'[frontend'.attempt].boot = boot
        /\ Untouched(frontend'.attempt)
    BY <1>3, PreparedAttempt
  <2>4. frontend'.attempt # 0
    BY <2>3 DEF Attempts
  <2> QED
    BY <2>1, <2>2, <2>3, <2>4 DEF Leased
<1>4. CASE PublishCurrent
  BY <1>4 DEF PublishCurrent, Leased, Frontends, TypeOK
<1>5. CASE SpawnSupervisor
  <2>1. frontend.attempt = current /\ current \in Attempts /\ request[current].boot = boot
        /\ worker[current] = NoWorker
    BY <1>5 DEF SpawnSupervisor, Leased, TypeOK
  <2>2. /\ UNCHANGED <<boot, current, request, worker, status, result>>
        /\ supervisor'[current].pc = "starting"
        /\ \A b \in Attempts \ {current} : supervisor'[b] = supervisor[b]
        /\ frontend'.pc = "spawned" /\ frontend'.attempt = current
    BY <1>5, <2>1 DEF SpawnSupervisor, TypeOK, Frontends, Supervisors
  <2> QED
    BY <1>5, <2>1, <2>2 DEF SpawnSupervisor, Leased, NoWorker
<1>6. CASE BindLaunch
  BY <1>6 DEF BindLaunch, Leased, NoFrontend
<1>7. CASE FrontendEnds
  BY <1>7 DEF FrontendEnds, Leased, NoFrontend
<1> QED
  BY <1>1, <1>2, <1>3, <1>4, <1>5, <1>6, <1>7 DEF FrontendStep

LEMMA FrontendHeeded ==
  ASSUME TypeOK, Numbered, Leased, Heeded, FrontendStep
  PROVE  Heeded'
<1> USE DEF frontendFiles, learnerFiles, files, OthersUnchanged
<1>1. worker' = worker /\ status' = status
  BY DEF FrontendStep, ReadStatus, Command, PrepareAttempt, PublishCurrent, SpawnSupervisor,
         BindLaunch, FrontendEnds
<1>2. ASSUME NEW a \in Attempts
      PROVE  Heeds(a)'
  <2>1. Heeds(a) /\ worker[a] \in Learners /\ control[a] \in Commands
    BY <1>2, RowTypes DEF Heeded
  <2>2. CASE control'[a] = control[a]
    BY <1>1, <2>1, <2>2 DEF Heeds
  <2>3. ASSUME NEW operation \in Operations, Command(operation), control'[a] # control[a]
        PROVE  Heeds(a)'
    <3>1. control'[a].sequence = control[a].sequence + 1
      BY <1>2, <2>3 DEF Command, TypeOK
    <3>2. /\ control[a].sequence \in Nat
          /\ worker[a].sequence \in Int
      BY <2>1 DEF Commands, Learners
    <3>3. /\ worker[a].sequence <= control[a].sequence =>
               worker[a].sequence <= control'[a].sequence
          /\ worker[a].sequence <= control[a].sequence =>
               worker[a].sequence # control'[a].sequence
      BY <3>1, <3>2
    <3> QED
      BY <1>1, <2>1, <3>3 DEF Heeds
  <2>4. ASSUME NEW paused \in BOOLEAN, PrepareAttempt(paused), control'[a] # control[a]
        PROVE  Heeds(a)'
    <3>1. worker[a].pc = "none"
      BY <1>2, <2>4, PreparedAttempt DEF Untouched, NoWorker
    <3> QED
      BY <1>1, <2>1, <3>1 DEF Heeds, Heeding, WorkerLoop
  <2> QED
    BY <2>2, <2>3, <2>4 DEF FrontendStep, ReadStatus, PublishCurrent, SpawnSupervisor,
       BindLaunch, FrontendEnds
<1> QED
  BY <1>2 DEF Heeded

LEMMA FrontendAccounted ==
  ASSUME Accounted, FrontendStep
  PROVE  Accounted'
<1>1. worker' = worker /\ journal' = journal /\ collected' = collected
  BY DEF FrontendStep, ReadStatus, Command, PrepareAttempt, PublishCurrent, SpawnSupervisor,
         BindLaunch, FrontendEnds, learnerFiles, files, OthersUnchanged
<1> QED
  BY <1>1 DEF Accounted, Balanced, Works, Complete

LEMMA FrontendCommitted ==
  ASSUME TypeOK, Numbered, Leased, Committed, FrontendStep
  PROVE  Committed'
<1> USE DEF frontendFiles, learnerFiles, files, OthersUnchanged
<1>1. UNCHANGED <<worker, result, snapshot, journal, exited>>
  BY DEF FrontendStep, ReadStatus, Command, PrepareAttempt, PublishCurrent, SpawnSupervisor,
         BindLaunch, FrontendEnds
<1>2. CASE UNCHANGED <<current, request>> /\ frontend'.pc # "prepared"
  BY <1>1, <1>2 DEF Committed, Final, Awaits, CleanEndpoint, Matches
<1>3. ASSUME NEW operation \in Operations, Command(operation)
      PROVE  UNCHANGED <<current, request>> /\ frontend'.pc # "prepared"
  BY <1>3 DEF Command, NoFrontend
<1>4. ASSUME ReadStatus \/ SpawnSupervisor \/ BindLaunch \/ FrontendEnds
      PROVE  UNCHANGED <<current, request>> /\ frontend'.pc # "prepared"
  BY <1>4 DEF ReadStatus, SpawnSupervisor, BindLaunch, FrontendEnds, NoFrontend, TypeOK, Frontends
<1>5. ASSUME NEW paused \in BOOLEAN, PrepareAttempt(paused), NEW a \in Attempts
      PROVE  Final(a)' /\ Awaits(a)'
  <2> DEFINE g == Generation
  <2>1. Final(a) /\ Awaits(a) /\ current' = current
    BY <1>5 DEF PrepareAttempt, Committed
  <2>2. Final(a)'
    BY <1>1, <2>1 DEF Final, Matches
  <2>3. CASE a = g
    <3>1. /\ g # current /\ frontend.attempt = current /\ request'[g].previous = current
          /\ current # 0 => request'[g].start = result[current].update
      BY <1>5, PreparedAttempt
    <3>2. CASE current = 0
      BY <2>2, <2>3, <3>1, <3>2 DEF Awaits, CleanEndpoint, Matches
    <3>3. CASE current # 0
      <4>1. CleanEndpoint(current)
        BY <1>5, <3>1, <3>3 DEF PrepareAttempt
      <4>2. Matches(current)
        BY <3>3, <4>1 DEF Committed, Final, CleanEndpoint, TypeOK
      <4> QED
        BY <1>1, <2>2, <2>3, <3>1, <3>3, <4>1, <4>2 DEF Awaits, CleanEndpoint, Matches
    <3> QED
      BY <3>2, <3>3
  <2>4. CASE a # g
    <3>1. request'[a] = request[a] /\ frontend'.attempt # a
      BY <1>5, <2>4, PreparedAttempt
    <3>2. CASE a = current
      BY <1>1, <2>1, <2>2, <3>1, <3>2 DEF Awaits, CleanEndpoint, Matches
    <3>3. CASE a # current
      BY <2>1, <2>2, <3>1, <3>3 DEF Awaits, CleanEndpoint, Matches
    <3> QED
      BY <3>2, <3>3
  <2> QED
    BY <2>3, <2>4
<1>6. CASE PublishCurrent
  <2>1. ASSUME NEW a \in Attempts
        PROVE  Final(a)' /\ Awaits(a)'
    <3>1. Final(a) /\ Awaits(a)
      BY DEF Committed
    <3>2. /\ current' = frontend.attempt /\ frontend.pc = "prepared"
          /\ frontend'.pc = "published" /\ request' = request
      BY <1>6 DEF PublishCurrent, TypeOK, Frontends
    <3>3. a = current' => result[a].phase = "none" /\ worker[a].pc = "none"
      BY <3>2 DEF Leased, Untouched, NoWorker
    <3> QED
      BY <1>1, <3>1, <3>2, <3>3 DEF Final, Awaits, CleanEndpoint, Matches
  <2> QED
    BY <2>1 DEF Committed
<1> QED
  BY <1>2, <1>3, <1>4, <1>5, <1>6 DEF FrontendStep, Committed

LEMMA RebootKeeps ==
  ASSUME Invariant, Reboot
  PROVE  (Numbered /\ Leased /\ Heeded /\ Accounted /\ Committed)'
<1>1. UNCHANGED <<current, request, control, status, result, snapshot, exited, journal, collected>>
  BY DEF Reboot, files, frontendFiles, learnerFiles
<1>2. frontend'.pc = "idle"
  BY DEF Reboot, NoFrontend
<1>3. \A a \in Attempts : \/ supervisor[a].pc = "none" /\ supervisor'[a] = supervisor[a]
                          \/ supervisor[a].pc # "none" /\ supervisor'[a].pc = "gone"
  BY DEF Reboot, Invariant, TypeOK, Supervisors
<1>4. \A a \in Attempts : \/ worker[a].pc = "none" /\ worker'[a] = worker[a]
                          \/ worker[a].pc # "none" /\ worker'[a].pc = "gone"
  BY DEF Reboot, Invariant, TypeOK, Learners
<1>5. Numbered'
  BY <1>1, <1>3, <1>4 DEF Invariant, Numbered, Untouched, NoSupervisor, NoWorker
<1>6. Leased'
  BY <1>1, <1>2, <1>3, <1>4 DEF Invariant, Leased, SupervisorHolds, WorkerHolds
<1>7. Heeded'
  BY <1>1, <1>4 DEF Invariant, Heeded, Heeds, Unbegun, Heeding, WorkerLoop
<1>8. Accounted'
  BY <1>1, <1>4 DEF Invariant, Accounted, Balanced, Works, WorkerLoop
<1>9. Committed'
  BY <1>1, <1>2, <1>4
  DEF Invariant, Committed, Final, Awaits, Unbegun, CleanEndpoint, Matches
<1> QED
  BY <1>5, <1>6, <1>7, <1>8, <1>9

------------------------------------------------------------------------------
(* The invariant holds *)

LEMMA InvariantInit == Init => Invariant
<1> SUFFICES ASSUME Init
             PROVE  Invariant
  OBVIOUS
<1>1. TypeOK
  BY TypeInit
<1>2. Numbered
  <2>1. 0 \in 0..MaxAttempts /\ \A a \in Attempts : ~(a <= 0)
    BY SessionAssumption DEF Attempts
  <2> QED
    BY <2>1 DEF Init, Numbered, Untouched, NoStatus, NoResult
<1>3. Leased
  BY DEF Init, Leased, SupervisorHolds, WorkerHolds, NoSupervisor, NoWorker, NoFrontend
<1>4. Heeded
  BY DEF Init, Heeded, Heeds, Heeding, WorkerLoop, NoWorker, NoStatus
<1>5. Accounted
  BY SessionAssumption DEF Init, Accounted, Balanced, Works, WorkerLoop, NoWorker
<1>6. Committed
  BY DEF Init, Committed, Final, Awaits, NoRequest, NoResult, NoWorker
<1> QED
  BY <1>1, <1>2, <1>3, <1>4, <1>5, <1>6 DEF Invariant

LEMMA InvariantKept == Invariant /\ [Next]_vars => Invariant'
<1> SUFFICES ASSUME Invariant, [Next]_vars
             PROVE  Invariant'
  OBVIOUS
<1>1. TypeOK'
  BY TypeKept DEF Invariant
<1>2. CASE FrontendStep
  BY <1>1, <1>2, FrontendNumbered, FrontendLeased, FrontendHeeded, FrontendAccounted,
     FrontendCommitted DEF Invariant
<1>3. ASSUME NEW a \in Attempts, Supervises(a)
      PROVE  Invariant'
  BY <1>1, <1>3, SupervisorNumbered, SupervisorLeased, SupervisorHeeded, SupervisorAccounted,
     SupervisorCommitted DEF Invariant
<1>4. ASSUME NEW a \in Attempts, Learns(a)
      PROVE  Invariant'
  BY <1>1, <1>4, LearnerNumbered, LearnerLeased, LearnerHeeds, LearnerAccounted,
     LearnerCommitted DEF Invariant
<1>5. CASE Reboot
  BY <1>1, <1>5, RebootKeeps DEF Invariant
<1>6. CASE UNCHANGED vars
  BY <1>6 DEF Invariant, TypeOK, Numbered, Untouched, Leased, SupervisorHolds, WorkerHolds,
     Heeded, Heeds, Accounted, Balanced, Works, Complete, Committed, Final, Awaits, Matches,
     CleanEndpoint, vars, files, frontendFiles, learnerFiles
<1> QED
  BY <1>2, <1>3, <1>4, <1>5, <1>6 DEF Next, Fault, Supervises, Learns

(* The invariant holds of every session, whatever its budget, its commands, *)
(* its crashes and its reboots.                                             *)
THEOREM SessionInvariant == Spec => []Invariant
  BY InvariantInit, InvariantKept, PTL DEF Spec

------------------------------------------------------------------------------
(* What the session promises *)

(* Every variable keeps its type.                                           *)
THEOREM TypeCorrect == Spec => []TypeOK
<1>1. Invariant => TypeOK
  BY DEF Invariant
<1> QED
  BY <1>1, SessionInvariant, PTL

(* One lease, one attempt: the live processes of a session all belong to    *)
(* one attempt, and a start() that owns the lease has none beside its own.  *)
THEOREM LeaseIsExclusive == Spec => []OneAttemptAtATime
<1>1. ASSUME Invariant
      PROVE  OneAttemptAtATime
  <2> DEFINE attemptOf(holder) == IF holder[1] = "frontend" THEN frontend.attempt ELSE holder[2]
             owner == IF frontend.pc \in {"prepared", "published"} THEN frontend.attempt
                      ELSE current
  <2>1. ASSUME NEW h \in Holders
        PROVE  attemptOf(h) = owner
    <3>1. ASSUME NEW a \in Attempts, SupervisorHolds(a) \/ WorkerHolds(a)
          PROVE  a = owner
      BY <1>1, <3>1 DEF Invariant, Leased
    <3>2. frontend.pc \in {"prepared", "published", "spawned"} => frontend.attempt = owner
      BY <1>1 DEF Invariant, Leased
    <3> QED
      BY <3>1, <3>2 DEF Holders, SupervisorHolds, WorkerHolds
  <2> QED
    BY <2>1 DEF OneAttemptAtATime
<1> QED
  BY <1>1, SessionInvariant, PTL

(* status() never calls an attempt inactive while a learner of the session  *)
(* still holds a descriptor, however stale what it read before.             *)
THEOREM LearnersAreSeen == Spec => []NoHiddenProcess
<1>1. ASSUME Invariant
      PROVE  NoHiddenProcess
  <2>1. SUFFICES ASSUME frontend.pc = "read", NEW a \in Attempts, <<"worker", a>> \in Holders,
                        NEW recently \in BOOLEAN
                 PROVE  Report(recently).active
    BY DEF NoHiddenProcess
  <2>2. WorkerHolds(a) /\ LeaseIsHeld
    BY <2>1 DEF Holders, WorkerHolds, LeaseIsHeld
  <2>3. frontend.attempt = a /\ request[a].boot = boot
    BY <1>1, <2>1, <2>2 DEF Invariant, Leased
  <2>4. frontend.attempt # 0
    BY <2>3 DEF Attempts
  <2> QED
    BY <2>2, <2>3, <2>4 DEF Report
<1> QED
  BY <1>1, SessionInvariant, PTL

(* No restart continues from other weights than the journal's last update,  *)
(* or over work that failed or was left unfinished.                         *)
THEOREM WeightsFollowTheJournal == Spec => []NothingIsReplayed
<1>1. Invariant => NothingIsReplayed
  BY DEF Invariant, Accounted, Works, NothingIsReplayed
<1> QED
  BY <1>1, SessionInvariant, PTL

(* Every collected rollout was charged before, and the charges stay within  *)
(* the budget, whatever the number of attempts, crashes and reboots.        *)
THEOREM BudgetCoversWork == Spec => []WorkIsCharged
<1>1. Invariant => WorkIsCharged
  BY DEF Invariant, TypeOK, Journals, Accounted, Balanced, WorkIsCharged
<1> QED
  BY <1>1, SessionInvariant, PTL

(* A learner about to collect has budget left: Reserve never waits.         *)
Roomy ==
  \A a \in Attempts :
    worker[a].pc \in {"boundary", "checkpointing", "paused", "deciding", "collecting"} =>
      ~Complete /\ ~journal.pending /\ ~journal.failed

(* The loop never comes back to a spent budget: the update that spends it   *)
(* ends the run itself, and neither a cold resume nor a pause returns to it.*)
THEOREM LoopHasBudget == Spec => []Roomy
<1>1. Invariant => Roomy
  BY DEF Invariant, Accounted, Works, Roomy, WorkerLoop
<1> QED
  BY <1>1, SessionInvariant, PTL

(* A pause that is the last command, once read or acknowledged, keeps the   *)
(* learner from work, however many commands are written after each other.   *)
THEOREM PauseIsKept == Spec => []PauseHolds
<1>1. ASSUME Invariant
      PROVE  PauseHolds
  <2>1. SUFFICES ASSUME NEW a \in Attempts, control[a].operation = "pause",
                        control[a].sequence \in {status[a].ack, worker[a].sequence},
                        worker[a].pc \in {"boundary", "collecting", "reserved", "optimizing"}
                 PROVE  FALSE
    BY DEF PauseHolds
  <2>2. worker[a] \in Learners /\ control[a] \in Commands /\ status[a] \in Reports
    BY <1>1, RowTypes DEF Invariant
  <2>3. /\ worker[a].op = "resume" /\ status[a].ack <= worker[a].sequence
        /\ worker[a].sequence <= control[a].sequence
        /\ worker[a].sequence = control[a].sequence => worker[a].op = control[a].operation
    BY <1>1, <2>1 DEF Invariant, Heeded, Heeds, Heeding, WorkerLoop, Finishing
  <2> QED
    BY <2>1, <2>2, <2>3 DEF Learners, Commands, Reports
<1> QED
  BY <1>1, SessionInvariant, PTL

(* The receipts of a clean stop, once accepted by start(), still match the  *)
(* journal when the new learner loads them; the loader can only object to   *)
(* the sequence the two commit steps disagree on.                           *)
THEOREM EndpointLoads == Spec => []CleanEndpointLoads
<1>1. ASSUME Invariant
      PROVE  CleanEndpointLoads
  <2>1. SUFFICES ASSUME NEW a \in Attempts, worker[a].pc = "loading", request[a].previous # 0,
                        snapshot[request[a].previous].sequence = result[request[a].previous].ack
                 PROVE  Resumable(a)
    BY DEF CleanEndpointLoads
  <2> DEFINE p == request[a].previous
  <2>2. a = current
    BY <1>1, <2>1 DEF Invariant, Leased, WorkerHolds
  <2>3. CleanEndpoint(p) /\ Matches(p) /\ request[a].start = result[p].update
    BY <1>1, <2>1, <2>2 DEF Invariant, Committed, Awaits, Unbegun
  <2>4. p \in Attempts
    BY <1>1, <2>1, RowTypes DEF Invariant, Requests
  <2>5. exited[p] = [identity |-> "worker", returncode |-> 0]
    BY <1>1, <2>3, <2>4, RowTypes DEF Invariant, Receipts, CleanEndpoint
  <2>6. result[p].phase = "stopped" /\ result[p].update = snapshot[p].update
    BY <1>1, <2>3, <2>4 DEF Invariant, Committed, Final, CleanEndpoint
  <2> QED
    BY <2>1, <2>3, <2>5, <2>6 DEF Resumable, LoadAccepted, Matches
<1> QED
  BY <1>1, SessionInvariant, PTL
=============================================================================
