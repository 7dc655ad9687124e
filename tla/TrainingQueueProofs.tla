------------------------ MODULE TrainingQueueProofs ------------------------
(***************************************************************************)
(* What TrainingQueue promises, proved for every plan of cells and seeds,  *)
(* every endpoint, and any number of controllers, commands and kills.      *)
(*                                                                         *)
(* The inductive invariant has one part per party: what the files of one   *)
(* worker agree on by themselves, what the controller relies on where it   *)
(* stands, whose the live workers are, how the attempts of a cell form a   *)
(* chain, what the results rest on, and who is quiet under a pause.        *)
(***************************************************************************)
EXTENDS TrainingQueue, SequenceTheorems, FiniteSetTheorems, TLAPS

------------------------------------------------------------------------------
(* Types *)

Places == {"absent", "unborn", "boundary", "paused", "work", "ending", "closing", "ended"}

Worker ==
  [from : Nat, by : Nat, current : BOOLEAN, alive : BOOLEAN, at : Places,
   operation : Operations, sequence : Nat, ack : Int, update : Nat,
   result : {"none", "completed", "stopped"}, code : {"none", "0", "2", "other"},
   receipt : BOOLEAN, process : BOOLEAN, sealed : BOOLEAN]

Sites ==
  {"resources", "select", "open", "launch", "point", "spawn", "poll", "forward", "report",
   "record", "validate", "verify", "judge", "seeds", "evaluate", "window", "watch",
   "transmit", "relay", "receive", "seal", "develop", "fail"}

Pcs == Sites \cup {"none", "boundary", "decide"}

Controllers ==
  [alive : BOOLEAN, gen : Nat, pc : Pcs, then : Sites \cup {"none"}, cell : Nat, seed : Nat,
   index : Nat, operation : Operations, sequence : Int]

Phases == {"ready", "starting", "paused", "stopped", "waiting_resources", "incomplete",
           "training", "running", "evaluating", "failed"}

Stages == {"none", "training", "evaluating"}

States == [phase : Phases, ack : Int, by : Nat, stage : Stages, update : Nat]

Rows == [status : {"not_started", "training", "evaluating", "completed"},
         development : [SeedSet -> BOOLEAN]]

TypeOK ==
  /\ request \in [operation : Operations, sequence : Int]
  /\ state \in States
  /\ results \in [CellSet -> Rows]
  /\ receipt \in Nat
  /\ controller \in Controllers
  /\ frontend.pc \in {"idle", "spawned", "registered", "commanding"}
  /\ frontend.pc = "registered" => frontend.snapshot \in States
  /\ frontend.pc = "commanding" => frontend.operation \in Operations
  /\ attempts \in [CellSet -> Seq(Worker)]
  /\ windows \in [CellSet -> [SeedSet -> Worker]]

------------------------------------------------------------------------------
(* The inductive invariant *)

(* Where the controller is, or will be once a boundary lets it go on.       *)
Site == IF controller.pc \in {"boundary", "decide"} THEN controller.then ELSE controller.pc

Launching == {"launch", "point", "spawn", "poll", "forward", "report", "record"}
Judging == {"validate", "verify", "judge"}
Observing == {"evaluate", "window", "watch", "transmit", "relay", "receive", "seal", "develop"}

(* The controller's indices name something.                                 *)
Situated ==
  controller.alive =>
    /\ Site \in Sites
    /\ controller.cell # 0
    /\ Site \notin {"resources", "select", "fail"} => controller.cell \in 1..Len(Cells)
    /\ Site \in (Launching \ {"launch"}) \cup Judging => attempts[Cell] # <<>>
    /\ Site \in Judging => controller.index # 0
    /\ Site = "verify" => controller.index <= Len(attempts[Cell])
    /\ Site \in Observing \cup {"seeds"} => controller.seed # 0
    /\ Site \in Observing => controller.seed <= Len(Seeds)

(* current.json names the last attempt it was ever pointed at.              *)
Unpointed(c) == \A i \in 1..Len(attempts[c]) : ~attempts[c][i].current

LastPointed(c, i) ==
  /\ i \in 1..Len(attempts[c]) /\ attempts[c][i].current
  /\ \A j \in 1..Len(attempts[c]) : attempts[c][j].current => j <= i

Pointers == \A c \in CellSet : Unpointed(c) \/ \E i \in 1..Len(attempts[c]) : LastPointed(c, i)

Base == TypeOK /\ Situated /\ Pointers

(* What the files of a worker agree on.                                     *)
Sane(w, full) ==
  /\ w.alive <=> w.at \notin {"absent", "unborn", "ended"}
  /\ w.from <= w.update /\ w.update <= full
  /\ w.at = "work" => w.update < full
  /\ w.at \notin {"closing", "ended"} => w.result = "none"
  /\ w.result # "none" => (w.result = "completed" <=> w.update = full)
  /\ w.code = "0" => w.result = "completed"
  /\ w.sealed => w.receipt
  /\ w.receipt => w.at = "ended"
  /\ w.ack <= w.sequence
  /\ w.at = "work" /\ w.operation = "pause" => w.ack < w.sequence

SaneAttempt(w) ==
  /\ Sane(w, Updates)
  /\ w.at # "absent"
  /\ w.at # "unborn" => w.current
  /\ w.process => w.receipt /\ (\/ w.code = "0" /\ w.result = "completed"
                                \/ w.code = "2" /\ w.result = "stopped")
  /\ w.sealed => w.process /\ w.update > w.from

SaneWindow(w) ==
  /\ Sane(w, Steps)
  /\ w.sealed => w.update = Steps

WorkersAreSane ==
  /\ \A c \in CellSet : \A i \in 1..Len(attempts[c]) : SaneAttempt(attempts[c][i])
  /\ \A c \in CellSet, s \in SeedSet : SaneWindow(windows[c][s])

(* What the controller relies on about its worker.                          *)
WorkerIsThere ==
  controller.alive =>
    /\ Site \in {"point", "spawn"} => Attempt.at = "unborn"
    /\ Site = "spawn" => Attempt.current
    /\ Site \in {"poll", "forward", "report"} => Attempt.at # "unborn"
    /\ Site = "record" => Attempt.at = "ended"
    /\ Site = "verify" => Checked.process
    /\ Site = "window" => Window.at = "unborn"
    /\ Site \in {"watch", "transmit", "relay"} => Window.at \notin {"absent", "unborn"}
    /\ Site = "receive" => Window.at = "ended"
    /\ Site = "seal" => Window.receipt /\ Window.code = "0"
    /\ Site = "develop" => Window.sealed

(* A live worker is the one the controller waits for, and the last attempt  *)
(* of its session.                                                          *)
LiveAreAwaited ==
  controller.alive =>
    /\ \A c \in CellSet : \A i \in 1..Len(attempts[c]) : attempts[c][i].alive =>
         /\ controller.pc \in {"poll", "forward", "report"}
         /\ c = Cell /\ i = Len(attempts[c])
         /\ attempts[c][i].by = controller.gen
    /\ \A c \in CellSet, s \in SeedSet : windows[c][s].alive =>
         /\ controller.pc \in {"watch", "transmit", "relay"}
         /\ c = Cell /\ s = Seed
         /\ windows[c][s].by = controller.gen

LiveAreLone ==
  /\ \A c, d \in CellSet : \A i \in 1..Len(attempts[c]), j \in 1..Len(attempts[d]) :
       attempts[c][i].alive /\ attempts[d][j].alive => c = d /\ i = j
  /\ \A c, d \in CellSet, s, t \in SeedSet :
       windows[c][s].alive /\ windows[d][t].alive => c = d /\ s = t
  /\ \A c, d \in CellSet : \A i \in 1..Len(attempts[c]), s \in SeedSet :
       ~(attempts[c][i].alive /\ windows[d][s].alive)

(* The attempts of a session resume one another.                            *)
Linked(c) ==
  \A i \in 1..Len(attempts[c]) :
    /\ attempts[c][i].from = IF i = 1 THEN 0 ELSE attempts[c][i - 1].update
    /\ attempts[c][i].alive => i = Len(attempts[c])
    /\ \A j \in 1..i : attempts[c][j].update <= attempts[c][i].update

(* Attempts that were prepared after the current one did nothing.           *)
TailIsIdle(c) ==
  attempts[c] # <<>> => attempts[c][Len(attempts[c])].update = StartUpdate(c)

SessionsAreLinked == \A c \in CellSet : Linked(c) /\ TailIsIdle(c)

(* What the controller has seen of a cell when it writes its row.           *)
Trained(c) ==
  /\ attempts[c] # <<>>
  /\ \A i \in 1..Len(attempts[c]) : attempts[c][i].sealed
  /\ attempts[c][Len(attempts[c])].update = Updates

Backed ==
  \A c \in CellSet :
    /\ results[c].status \in {"evaluating", "completed"} => Trained(c)
    /\ \A s \in SeedSet : results[c].development[s] => windows[c][s].sealed
    /\ results[c].status = "completed" => \A s \in SeedSet : results[c].development[s]

Followed ==
  controller.alive =>
    /\ Site \in Launching => results[Cell].status \notin {"evaluating", "completed"}
    /\ Site \in {"validate", "verify"} =>
         \A i \in 1..Len(attempts[Cell]) : i < controller.index => attempts[Cell][i].sealed
    /\ Site = "judge" => \A i \in 1..Len(attempts[Cell]) : attempts[Cell][i].sealed
    /\ Site \in Observing \cup {"seeds"} =>
         /\ results[Cell].status = "evaluating"
         /\ \A k \in 1..Len(Seeds) :
              k < controller.seed => results[Cell].development[Seeds[k]]

Evidence == Backed /\ Followed

(* A worker that will not work before it is told to.                        *)
Quiet(w) == w.alive => \/ w.at \in {"ending", "closing"}
                       \/ w.at \in {"boundary", "paused"} /\ w.operation = "pause"

WorkersAreQuiet ==
  /\ \A c \in CellSet : \A i \in 1..Len(attempts[c]) : Quiet(attempts[c][i])
  /\ \A c \in CellSet, s \in SeedSet : Quiet(windows[c][s])

(* Where the controller is about to bring a worker to life.                 *)
Noisy == {"open", "launch", "point", "spawn", "evaluate", "window"}

AllQuiet == WorkersAreQuiet /\ controller.pc \notin Noisy

Reading == {"decide", "forward", "report", "transmit", "relay"}

(* A published state is no newer than what the controller has read, and all *)
(* is quiet when it acknowledges the present request, a pause.              *)
Truthful(s) ==
  /\ s.by <= controller.gen
  /\ controller.alive /\ s.by = controller.gen =>
       /\ s.ack <= request.sequence
       /\ controller.pc \in Reading => s.ack <= controller.sequence
       /\ s.ack = request.sequence /\ request.operation = "pause" => AllQuiet

(* What the controller knows of the request, and its worker of it.          *)
Informed ==
  controller.alive =>
    /\ request.sequence >= 0
    /\ controller.pc \in Reading =>
         /\ controller.sequence <= request.sequence
         /\ controller.sequence = request.sequence => controller.operation = request.operation
    /\ controller.pc \in {"boundary", "decide"} =>
         controller.then \in {"resources", "open", "launch", "evaluate"}
    /\ controller.pc = "report" =>
         Attempt.operation = controller.operation \/ ~Attempt.alive
    /\ controller.pc = "relay" => Window.operation = controller.operation

PausesAreKept ==
  /\ Truthful(state)
  /\ frontend.pc = "registered" => Truthful(frontend.snapshot)
  /\ Informed

------------------------------------------------------------------------------
(* The plan, and the operators of a worker *)

LEMMA PlanType ==
  /\ Updates \in Nat \ {0} /\ Steps \in Nat \ {0}
  /\ DOMAIN Cells = 1..Len(Cells) /\ Len(Cells) \in Nat
  /\ DOMAIN Seeds = 1..Len(Seeds) /\ Len(Seeds) \in Nat
  /\ \A i \in 1..Len(Cells) : Cells[i] \in CellSet
  /\ \A i \in 1..Len(Seeds) : Seeds[i] \in SeedSet
  /\ \A s \in SeedSet : \E i \in 1..Len(Seeds) : s = Seeds[i]
<1>1. DOMAIN Cells = 1..Len(Cells) /\ Len(Cells) \in Nat
  BY QueueAssumption
<1>2. DOMAIN Seeds = 1..Len(Seeds) /\ Len(Seeds) \in Nat
  BY QueueAssumption
<1> QED
  BY <1>1, <1>2, QueueAssumption DEF CellSet, SeedSet

LEMMA UnbornType ==
  ASSUME NEW n \in Nat
  PROVE  Unborn(n) \in Worker
  BY DEF Unborn, Worker, Places, Operations

LEMMA AbsentType == Absent \in Worker
  BY UnbornType DEF Absent, Unborn, Worker, Places, Operations

LEMMA UnbornIsSane ==
  ASSUME NEW n \in Nat, NEW full \in Nat, n <= full
  PROVE  Sane(Unborn(n), full)
  BY DEF Sane, Unborn

LEMMA BornFields ==
  ASSUME NEW w \in Worker, NEW g \in Nat
  PROVE  /\ Born(w, g) \in Worker
         /\ Born(w, g).alive /\ Born(w, g).at = "boundary" /\ Born(w, g).by = g
         /\ \A full \in Nat : Sane(w, full) /\ w.at = "unborn" => Sane(Born(w, g), full)
         /\ Born(w, g).update = w.update /\ Born(w, g).from = w.from
         /\ Born(w, g).current = w.current /\ Born(w, g).operation = w.operation
         /\ Born(w, g).process = w.process /\ Born(w, g).sealed = w.sealed
         /\ Born(w, g).receipt = w.receipt /\ Born(w, g).result = w.result
         /\ Born(w, g).code = w.code
  BY DEF Born, Worker, Places, Sane

(* What a worker's own step, or its death, leaves as it was.                *)
Kept(w, v) ==
  /\ v.from = w.from /\ v.by = w.by /\ v.current = w.current
  /\ v.operation = w.operation /\ v.sequence = w.sequence
  /\ v.receipt = w.receipt /\ v.process = w.process /\ v.sealed = w.sealed

(* A step of a worker's life: what the invariant needs of it.               *)
Lived(w, v, full) ==
  /\ v \in Worker
  /\ Kept(w, v)
  /\ v.at \notin {"absent", "unborn"}
  /\ w.update <= v.update
  /\ Sane(w, full) => Sane(v, full)
  /\ Quiet(w) => Quiet(v)

LEMMA TrainingBoundaryLives ==
  ASSUME NEW w \in Worker, w.alive, Sane(w, Updates), w.at \in {"boundary", "paused"}, CanStep(w)
  PROVE  Lived(w, AtTrainingBoundary(w), Updates)
<1>1. AtTrainingBoundary(w) \in Worker
  <2> DEFINE paused == [w EXCEPT !.at = "paused", !.ack = w.sequence]
             working == [w EXCEPT !.at = "work", !.ack = w.sequence]
             ending == [w EXCEPT !.at = "ending"]
             stopping == [w EXCEPT !.at = "work", !.ack = w.ack]
  <2>1. w.sequence \in Int
    BY DEF Worker
  <2>2. paused \in Worker /\ working \in Worker /\ ending \in Worker /\ stopping \in Worker
    BY <2>1 DEF Worker, Places
  <2>3. AtTrainingBoundary(w) \in {paused, working, ending, stopping}
    BY DEF AtTrainingBoundary
  <2> QED
    BY <2>2, <2>3
<1>2. Kept(w, AtTrainingBoundary(w))
  BY DEF AtTrainingBoundary, Worker, Kept
<1>3. Sane(AtTrainingBoundary(w), Updates)
  BY PlanType DEF AtTrainingBoundary, Worker, Sane
<1>4. /\ (AtTrainingBoundary(w)).at \notin {"absent", "unborn"}
      /\ w.update <= (AtTrainingBoundary(w)).update
  BY PlanType DEF AtTrainingBoundary, Worker, Sane
<1>5. Quiet(w) => Quiet(AtTrainingBoundary(w))
  BY DEF AtTrainingBoundary, Worker, Sane, Quiet, CanStep
<1> QED
  BY <1>1, <1>2, <1>3, <1>4, <1>5 DEF Lived

LEMMA WindowBoundaryLives ==
  ASSUME NEW w \in Worker, w.alive, Sane(w, Steps), w.at \in {"boundary", "paused"}, CanStep(w)
  PROVE  Lived(w, AtWindowBoundary(w), Steps)
<1>1. AtWindowBoundary(w) \in Worker
  <2> DEFINE paused == [w EXCEPT !.at = "paused", !.ack = w.sequence]
             working == [w EXCEPT !.at = "work", !.ack = w.sequence]
             ending == [w EXCEPT !.at = "ending"]
             stopping == [w EXCEPT !.at = "work", !.ack = w.ack]
  <2>1. w.sequence \in Int
    BY DEF Worker
  <2>2. paused \in Worker /\ working \in Worker /\ ending \in Worker /\ stopping \in Worker
    BY <2>1 DEF Worker, Places
  <2>3. AtWindowBoundary(w) \in {paused, working, ending, stopping}
    BY DEF AtWindowBoundary
  <2> QED
    BY <2>2, <2>3
<1>2. Kept(w, AtWindowBoundary(w))
  BY DEF AtWindowBoundary, Worker, Kept
<1>3. Sane(AtWindowBoundary(w), Steps)
  BY PlanType DEF AtWindowBoundary, Worker, Sane
<1>4. /\ (AtWindowBoundary(w)).at \notin {"absent", "unborn"}
      /\ w.update <= (AtWindowBoundary(w)).update
  BY PlanType DEF AtWindowBoundary, Worker, Sane
<1>5. Quiet(w) => Quiet(AtWindowBoundary(w))
  BY DEF AtWindowBoundary, Worker, Sane, Quiet, CanStep
<1> QED
  BY <1>1, <1>2, <1>3, <1>4, <1>5 DEF Lived

LEMMA WorkedLives ==
  ASSUME NEW w \in Worker, NEW full \in Nat, w.alive, Sane(w, full), w.at = "work"
  PROVE  Lived(w, Worked(w), full)
<1>1. Worked(w) \in Worker
  <2>1. w.update + 1 \in Nat
    BY DEF Worker
  <2> QED
    BY <2>1 DEF Worked, Worker, Places
<1>2. Kept(w, Worked(w))
  BY DEF Worked, Worker, Kept
<1>3. Sane(Worked(w), full)
  BY PlanType DEF Worked, Worker, Sane
<1>4. /\ (Worked(w)).at \notin {"absent", "unborn"}
      /\ w.update <= (Worked(w)).update
  BY PlanType DEF Worked, Worker, Sane
<1>5. Quiet(w) => Quiet(Worked(w))
  BY DEF Worked, Worker, Sane, Quiet, CanStep
<1> QED
  BY <1>1, <1>2, <1>3, <1>4, <1>5 DEF Lived

LEMMA FinishedLives ==
  ASSUME NEW w \in Worker, NEW full \in Nat, w.alive, Sane(w, full), w.at = "ending"
  PROVE  Lived(w, Finished(w, full), full)
<1>1. Finished(w, full) \in Worker
  <2>1. w.sequence \in Int
    BY DEF Worker
  <2>2. [w EXCEPT !.at = "closing", !.ack = w.sequence, !.result = "completed"] \in Worker
    BY <2>1 DEF Worker, Places
  <2>3. [w EXCEPT !.at = "closing", !.ack = w.sequence, !.result = "stopped"] \in Worker
    BY <2>1 DEF Worker, Places
  <2> QED
    BY <2>2, <2>3 DEF Finished
<1>2. Kept(w, Finished(w, full))
  BY DEF Finished, Worker, Kept
<1>3. Sane(Finished(w, full), full)
  BY PlanType DEF Finished, Worker, Sane
<1>4. /\ (Finished(w, full)).at \notin {"absent", "unborn"}
      /\ w.update <= (Finished(w, full)).update
  BY PlanType DEF Finished, Worker, Sane
<1>5. Quiet(w) => Quiet(Finished(w, full))
  BY DEF Finished, Worker, Sane, Quiet, CanStep
<1> QED
  BY <1>1, <1>2, <1>3, <1>4, <1>5 DEF Lived

LEMMA ExitedLives ==
  ASSUME NEW w \in Worker, NEW full \in Nat, w.alive, Sane(w, full), w.at = "closing"
  PROVE  Lived(w, Exited(w), full)
<1>1. Exited(w) \in Worker
  BY DEF Exited, Worker, Places
<1>2. Kept(w, Exited(w))
  BY DEF Exited, Worker, Kept
<1>3. Sane(Exited(w), full)
  BY PlanType DEF Exited, Worker, Sane
<1>4. /\ (Exited(w)).at \notin {"absent", "unborn"}
      /\ w.update <= (Exited(w)).update
  BY PlanType DEF Exited, Worker, Sane
<1>5. Quiet(w) => Quiet(Exited(w))
  BY DEF Exited, Worker, Sane, Quiet, CanStep
<1> QED
  BY <1>1, <1>2, <1>3, <1>4, <1>5 DEF Lived

LEMMA KilledLives ==
  ASSUME NEW w \in Worker, NEW full \in Nat, w.alive, Sane(w, full), TRUE
  PROVE  Lived(w, Killed(w), full)
<1>1. Killed(w) \in Worker
  BY DEF Killed, Worker, Places
<1>2. Kept(w, Killed(w))
  BY DEF Killed, Worker, Kept
<1>3. Sane(Killed(w), full)
  BY PlanType DEF Killed, Worker, Sane
<1>4. /\ (Killed(w)).at \notin {"absent", "unborn"}
      /\ w.update <= (Killed(w)).update
  BY PlanType DEF Killed, Worker, Sane
<1>5. Quiet(w) => Quiet(Killed(w))
  BY DEF Killed, Worker, Sane, Quiet, CanStep
<1> QED
  BY <1>1, <1>2, <1>3, <1>4, <1>5 DEF Lived

LEMMA SteppedLives ==
  ASSUME NEW w \in Worker, w.alive, CanStep(w)
  PROVE  /\ Sane(w, Updates) => Lived(w, Stepped(w, AtTrainingBoundary(w), Updates), Updates)
         /\ Sane(w, Steps) => Lived(w, Stepped(w, AtWindowBoundary(w), Steps), Steps)
<1> USE PlanType
<1>1. CASE w.at \in {"boundary", "paused"}
  BY <1>1, TrainingBoundaryLives, WindowBoundaryLives DEF Stepped
<1>2. CASE w.at = "work"
  BY <1>2, WorkedLives DEF Stepped
<1>3. CASE w.at = "ending"
  BY <1>3, FinishedLives DEF Stepped
<1>4. CASE w.at \notin {"boundary", "paused", "work", "ending"} /\ w.at = "closing"
  BY <1>4, ExitedLives DEF Stepped
<1> QED
  BY <1>1, <1>2, <1>3, <1>4 DEF Sane, Worker, Places

------------------------------------------------------------------------------
(* The directories of the sessions and of the windows *)

Sessions == [CellSet -> Seq(Worker)]

(* g is f with worker w as the i-th attempt of cell c.                      *)
Replaces(f, g, c, i, w) ==
  /\ g \in Sessions
  /\ \A d \in CellSet : Len(g[d]) = Len(f[d])
  /\ \A d \in CellSet : \A j \in 1..Len(f[d]) :
       g[d][j] = IF d = c /\ j = i THEN w ELSE f[d][j]

(* g is f with worker w as one more attempt of cell c.                      *)
Prolongs(f, g, c, w) ==
  /\ g \in Sessions
  /\ \A d \in CellSet : Len(g[d]) = IF d = c THEN Len(f[d]) + 1 ELSE Len(f[d])
  /\ \A d \in CellSet : \A j \in 1..Len(f[d]) : g[d][j] = f[d][j]
  /\ g[c][Len(f[c]) + 1] = w

(* g is f with worker w in the window of cell c and seed s.                 *)
PlacesWindow(f, g, c, s, w) ==
  /\ g \in [CellSet -> [SeedSet -> Worker]]
  /\ \A d \in CellSet, t \in SeedSet : g[d][t] = IF d = c /\ t = s THEN w ELSE f[d][t]

LEMMA SessionType ==
  ASSUME NEW f \in Sessions, NEW c \in CellSet
  PROVE  /\ f[c] \in Seq(Worker) /\ Len(f[c]) \in Nat /\ DOMAIN f[c] = 1..Len(f[c])
         /\ \A i \in 1..Len(f[c]) : f[c][i] \in Worker
         /\ f[c] # <<>> <=> Len(f[c]) # 0
<1>1. f[c] \in Seq(Worker)
  BY DEF Sessions
<1> QED
  BY <1>1, EmptySeq, LenProperties, ElementOfSeq

LEMMA ReplacedSession ==
  ASSUME NEW f \in Sessions, NEW c \in CellSet, NEW i \in 1..Len(f[c]), NEW w \in Worker
  PROVE  Replaces(f, [f EXCEPT ![c][i] = w], c, i, w)
<1> DEFINE h == [f[c] EXCEPT ![i] = w]
           g == [f EXCEPT ![c] = h]
<1>1. f[c] \in Seq(Worker)
  BY DEF Sessions
<1>2. /\ h \in Seq(Worker) /\ Len(h) = Len(f[c])
      /\ \A j \in 1..Len(f[c]) : h[j] = IF j = i THEN w ELSE f[c][j]
  BY <1>1, ExceptSeq
<1> HIDE DEF h
<1>3. g \in Sessions
  BY <1>2 DEF Sessions
<1>4. \A d \in CellSet : g[d] = IF d = c THEN h ELSE f[d]
  BY DEF Sessions
<1>5. Replaces(f, g, c, i, w)
  BY <1>2, <1>3, <1>4 DEF Replaces
<1> QED
  BY <1>5 DEF h

LEMMA ProlongedSession ==
  ASSUME NEW f \in Sessions, NEW c \in CellSet, NEW w \in Worker
  PROVE  Prolongs(f, [f EXCEPT ![c] = Append(@, w)], c, w)
<1> DEFINE h == Append(f[c], w)
           g == [f EXCEPT ![c] = h]
<1>1. f[c] \in Seq(Worker)
  BY DEF Sessions
<1>2. /\ h \in Seq(Worker) /\ Len(h) = Len(f[c]) + 1
      /\ \A j \in 1..Len(f[c]) : h[j] = f[c][j]
      /\ h[Len(f[c]) + 1] = w
  BY <1>1, AppendProperties
<1> HIDE DEF h
<1>3. g \in Sessions
  BY <1>2 DEF Sessions
<1>4. \A d \in CellSet : g[d] = IF d = c THEN h ELSE f[d]
  BY DEF Sessions
<1>5. Prolongs(f, g, c, w)
  BY <1>2, <1>3, <1>4 DEF Prolongs
<1> QED
  BY <1>5 DEF h

LEMMA PlacedWindow ==
  ASSUME NEW f \in [CellSet -> [SeedSet -> Worker]], NEW c \in CellSet, NEW s \in SeedSet,
         NEW w \in Worker
  PROVE  PlacesWindow(f, [f EXCEPT ![c][s] = w], c, s, w)
  BY DEF PlacesWindow

------------------------------------------------------------------------------
(* Where the controller stands, its workers exist *)

LEMMA HereTypes ==
  ASSUME TypeOK, Situated, controller.alive
  PROVE  /\ Site \notin {"resources", "select", "fail"} => Cell \in CellSet
         /\ Site \in Observing => Seed \in SeedSet /\ Window \in Worker
         /\ Site \in (Launching \ {"launch"}) \cup Judging =>
              Len(attempts[Cell]) \in 1..Len(attempts[Cell]) /\ Attempt \in Worker
         /\ Site \in {"validate", "verify"} /\ controller.index <= Len(attempts[Cell]) =>
              controller.index \in 1..Len(attempts[Cell]) /\ Checked \in Worker
<1>1. Site \notin {"resources", "select", "fail"} => Cell \in CellSet
  BY PlanType DEF Situated, Cell
<1>2. Site \in Observing => Seed \in SeedSet
  BY PlanType DEF Situated, Seed, TypeOK, Controllers
<1>3. Site \in Observing => Window \in Worker
  BY <1>1, <1>2 DEF Window, TypeOK, Observing
<1>4. Cell \in CellSet /\ attempts[Cell] # <<>> =>
        Len(attempts[Cell]) \in 1..Len(attempts[Cell]) /\ Attempt \in Worker
  BY SessionType DEF TypeOK, Sessions, Attempt
<1>5. Cell \in CellSet /\ controller.index # 0 /\ controller.index <= Len(attempts[Cell]) =>
        controller.index \in 1..Len(attempts[Cell]) /\ Checked \in Worker
  BY SessionType DEF TypeOK, Sessions, Controllers, Checked
<1> QED
  BY <1>1, <1>2, <1>3, <1>4, <1>5 DEF Situated, Launching, Judging

(* CurrentAttempt finds the last attempt that was pointed at.               *)
LEMMA CurrentFound ==
  ASSUME TypeOK, NEW c \in CellSet
  PROVE  /\ Unpointed(c) => CurrentAttempt(c) = 0
         /\ \A i \in 1..Len(attempts[c]) : LastPointed(c, i) => CurrentAttempt(c) = i
<1> DEFINE named == {i \in DOMAIN attempts[c] : attempts[c][i].current}
<1>1. DOMAIN attempts[c] = 1..Len(attempts[c]) /\ Len(attempts[c]) \in Nat
  BY SessionType DEF TypeOK, Sessions
<1>2. Unpointed(c) => CurrentAttempt(c) = 0
  <2>1. Unpointed(c) => named = {}
    BY <1>1 DEF Unpointed
  <2> QED
    BY <2>1 DEF CurrentAttempt
<1>3. ASSUME NEW i \in 1..Len(attempts[c]), LastPointed(c, i)
      PROVE  CurrentAttempt(c) = i
  <2>1. i \in named /\ \A j \in named : i >= j
    BY <1>1, <1>3 DEF LastPointed
  <2>2. \A j \in named : (\A k \in named : j >= k) => j = i
    BY <1>1, <2>1
  <2> HIDE DEF named
  <2>3. Sets!Max(named) = i
    BY <2>1, <2>2 DEF Sets!Max
  <2> USE DEF named
  <2>4. CurrentAttempt(c) = Sets!Max(named)
    BY <2>1 DEF CurrentAttempt
  <2> QED
    BY <2>3, <2>4
<1> QED
  BY <1>2, <1>3

LEMMA StartType ==
  ASSUME Base, NEW c \in CellSet
  PROVE  /\ CurrentAttempt(c) = 0 \/ LastPointed(c, CurrentAttempt(c))
         /\ Unpointed(c) => CurrentAttempt(c) = 0 /\ StartUpdate(c) = 0
         /\ StartUpdate(c) \in Nat
<1>1. CASE Unpointed(c)
  BY <1>1, CurrentFound DEF StartUpdate, Base
<1>2. ASSUME NEW i \in 1..Len(attempts[c]), LastPointed(c, i)
      PROVE  /\ CurrentAttempt(c) = i /\ StartUpdate(c) \in Nat
             /\ Unpointed(c) => FALSE
  <2>1. CurrentAttempt(c) = i
    BY <1>2, CurrentFound DEF Base
  <2>2. attempts[c][i] \in Worker
    BY SessionType DEF Base, TypeOK, Sessions
  <2> QED
    BY <1>2, <2>1, <2>2 DEF StartUpdate, LastPointed, Unpointed, Worker
<1> QED
  BY <1>1, <1>2 DEF Base, Pointers

------------------------------------------------------------------------------
(* What each action does to the directories *)

AttemptBecomes(w) ==
  w \in Worker /\ Replaces(attempts, attempts', Cell, Len(attempts[Cell]), w)

CheckedBecomes(w) ==
  w \in Worker /\ Replaces(attempts, attempts', Cell, controller.index, w)

WindowBecomes(w) ==
  w \in Worker /\ PlacesWindow(windows, windows', Cell, Seed, w)

(* A command reaches the worker.                                            *)
Ordered(w, operation) == [w EXCEPT !.operation = operation, !.sequence = @ + 1]

LEMMA FlagTypes ==
  ASSUME NEW w \in Worker, NEW operation \in Operations
  PROVE  /\ [w EXCEPT !.current = TRUE] \in Worker
         /\ [w EXCEPT !.receipt = TRUE] \in Worker
         /\ [w EXCEPT !.process = TRUE] \in Worker
         /\ [w EXCEPT !.sealed = TRUE] \in Worker
         /\ Ordered(w, operation) \in Worker
<1>1. w.sequence + 1 \in Nat
  BY DEF Worker
<1> QED
  BY <1>1 DEF Worker, Ordered

LEMMA PrepareEffect ==
  ASSUME Base, PrepareAttempt
  PROVE  /\ controller.alive /\ controller.pc = "launch"
         /\ \/ /\ Resumable(Cell)
               /\ Prolongs(attempts, attempts', Cell, Unborn(StartUpdate(Cell)))
               /\ controller' = [controller EXCEPT !.pc = "point"]
            \/ attempts' = attempts /\ controller' = [controller EXCEPT !.pc = "fail"]
<1>1. controller.alive /\ controller.pc = "launch" /\ Site = "launch"
  BY DEF PrepareAttempt, At, Site
<1>2. Cell \in CellSet
  BY <1>1, HereTypes DEF Base
<1>3. Prolongs(attempts, [attempts EXCEPT ![Cell] = Append(@, Unborn(StartUpdate(Cell)))],
               Cell, Unborn(StartUpdate(Cell)))
  BY <1>2, StartType, UnbornType, ProlongedSession DEF Base, TypeOK, Sessions
<1> QED
  BY <1>1, <1>3 DEF PrepareAttempt, Goto

LEMMA AttemptSet ==
  ASSUME Base, controller.alive, Site \in (Launching \ {"launch"}) \cup Judging,
         NEW w \in Worker, SetAttempt(w)
  PROVE  AttemptBecomes(w)
<1>1. Cell \in CellSet /\ Len(attempts[Cell]) \in 1..Len(attempts[Cell])
  BY HereTypes DEF Base, Launching, Judging
<1>2. attempts \in Sessions
  BY DEF Base, TypeOK, Sessions
<1>3. Replaces(attempts, [attempts EXCEPT ![Cell][Len(attempts[Cell])] = w],
               Cell, Len(attempts[Cell]), w)
  BY <1>1, <1>2, ReplacedSession
<1> QED
  BY <1>3 DEF SetAttempt, AttemptBecomes

LEMMA WindowSet ==
  ASSUME Base, controller.alive, Site \in Observing, NEW w \in Worker, SetWindow(w)
  PROVE  WindowBecomes(w)
<1>1. Cell \in CellSet /\ Seed \in SeedSet
  BY HereTypes DEF Base, Observing
<1> QED
  BY <1>1, PlacedWindow DEF Base, TypeOK, SetWindow, WindowBecomes

LEMMA PointEffect ==
  ASSUME Base, PointAttempt
  PROVE  /\ controller.alive /\ Site = "point"
         /\ AttemptBecomes([Attempt EXCEPT !.current = TRUE])
         /\ controller' = [controller EXCEPT !.pc = "spawn"]
<1>1. controller.alive /\ Site = "point"
  BY DEF PointAttempt, At, Site
<1>2. Attempt \in Worker
  BY <1>1, HereTypes DEF Base, Launching
<1>3. [Attempt EXCEPT !.current = TRUE] \in Worker
  BY <1>2, FlagTypes DEF Operations
<1> QED
  BY <1>1, <1>3, AttemptSet DEF PointAttempt, Launching, Goto

LEMMA SpawnEffect ==
  ASSUME Base, SpawnAttempt
  PROVE  /\ controller.alive /\ Site = "spawn"
         /\ AttemptBecomes(Born(Attempt, controller.gen))
         /\ controller' = [controller EXCEPT !.pc = "poll"]
<1>1. controller.alive /\ Site = "spawn"
  BY DEF SpawnAttempt, At, Site
<1>2. Attempt \in Worker
  BY <1>1, HereTypes DEF Base, Launching
<1>3. Born(Attempt, controller.gen) \in Worker
  BY <1>2, BornFields DEF Base, TypeOK, Controllers
<1> QED
  BY <1>1, <1>3, AttemptSet DEF SpawnAttempt, Launching, Goto

LEMMA ForwardEffect ==
  ASSUME Base, ForwardToAttempt
  PROVE  /\ controller.alive /\ Site = "forward" /\ controller.pc = "forward"
         /\ \/ /\ controller.operation = Attempt.operation
               /\ attempts' = attempts /\ controller' = [controller EXCEPT !.pc = "report"]
            \/ /\ controller.operation # Attempt.operation /\ Attempt.alive
               /\ AttemptBecomes(Ordered(Attempt, controller.operation))
               /\ controller' = [controller EXCEPT !.pc = "report"]
            \/ /\ ~Attempt.alive /\ attempts' = attempts
               /\ \/ controller' = [controller EXCEPT !.pc = "report"]
                  \/ controller' = [controller EXCEPT !.pc = "fail"]
<1>1. controller.alive /\ Site = "forward" /\ controller.pc = "forward"
  BY DEF ForwardToAttempt, At, Site
<1>2. Attempt \in Worker
  BY <1>1, HereTypes DEF Base, Launching
<1>3. Ordered(Attempt, controller.operation) \in Worker
  BY <1>2, FlagTypes DEF Base, TypeOK, Controllers
<1>4. CASE controller.operation = Attempt.operation
  BY <1>1, <1>4 DEF ForwardToAttempt, Goto
<1>5. CASE controller.operation # Attempt.operation /\ Attempt.alive
  <2>1. SetAttempt(Ordered(Attempt, controller.operation))
    BY <1>5 DEF ForwardToAttempt, Ordered
  <2>2. AttemptBecomes(Ordered(Attempt, controller.operation))
    BY <1>1, <1>3, <2>1, AttemptSet DEF Launching
  <2> QED
    BY <1>1, <1>5, <2>2 DEF ForwardToAttempt, Goto
<1>6. CASE controller.operation # Attempt.operation /\ ~Attempt.alive
  BY <1>1, <1>6 DEF ForwardToAttempt, Goto
<1> QED
  BY <1>4, <1>5, <1>6

LEMMA RecordEffect ==
  ASSUME Base, RecordAttempt
  PROVE  /\ controller.alive /\ Site = "record"
         /\ AttemptBecomes([Attempt EXCEPT !.receipt = TRUE])
         /\ controller' = [controller EXCEPT !.pc = "validate", !.index = 1]
<1>1. controller.alive /\ Site = "record"
  BY DEF RecordAttempt, At, Site
<1>2. Attempt \in Worker
  BY <1>1, HereTypes DEF Base, Launching
<1>3. [Attempt EXCEPT !.receipt = TRUE] \in Worker
  BY <1>2, FlagTypes DEF Operations
<1> QED
  BY <1>1, <1>3, AttemptSet DEF RecordAttempt, Launching

LEMMA ValidateEffect ==
  ASSUME Base, ValidateAttempt
  PROVE  /\ controller.alive /\ Site = "validate"
         /\ \/ /\ controller.index > Len(attempts[Cell])
               /\ attempts' = attempts /\ controller' = [controller EXCEPT !.pc = "judge"]
            \/ /\ controller.index \in 1..Len(attempts[Cell]) /\ Checked.sealed
               /\ attempts' = attempts
               /\ controller' = [controller EXCEPT !.index = @ + 1]
            \/ /\ controller.index \in 1..Len(attempts[Cell])
               /\ Checked \in Worker /\ ~Checked.sealed /\ Acceptable(Checked)
               /\ CheckedBecomes([Checked EXCEPT !.process = TRUE])
               /\ controller' = [controller EXCEPT !.pc = "verify"]
            \/ attempts' = attempts /\ controller' = [controller EXCEPT !.pc = "fail"]
<1>1. controller.alive /\ Site = "validate"
  BY DEF ValidateAttempt, At, Site
<1>2. Cell \in CellSet /\ Len(attempts[Cell]) \in Nat /\ controller.index \in Nat
  BY <1>1, HereTypes, SessionType DEF Base, TypeOK, Sessions, Controllers
<1>3. CASE controller.index > Len(attempts[Cell])
  BY <1>1, <1>3 DEF ValidateAttempt, Goto
<1>4. CASE controller.index <= Len(attempts[Cell])
  <2>1. controller.index \in 1..Len(attempts[Cell]) /\ Checked \in Worker
    BY <1>1, <1>4, HereTypes DEF Base
  <2>2. [Checked EXCEPT !.process = TRUE] \in Worker
    BY <2>1, FlagTypes DEF Operations
  <2>3. Replaces(attempts, [attempts EXCEPT ![Cell][controller.index]
                              = [Checked EXCEPT !.process = TRUE]],
                 Cell, controller.index, [Checked EXCEPT !.process = TRUE])
    BY <1>2, <2>1, <2>2, ReplacedSession DEF Base, TypeOK, Sessions
  <2>4. [attempts EXCEPT ![Cell][controller.index].process = TRUE]
          = [attempts EXCEPT ![Cell][controller.index] = [Checked EXCEPT !.process = TRUE]]
    BY DEF Checked
  <2> QED
    BY <1>1, <1>2, <1>4, <2>1, <2>2, <2>3, <2>4 DEF ValidateAttempt, Goto, CheckedBecomes
<1> QED
  BY <1>2, <1>3, <1>4

LEMMA SealEffect ==
  ASSUME Base, SealAttempt
  PROVE  /\ controller.alive /\ Site = "verify"
         /\ controller.index \in 1..Len(attempts[Cell]) /\ Checked \in Worker
         /\ \/ /\ Checked.update > Checked.from
               /\ CheckedBecomes([Checked EXCEPT !.sealed = TRUE])
               /\ controller' = [controller EXCEPT !.pc = "validate", !.index = @ + 1]
            \/ attempts' = attempts /\ controller' = [controller EXCEPT !.pc = "fail"]
<1>1. controller.alive /\ Site = "verify"
  BY DEF SealAttempt, At, Site
<1>2. Cell \in CellSet
  BY <1>1, HereTypes DEF Base
<1>3. controller.index \in 1..Len(attempts[Cell]) /\ Checked \in Worker
  BY <1>1, HereTypes DEF Base, Situated
<1>4. [Checked EXCEPT !.sealed = TRUE] \in Worker
  BY <1>3, FlagTypes DEF Operations
<1>5. Replaces(attempts, [attempts EXCEPT ![Cell][controller.index]
                            = [Checked EXCEPT !.sealed = TRUE]],
               Cell, controller.index, [Checked EXCEPT !.sealed = TRUE])
  BY <1>2, <1>3, <1>4, ReplacedSession DEF Base, TypeOK, Sessions
<1>6. [attempts EXCEPT ![Cell][controller.index].sealed = TRUE]
        = [attempts EXCEPT ![Cell][controller.index] = [Checked EXCEPT !.sealed = TRUE]]
  BY DEF Checked
<1> QED
  BY <1>1, <1>3, <1>4, <1>5, <1>6 DEF SealAttempt, Goto, CheckedBecomes

LEMMA OpenEffect ==
  ASSUME Base, OpenWindow
  PROVE  /\ controller.alive /\ Site = "evaluate" /\ controller.pc = "evaluate"
         /\ \/ /\ Window.sealed /\ windows' = windows
               /\ controller' = [controller EXCEPT !.pc = "develop"]
            \/ /\ Window.at = "absent" /\ WindowBecomes(Unborn(0))
               /\ controller' = [controller EXCEPT !.pc = "window"]
            \/ windows' = windows /\ controller' = [controller EXCEPT !.pc = "fail"]
<1>1. controller.alive /\ Site = "evaluate" /\ controller.pc = "evaluate"
  BY DEF OpenWindow, At, Site
<1>2. SetWindow(Unborn(0)) => WindowBecomes(Unborn(0))
  BY <1>1, WindowSet, UnbornType DEF Observing
<1> QED
  BY <1>1, <1>2 DEF OpenWindow, WindowIsFree, Goto

LEMMA SpawnWindowEffect ==
  ASSUME Base, SpawnWindow
  PROVE  /\ controller.alive /\ Site = "window"
         /\ WindowBecomes(Born(Window, controller.gen))
         /\ controller' = [controller EXCEPT !.pc = "watch"]
<1>1. controller.alive /\ Site = "window"
  BY DEF SpawnWindow, At, Site
<1>2. Window \in Worker
  BY <1>1, HereTypes DEF Base, Observing
<1>3. Born(Window, controller.gen) \in Worker
  BY <1>2, BornFields DEF Base, TypeOK, Controllers
<1> QED
  BY <1>1, <1>3, WindowSet DEF SpawnWindow, Observing, Goto

LEMMA TransmitEffect ==
  ASSUME Base, ForwardToWindow
  PROVE  /\ controller.alive /\ Site = "transmit" /\ controller.pc = "transmit"
         /\ controller' = [controller EXCEPT !.pc = "relay"]
         /\ \/ controller.operation = Window.operation /\ windows' = windows
            \/ /\ controller.operation # Window.operation
               /\ WindowBecomes(Ordered(Window, controller.operation))
<1>1. controller.alive /\ Site = "transmit" /\ controller.pc = "transmit"
  BY DEF ForwardToWindow, At, Site
<1>2. Window \in Worker
  BY <1>1, HereTypes DEF Base, Observing
<1>3. Ordered(Window, controller.operation) \in Worker
  BY <1>2, FlagTypes DEF Base, TypeOK, Controllers
<1>4. CASE controller.operation = Window.operation
  BY <1>1, <1>4 DEF ForwardToWindow, Goto
<1>5. CASE controller.operation # Window.operation
  <2>1. SetWindow(Ordered(Window, controller.operation))
    BY <1>5 DEF ForwardToWindow, Ordered
  <2>2. WindowBecomes(Ordered(Window, controller.operation))
    BY <1>1, <1>3, <2>1, WindowSet DEF Observing
  <2> QED
    BY <1>1, <1>5, <2>2 DEF ForwardToWindow, Goto
<1> QED
  BY <1>4, <1>5

LEMMA ReceiveEffect ==
  ASSUME Base, RecordWindow
  PROVE  /\ controller.alive /\ Site = "receive"
         /\ WindowBecomes([Window EXCEPT !.receipt = TRUE])
         /\ \/ Window.code = "0" /\ controller' = [controller EXCEPT !.pc = "seal"]
            \/ controller' = [controller EXCEPT !.pc = "fail"]
<1>1. controller.alive /\ Site = "receive"
  BY DEF RecordWindow, At, Site
<1>2. Window \in Worker
  BY <1>1, HereTypes DEF Base, Observing
<1>3. [Window EXCEPT !.receipt = TRUE] \in Worker
  BY <1>2, FlagTypes DEF Operations
<1>4. WindowBecomes([Window EXCEPT !.receipt = TRUE])
  BY <1>1, <1>3, WindowSet DEF RecordWindow, Observing
<1> QED
  BY <1>1, <1>4 DEF RecordWindow, Goto

LEMMA SealWindowEffect ==
  ASSUME Base, SealWindow
  PROVE  /\ controller.alive /\ Site = "seal"
         /\ WindowBecomes([Window EXCEPT !.sealed = TRUE])
         /\ controller' = [controller EXCEPT !.pc = "develop"]
<1>1. controller.alive /\ Site = "seal"
  BY DEF SealWindow, At, Site
<1>2. Window \in Worker
  BY <1>1, HereTypes DEF Base, Observing
<1>3. [Window EXCEPT !.sealed = TRUE] \in Worker
  BY <1>2, FlagTypes DEF Operations
<1> QED
  BY <1>1, <1>3, WindowSet DEF SealWindow, Observing, Goto

(* A worker takes a step, or dies, by itself.                               *)
LearnerLives ==
  \E c \in CellSet : \E i \in 1..Len(attempts[c]) : \E v \in Worker :
    /\ attempts[c][i].alive
    /\ Replaces(attempts, attempts', c, i, v)
    /\ Lived(attempts[c][i], v, Updates)

EvaluatorLives ==
  \E c \in CellSet, s \in SeedSet : \E v \in Worker :
    /\ windows[c][s].alive
    /\ PlacesWindow(windows, windows', c, s, v)
    /\ Lived(windows[c][s], v, Steps)

LEMMA LearnerEffect ==
  ASSUME Base, WorkersAreSane, LearnerStep \/ LearnerKilled
  PROVE  LearnerLives
<1>1. attempts \in Sessions
  BY DEF Base, TypeOK, Sessions
<1>2. ASSUME NEW c \in CellSet, NEW i \in DOMAIN attempts[c], CanStep(attempts[c][i]),
             attempts' = [attempts EXCEPT ![c][i] =
               Stepped(attempts[c][i], AtTrainingBoundary(attempts[c][i]), Updates)]
      PROVE  LearnerLives
  <2>1. i \in 1..Len(attempts[c]) /\ attempts[c][i] \in Worker
    BY <1>1, SessionType
  <2>2. attempts[c][i].alive /\ Sane(attempts[c][i], Updates)
    BY <1>2, <2>1 DEF CanStep, WorkersAreSane, SaneAttempt
  <2> DEFINE v == Stepped(attempts[c][i], AtTrainingBoundary(attempts[c][i]), Updates)
  <2>3. Lived(attempts[c][i], v, Updates)
    BY <1>2, <2>1, <2>2, SteppedLives
  <2>4. v \in Worker
    BY <2>3 DEF Lived
  <2>5. Replaces(attempts, attempts', c, i, v)
    BY <1>1, <1>2, <2>1, <2>4, ReplacedSession
  <2> QED
    BY <2>1, <2>2, <2>3, <2>4, <2>5 DEF LearnerLives
<1>3. ASSUME NEW c \in CellSet, NEW i \in DOMAIN attempts[c], attempts[c][i].alive,
             attempts' = [attempts EXCEPT ![c][i] = Killed(@)]
      PROVE  LearnerLives
  <2>1. i \in 1..Len(attempts[c]) /\ attempts[c][i] \in Worker
    BY <1>1, SessionType
  <2>2. Sane(attempts[c][i], Updates)
    BY <2>1 DEF WorkersAreSane, SaneAttempt
  <2> DEFINE v == Killed(attempts[c][i])
  <2>3. Lived(attempts[c][i], v, Updates)
    BY <1>3, <2>1, <2>2, KilledLives, PlanType
  <2>4. v \in Worker
    BY <2>3 DEF Lived
  <2>5. Replaces(attempts, attempts', c, i, v)
    BY <1>1, <1>3, <2>1, <2>4, ReplacedSession
  <2> QED
    BY <1>3, <2>1, <2>3, <2>4, <2>5 DEF LearnerLives
<1> QED
  BY <1>2, <1>3 DEF LearnerStep, LearnerKilled

LEMMA EvaluatorEffect ==
  ASSUME Base, WorkersAreSane, EvaluatorStep \/ EvaluatorKilled
  PROVE  EvaluatorLives
<1>1. windows \in [CellSet -> [SeedSet -> Worker]]
  BY DEF Base, TypeOK
<1>2. ASSUME NEW c \in CellSet, NEW s \in SeedSet, CanStep(windows[c][s]),
             windows' = [windows EXCEPT ![c][s] =
               Stepped(windows[c][s], AtWindowBoundary(windows[c][s]), Steps)]
      PROVE  EvaluatorLives
  <2>1. windows[c][s] \in Worker
    BY <1>1
  <2>2. windows[c][s].alive /\ Sane(windows[c][s], Steps)
    BY <1>2 DEF CanStep, WorkersAreSane, SaneWindow
  <2> DEFINE v == Stepped(windows[c][s], AtWindowBoundary(windows[c][s]), Steps)
  <2>3. Lived(windows[c][s], v, Steps)
    BY <1>2, <2>1, <2>2, SteppedLives
  <2>4. v \in Worker
    BY <2>3 DEF Lived
  <2>5. PlacesWindow(windows, windows', c, s, v)
    BY <1>1, <1>2, <2>4, PlacedWindow
  <2> QED
    BY <2>2, <2>3, <2>4, <2>5 DEF EvaluatorLives
<1>3. ASSUME NEW c \in CellSet, NEW s \in SeedSet, windows[c][s].alive,
             windows' = [windows EXCEPT ![c][s] = Killed(@)]
      PROVE  EvaluatorLives
  <2>1. windows[c][s] \in Worker
    BY <1>1
  <2>2. Sane(windows[c][s], Steps)
    BY DEF WorkersAreSane, SaneWindow
  <2> DEFINE v == Killed(windows[c][s])
  <2>3. Lived(windows[c][s], v, Steps)
    BY <1>3, <2>1, <2>2, KilledLives, PlanType
  <2>4. v \in Worker
    BY <2>3 DEF Lived
  <2>5. PlacesWindow(windows, windows', c, s, v)
    BY <1>1, <1>3, <2>4, PlacedWindow
  <2> QED
    BY <1>3, <2>3, <2>4, <2>5 DEF EvaluatorLives
<1> QED
  BY <1>2, <1>3 DEF EvaluatorStep, EvaluatorKilled

------------------------------------------------------------------------------
(* Types are kept *)

LEMMA PcNames ==
  /\ {"boundary", "decide", "none"} \subseteq Pcs
  /\ Sites \subseteq Pcs
  BY DEF Pcs

LEMMA NobodyType ==
  ASSUME NEW g \in Nat, NEW a \in BOOLEAN, NEW pc \in Pcs, NEW i \in Nat
  PROVE  /\ Nobody \in Controllers
         /\ [Nobody EXCEPT !.gen = g] \in Controllers
         /\ [Nobody EXCEPT !.alive = a, !.gen = g, !.pc = pc, !.cell = i] \in Controllers
<1>1. Nobody \in Controllers
  BY PcNames DEF Nobody, Controllers, Operations
<1> QED
  BY <1>1 DEF Controllers

LEMMA ControllerMoves ==
  ASSUME TypeOK
  PROVE  /\ \A pc \in Pcs : [controller EXCEPT !.pc = pc] \in Controllers
         /\ \A pc \in Pcs : Goto(pc) => controller' \in Controllers
         /\ \A pc \in Sites : BoundaryThen(pc) => controller' \in Controllers
         /\ \A pc \in Pcs : ReadRequest(pc) => controller' \in Controllers
         /\ Goto(controller.then) => controller' \in Controllers
         /\ Exits => controller' \in Controllers
         /\ [controller EXCEPT !.pc = "validate", !.index = 1] \in Controllers
         /\ [controller EXCEPT !.index = @ + 1] \in Controllers
         /\ [controller EXCEPT !.pc = "validate", !.index = @ + 1] \in Controllers
         /\ [controller EXCEPT !.pc = "seeds", !.seed = 1] \in Controllers
         /\ [controller EXCEPT !.pc = "seeds", !.seed = @ + 1] \in Controllers
         /\ [controller EXCEPT !.seed = @ + 1] \in Controllers
         /\ [controller EXCEPT !.pc = "select", !.cell = @ + 1] \in Controllers
         /\ \A i \in Nat :
              [controller EXCEPT !.cell = i, !.pc = "boundary", !.then = "open"] \in
                Controllers
<1> USE PcNames
<1>1. /\ controller \in Controllers /\ request.operation \in Operations
      /\ request.sequence \in Int
  BY DEF TypeOK
<1>2. /\ controller.index + 1 \in Nat /\ controller.seed + 1 \in Nat
      /\ controller.cell + 1 \in Nat /\ 1 \in Nat
  BY <1>1 DEF Controllers
<1>3. {"validate", "seeds", "select", "open"} \subseteq Sites
  BY DEF Sites
<1>4. {"validate", "seeds", "select", "boundary"} \subseteq Pcs
  BY <1>3
<1>5. /\ \A pc \in Pcs : [controller EXCEPT !.pc = pc] \in Controllers
      /\ \A pc \in Pcs : Goto(pc) => controller' \in Controllers
      /\ Goto(controller.then) => controller' \in Controllers
  <2>1. controller.then \in Pcs
    BY <1>1 DEF Controllers
  <2> QED
    BY <1>1, <2>1 DEF Controllers, Goto
<1>6. \A pc \in Sites : BoundaryThen(pc) => controller' \in Controllers
  BY <1>1 DEF Controllers, BoundaryThen
<1>7. \A pc \in Pcs : ReadRequest(pc) => controller' \in Controllers
  BY <1>1 DEF Controllers, ReadRequest
<1>8. Exits => controller' \in Controllers
  <2>1. controller.gen \in Nat
    BY <1>1 DEF Controllers
  <2> QED
    BY Zenon, <2>1, NobodyType DEF Exits
<1>9. /\ [controller EXCEPT !.pc = "validate", !.index = 1] \in Controllers
      /\ [controller EXCEPT !.index = @ + 1] \in Controllers
      /\ [controller EXCEPT !.pc = "validate", !.index = @ + 1] \in Controllers
  BY <1>1, <1>2, <1>4 DEF Controllers
<1>10. /\ [controller EXCEPT !.pc = "seeds", !.seed = 1] \in Controllers
       /\ [controller EXCEPT !.pc = "seeds", !.seed = @ + 1] \in Controllers
       /\ [controller EXCEPT !.seed = @ + 1] \in Controllers
  BY <1>1, <1>2, <1>4 DEF Controllers
<1>11. /\ [controller EXCEPT !.pc = "select", !.cell = @ + 1] \in Controllers
       /\ \A i \in Nat :
            [controller EXCEPT !.cell = i, !.pc = "boundary", !.then = "open"] \in
              Controllers
  BY Zenon, <1>1, <1>2, <1>3, <1>4 DEF Controllers
<1> QED
  BY Zenon, <1>5, <1>6, <1>7, <1>8, <1>9, <1>10, <1>11

LEMMA StateMoves ==
  ASSUME NEW s \in States, NEW phase \in Phases, NEW stage \in Stages, NEW n \in Nat
  PROVE  /\ [s EXCEPT !.phase = phase] \in States
         /\ [s EXCEPT !.phase = phase, !.update = n] \in States
         /\ [s EXCEPT !.phase = phase, !.stage = stage] \in States
         /\ [s EXCEPT !.phase = phase, !.stage = stage, !.update = n] \in States
  BY DEF States

LEMMA AcknowledgedType ==
  ASSUME TypeOK, NEW s \in States, NEW n \in Int
  PROVE  /\ Acknowledged(s, n) \in States
         /\ Acknowledged(s, n).ack = n
         /\ Acknowledged(s, n).by = controller.gen
<1>1. controller.gen \in Nat
  BY DEF TypeOK, Controllers
<1> QED
  BY <1>1 DEF States, Acknowledged

LEMMA ReportedType ==
  ASSUME TypeOK, NEW w \in Worker
  PROVE  Reported(state, w) \in States
<1>1. WorkerPhase(w) \in Phases /\ w.update \in Nat
  BY DEF WorkerPhase, Phases, Worker
<1>2. [state EXCEPT !.phase = WorkerPhase(w), !.update = w.update] \in States
  BY Zenon, <1>1, StateMoves DEF TypeOK, Stages
<1>3. controller.sequence \in Int
  BY DEF TypeOK, Controllers
<1> QED
  BY <1>2, <1>3, AcknowledgedType DEF Reported

LEMMA TypeInit == Init => TypeOK
<1> SUFFICES ASSUME Init PROVE TypeOK
  OBVIOUS
<1>1. attempts \in [CellSet -> Seq(Worker)]
  BY EmptySeq DEF Init
<1>2. windows \in [CellSet -> [SeedSet -> Worker]]
  BY AbsentType DEF Init
<1>3. results \in [CellSet -> Rows]
  BY DEF Init, Rows
<1>4. controller \in Controllers
  BY Zenon, PcNames, NobodyType DEF Init
<1>5. state \in States
  BY DEF Init, States, Phases, Stages
<1>6. frontend.pc = "idle" /\ receipt \in Nat
  BY DEF Init, Idle
<1>7. request \in [operation : Operations, sequence : Int]
  BY DEF Init, Operations
<1> QED
  BY <1>1, <1>2, <1>3, <1>4, <1>5, <1>6, <1>7 DEF TypeOK

LEMMA TypeStep ==
  ASSUME Base, WorkersAreSane, [Next]_vars
  PROVE  TypeOK'
<1> USE DEF Base
<1>1. CASE StartSpawn
  <2>1. controller' \in Controllers
    <3>1. controller.gen + 1 \in Nat /\ 1 \in Nat
      BY DEF TypeOK, Controllers
    <3>2. "resources" \in Pcs
      BY PcNames DEF Sites
    <3> QED
      <4>1. [Nobody EXCEPT !.alive = TRUE, !.gen = controller.gen + 1,
                           !.pc = "resources", !.cell = 1] \in Controllers
        BY Zenon, <3>1, <3>2, NobodyType
      <4> QED
        BY <1>1, <4>1 DEF StartSpawn
  <2> QED
    BY <1>1, <2>1 DEF StartSpawn, Idle, TypeOK, Operations
<1>2. CASE StartRegister
  <2>1. /\ frontend'.pc \in {"idle", "registered"}
        /\ frontend'.pc = "registered" => frontend'.snapshot = state
    <3>1. frontend' = [Idle EXCEPT !.pc = "registered", !.snapshot = state] \/ frontend' = Idle
      BY <1>2 DEF StartRegister
    <3>2. /\ [Idle EXCEPT !.pc = "registered", !.snapshot = state].pc = "registered"
          /\ [Idle EXCEPT !.pc = "registered", !.snapshot = state].snapshot = state
      BY DEF Idle
    <3>3. Idle.pc = "idle"
      BY DEF Idle
    <3> QED
      BY <3>1, <3>2, <3>3
  <2>2. receipt' \in Nat
    BY <1>2 DEF StartRegister, TypeOK, Controllers
  <2> QED
    BY <1>2, <2>1, <2>2 DEF StartRegister, TypeOK
<1>3. CASE StartWrite
  BY Zenon, <1>3, StateMoves
  DEF StartWrite, Idle, TypeOK, Phases, Stages
<1>4. CASE CommandCheck
  BY <1>4
  DEF CommandCheck, Idle, TypeOK
<1>5. CASE CommandWrite
  BY <1>5
  DEF CommandWrite, Idle, TypeOK
<1>6. CASE BoundaryRead
  BY Zenon, <1>6, ControllerMoves, PcNames
  DEF BoundaryRead, TypeOK
<1>7. CASE BoundaryDecide
  <2>1. controller' \in Controllers
    BY Zenon, <1>7, ControllerMoves, PcNames DEF BoundaryDecide
  <2>2. controller.sequence \in Int /\ "paused" \in Phases /\ "stopped" \in Phases
        /\ "none" \in Stages
    BY DEF TypeOK, Controllers, Phases, Stages
  <2>3. Acknowledged(state, controller.sequence) \in States
    BY <2>2, AcknowledgedType DEF TypeOK
  <2>4. /\ [Acknowledged(state, controller.sequence) EXCEPT !.phase = "paused", !.update = 0]
              \in States
        /\ [Acknowledged(state, controller.sequence) EXCEPT !.phase = "stopped"] \in States
    BY Zenon, <2>2, <2>3, StateMoves
  <2>5. state' \in States
    BY <1>7, <2>3, <2>4 DEF BoundaryDecide
  <2> QED
    BY <1>7, <2>1, <2>5 DEF BoundaryDecide, TypeOK
<1>8. CASE WaitForResources
  <2>1. {"select", "resources"} \subseteq Sites /\ {"select", "resources"} \subseteq Pcs
    BY PcNames DEF Sites
  <2>2. controller' \in Controllers
    BY Zenon, <1>8, <2>1, ControllerMoves DEF WaitForResources
  <2>3. [state EXCEPT !.phase = "waiting_resources", !.update = 0] \in States
    BY Zenon, StateMoves DEF TypeOK, Phases, Stages
  <2> QED
    BY <1>8, <2>2, <2>3 DEF WaitForResources, TypeOK
<1>9. CASE SelectCell
  <2>1. controller.cell..Len(Cells) \subseteq Nat
    BY PlanType DEF TypeOK, Controllers
  <2>2. controller' \in Controllers
    BY ZenonT(60), <1>9, <2>1, ControllerMoves DEF SelectCell
  <2>3. [state EXCEPT !.phase = "incomplete", !.stage = "none", !.update = 0] \in States
    BY Zenon, StateMoves DEF TypeOK, Phases, Stages
  <2>4. state' \in States
    BY Zenon, <1>9, <2>3 DEF SelectCell, TypeOK
  <2> QED
    BY Zenon, <1>9, <2>2, <2>4 DEF SelectCell, TypeOK
<1>10. CASE OpenCell
  <2>1. controller' \in Controllers
    BY Zenon, <1>10, ControllerMoves DEF OpenCell, Sites
  <2>2. state' \in States
    BY Zenon, <1>10, StateMoves DEF OpenCell, TypeOK, Phases, Stages
  <2>3. results' \in [CellSet -> Rows]
    BY ZenonT(60), <1>10 DEF OpenCell, TypeOK, Rows
  <2> QED
    BY <1>10, <2>1, <2>2, <2>3 DEF OpenCell, TypeOK
<1>11. CASE PrepareAttempt
  <2>1. controller' \in Controllers
    BY Zenon, <1>11, PrepareEffect, ControllerMoves, PcNames DEF Sites
  <2>2. attempts' \in [CellSet -> Seq(Worker)]
    BY <1>11, PrepareEffect DEF Prolongs, Sessions, TypeOK
  <2> QED
    BY <1>11, <2>1, <2>2 DEF PrepareAttempt, TypeOK
<1>12. CASE PointAttempt
  BY Zenon, <1>12, PointEffect, ControllerMoves, PcNames
  DEF PointAttempt, AttemptBecomes, Replaces, Sessions, Sites, TypeOK
<1>13. CASE SpawnAttempt
  BY Zenon, <1>13, SpawnEffect, ControllerMoves, PcNames
  DEF SpawnAttempt, AttemptBecomes, Replaces, Sessions, Sites, TypeOK
<1>14. CASE PollAttempt
  BY Zenon, <1>14, ControllerMoves, PcNames
  DEF PollAttempt, Goto, Sites, TypeOK
<1>15. CASE ForwardToAttempt
  BY Zenon, <1>15, ForwardEffect, ControllerMoves, PcNames
  DEF ForwardToAttempt, AttemptBecomes, Replaces, Sessions, Sites, TypeOK
<1>16. CASE ReportAttempt
  <2>1. controller' \in Controllers
    BY Zenon, <1>16, ControllerMoves, PcNames DEF ReportAttempt, Goto, Sites
  <2>2. Attempt \in Worker
    BY <1>16, HereTypes DEF ReportAttempt, At, Site, Launching
  <2> QED
    BY <1>16, <2>1, <2>2, ReportedType DEF ReportAttempt, TypeOK
<1>17. CASE RecordAttempt
  BY Zenon, <1>17, RecordEffect, ControllerMoves
  DEF RecordAttempt, AttemptBecomes, Replaces, Sessions, TypeOK
<1>18. CASE ValidateAttempt
  <2>1. controller' \in Controllers
    BY ZenonT(60), <1>18, ValidateEffect, ControllerMoves, PcNames DEF Sites
  <2>2. attempts' \in [CellSet -> Seq(Worker)]
    BY <1>18, ValidateEffect DEF CheckedBecomes, Replaces, Sessions, TypeOK
  <2> QED
    BY <1>18, <2>1, <2>2 DEF ValidateAttempt, TypeOK
<1>19. CASE SealAttempt
  <2>1. controller' \in Controllers
    BY Zenon, <1>19, SealEffect, ControllerMoves, PcNames DEF Sites
  <2>2. attempts' \in [CellSet -> Seq(Worker)]
    BY <1>19, SealEffect DEF CheckedBecomes, Replaces, Sessions, TypeOK
  <2> QED
    BY <1>19, <2>1, <2>2 DEF SealAttempt, TypeOK
<1>20. CASE JudgeTraining
  <2>1. controller' \in Controllers
    BY Zenon, <1>20, ControllerMoves, PcNames DEF JudgeTraining, Goto, Sites
  <2>2. Attempt \in Worker
    BY <1>20, HereTypes DEF JudgeTraining, At, Site, Judging
  <2>3. [state EXCEPT !.phase = "stopped", !.update = Attempt.update] \in States
    BY Zenon, <2>2, StateMoves DEF TypeOK, Phases, Stages, Worker
  <2>4. state' \in States
    BY <1>20, <2>3, AcknowledgedType DEF JudgeTraining, TypeOK
  <2>5. results' \in [CellSet -> Rows]
    <3>1. Cell \in CellSet
      BY <1>20, HereTypes DEF JudgeTraining, At, Site
    <3>2. [results EXCEPT ![Cell].status = "evaluating"] \in [CellSet -> Rows]
      BY <3>1 DEF TypeOK, Rows
    <3> QED
      BY <1>20, <3>2 DEF JudgeTraining, TypeOK
  <2> QED
    BY <1>20, <2>1, <2>4, <2>5 DEF JudgeTraining, TypeOK
<1>21. CASE NextSeed
  <2>1. controller' \in Controllers
    BY Zenon, <1>21, ControllerMoves DEF NextSeed, Sites
  <2>2. results' \in [CellSet -> Rows]
    <3>1. Cell \in CellSet
      BY <1>21, HereTypes DEF NextSeed, At, Site
    <3>2. [results EXCEPT ![Cell].status = "completed"] \in [CellSet -> Rows]
      BY <3>1 DEF TypeOK, Rows
    <3> QED
      BY <1>21, <3>2 DEF NextSeed, TypeOK
  <2> QED
    BY <1>21, <2>1, <2>2 DEF NextSeed, TypeOK
<1>22. CASE OpenWindow
  <2>1. controller' \in Controllers
    BY Zenon, <1>22, OpenEffect, ControllerMoves, PcNames DEF Sites
  <2>2. windows' \in [CellSet -> [SeedSet -> Worker]]
    BY <1>22, OpenEffect DEF WindowBecomes, PlacesWindow, TypeOK
  <2>3. state' \in States
    BY Zenon, <1>22, StateMoves DEF OpenWindow, TypeOK, Phases, Stages
  <2> QED
    BY <1>22, <2>1, <2>2, <2>3 DEF OpenWindow, TypeOK
<1>23. CASE SpawnWindow
  BY Zenon, <1>23, SpawnWindowEffect, ControllerMoves, PcNames
  DEF SpawnWindow, WindowBecomes, PlacesWindow, Sites, TypeOK
<1>24. CASE WatchWindow
  BY Zenon, <1>24, ControllerMoves, PcNames
  DEF WatchWindow, Goto, Sites, TypeOK
<1>25. CASE ForwardToWindow
  BY Zenon, <1>25, TransmitEffect, ControllerMoves, PcNames
  DEF ForwardToWindow, WindowBecomes, PlacesWindow, Sites, TypeOK
<1>26. CASE ReportWindow
  <2>1. controller' \in Controllers
    BY Zenon, <1>26, ControllerMoves, PcNames DEF ReportWindow, Goto, Sites
  <2>2. Window \in Worker
    BY <1>26, HereTypes DEF ReportWindow, At, Site, Observing
  <2> QED
    BY <1>26, <2>1, <2>2, ReportedType DEF ReportWindow, TypeOK
<1>27. CASE RecordWindow
  BY Zenon, <1>27, ReceiveEffect, ControllerMoves, PcNames
  DEF RecordWindow, WindowBecomes, PlacesWindow, Sites, TypeOK
<1>28. CASE SealWindow
  BY Zenon, <1>28, SealWindowEffect, ControllerMoves, PcNames
  DEF SealWindow, WindowBecomes, PlacesWindow, Sites, TypeOK
<1>29. CASE FinishSeed
  <2>1. results' \in [CellSet -> Rows]
    BY Zenon, <1>29 DEF FinishSeed, TypeOK, Rows
  <2> QED
    BY Zenon, <1>29, <2>1, ControllerMoves DEF FinishSeed, TypeOK
<1>30. CASE ControllerFails
  BY Zenon, <1>30, ControllerMoves, StateMoves
  DEF ControllerFails, Phases, Stages, TypeOK
<1>31. CASE ControllerKilled
  BY Zenon, <1>31, ControllerMoves
  DEF ControllerKilled, TypeOK
<1>32. CASE FrontendKilled
  BY <1>32
  DEF FrontendKilled, Idle, TypeOK
<1>33. CASE LearnerStep \/ LearnerKilled
  BY <1>33, LearnerEffect DEF LearnerStep, LearnerKilled, LearnerLives, Replaces,
    Sessions, TypeOK
<1>34. CASE EvaluatorStep \/ EvaluatorKilled
  BY <1>34, EvaluatorEffect DEF EvaluatorStep, EvaluatorKilled, EvaluatorLives,
    PlacesWindow, TypeOK
<1>35. CASE UNCHANGED vars
  BY <1>35 DEF vars, TypeOK
<1> QED
  BY <1>1, <1>2, <1>3, <1>4, <1>5, <1>6, <1>7, <1>8, <1>9, <1>10, <1>11, <1>12, <1>13,
    <1>14, <1>15, <1>16, <1>17, <1>18, <1>19, <1>20, <1>21, <1>22, <1>23, <1>24, <1>25,
    <1>26, <1>27, <1>28, <1>29, <1>30, <1>31, <1>32, <1>33, <1>34, <1>35
  DEF Next, FrontendStep, ControllerStep

------------------------------------------------------------------------------
(* The controller stays situated *)

(* No directory ever loses an attempt.                                      *)
Grown == \A c \in CellSet : Len(attempts[c]) <= Len(attempts'[c])

LEMMA SessionsGrow ==
  ASSUME Base, WorkersAreSane, [Next]_vars
  PROVE  Grown
<1>1. \A c \in CellSet : Len(attempts[c]) \in Nat
  BY SessionType DEF Base, TypeOK, Sessions
<1>2. CASE attempts' = attempts
  BY <1>1, <1>2 DEF Grown
<1>3. CASE PrepareAttempt
  BY <1>1, <1>3, PrepareEffect DEF Prolongs, Grown
<1>4. ASSUME NEW c, NEW i, NEW w, Replaces(attempts, attempts', c, i, w)
      PROVE  Grown
  BY <1>1, <1>4 DEF Replaces, Grown
<1>5. CASE PointAttempt \/ SpawnAttempt \/ ForwardToAttempt \/ RecordAttempt
  BY <1>2, <1>4, <1>5, PointEffect, SpawnEffect, ForwardEffect, RecordEffect DEF
    AttemptBecomes
<1>6. CASE ValidateAttempt \/ SealAttempt
  BY <1>2, <1>4, <1>6, ValidateEffect, SealEffect DEF CheckedBecomes
<1>7. CASE LearnerStep \/ LearnerKilled
  BY <1>4, <1>7, LearnerEffect DEF LearnerLives
<1> QED
  BY Zenon, <1>2, <1>3, <1>5, <1>6, <1>7
  DEF vars, Next, FrontendStep, ControllerStep, StartSpawn, StartRegister, StartWrite,
      CommandCheck, CommandWrite, BoundaryRead, BoundaryDecide, WaitForResources,
        SelectCell,
      OpenCell, PollAttempt, ReportAttempt, JudgeTraining, NextSeed, OpenWindow,
        SpawnWindow,
      WatchWindow, ForwardToWindow, ReportWindow, RecordWindow, SealWindow, FinishSeed,
      ControllerFails, EvaluatorStep, ControllerKilled, FrontendKilled, EvaluatorKilled

LEMMA Gone == Exits => ~controller'.alive
  BY DEF Exits, Nobody

(* The controller goes on at a site, with the given indices.                *)
Arrives(site, cell, seed, index) ==
  /\ controller'.alive /\ controller'.gen = controller.gen
  /\ Site' = site
  /\ controller'.cell = cell /\ controller'.seed = seed /\ controller'.index = index

LEMMA Arrivals ==
  ASSUME TypeOK, controller.alive, NEW pc \in Sites
  PROVE  LET cell == controller.cell
             seed == controller.seed
             index == controller.index
         IN /\ controller' = [controller EXCEPT !.pc = pc] => Arrives(pc, cell, seed, index)
            /\ Goto(pc) => Arrives(pc, cell, seed, index)
            /\ BoundaryThen(pc) => Arrives(pc, cell, seed, index)
            /\ ReadRequest(pc) => Arrives(pc, cell, seed, index)
            /\ controller' = [controller EXCEPT !.pc = "validate", !.index = 1]
                 => Arrives("validate", cell, seed, 1)
            /\ controller' = [controller EXCEPT !.pc = "validate", !.index = @ + 1]
                 => Arrives("validate", cell, seed, index + 1)
            /\ controller' = [controller EXCEPT !.index = @ + 1] => Arrives(Site, cell,
                 seed, index + 1)
            /\ controller' = [controller EXCEPT !.pc = "seeds", !.seed = 1]
                 => Arrives("seeds", cell, 1, index)
            /\ controller' = [controller EXCEPT !.pc = "seeds", !.seed = @ + 1]
                 => Arrives("seeds", cell, seed + 1, index)
            /\ controller' = [controller EXCEPT !.seed = @ + 1] => Arrives(Site, cell,
                 seed + 1, index)
            /\ controller' = [controller EXCEPT !.pc = "select", !.cell = @ + 1]
                 => Arrives("select", cell + 1, seed, index)
            /\ \A n \in Nat :
                 controller' = [controller EXCEPT !.cell = n, !.pc = "boundary", !.then =
                   "open"]
                   => Arrives("open", n, seed, index)
<1>1. controller \in Controllers
  BY DEF TypeOK
<1>2. pc \notin {"boundary", "decide"}
  BY DEF Sites
<1> QED
  BY ZenonT(60), <1>1, <1>2 DEF Controllers, Arrives, Site, Goto, BoundaryThen, ReadRequest

LEMMA CellsThere ==
  ASSUME TypeOK, TypeOK', Grown
  PROVE  /\ \A c \in CellSet : attempts[c] # <<>> => attempts'[c] # <<>>
         /\ \A c \in CellSet : Len(attempts[c]) \in Nat /\ Len(attempts'[c]) \in Nat
<1>1. attempts \in Sessions /\ attempts' \in Sessions
  BY DEF TypeOK, Sessions
<1> QED
  BY <1>1, SessionType DEF Grown

LEMMA PhaseNeedsAttempt ==
  ASSUME Base, NEW c \in CellSet, SessionPhase(c) \in {"completed", "stopped"}
  PROVE  attempts[c] # <<>> /\ LastPointed(c, CurrentAttempt(c))
<1>1. CurrentAttempt(c) # 0
  BY DEF SessionPhase
<1>2. LastPointed(c, CurrentAttempt(c))
  BY <1>1, StartType
<1> QED
  BY <1>2, SessionType DEF LastPointed, Base, TypeOK, Sessions

LEMMA SituatedStep ==
  ASSUME Base, WorkersAreSane, TypeOK', [Next]_vars
  PROVE  Situated'
<1> USE DEF Base
<1> DEFINE cell == controller.cell
           seed == controller.seed
           index == controller.index
<1>g. Grown
  BY SessionsGrow
<1>t. /\ \A c \in CellSet : attempts[c] # <<>> => attempts'[c] # <<>>
      /\ \A c \in CellSet : Len(attempts[c]) \in Nat /\ Len(attempts'[c]) \in Nat
      /\ \A c \in CellSet : Len(attempts[c]) <= Len(attempts'[c])
      /\ cell \in Nat /\ seed \in Nat /\ index \in Nat
  BY <1>g, CellsThere DEF Grown, TypeOK, Controllers
<1>h. /\ controller.alive /\ Site \notin {"resources", "select", "fail"} => Cell \in CellSet
      /\ Site \in Sites => Site \notin {"boundary", "decide", "none"}
  BY HereTypes DEF Sites
<1>m. ASSUME controller.alive, NEW site \in Sites, Arrives(site, cell, seed, index),
             site \notin {"resources", "select", "fail"}
                => Site \notin {"resources", "select", "fail"},
             site \in (Launching \ {"launch"}) \cup Judging =>
                attempts'[Cell] # <<>>,
             site \in Judging => index # 0,
             site = "verify" => index <= Len(attempts[Cell]),
             site \in Observing \cup {"seeds"} => Site \in Observing \cup {"seeds"},
             site \in Observing => seed <= Len(Seeds)
      PROVE  Situated'
  <2>1. /\ controller'.alive /\ Site' = site /\ controller'.cell = cell
        /\ controller'.seed = seed /\ controller'.index = index /\ Cell' = Cell
    BY <1>m DEF Arrives, Cell
  <2>2. Site \notin {"resources", "select", "fail"} =>
          Cell \in CellSet /\ cell \in 1..Len(Cells)
    BY <1>h, <1>m DEF Situated
  <2>3. /\ site \notin {"resources", "select", "fail"} => cell \in 1..Len(Cells)
        /\ cell # 0
    BY <1>m, <2>2 DEF Situated
  <2>4. site = "verify" => index <= Len(attempts'[Cell])
    BY <1>m, <1>t, <2>2
  <2>5. site \in Observing \cup {"seeds"} => seed # 0
    BY <1>m DEF Situated
  <2> QED
    BY <1>m, <2>1, <2>3, <2>4, <2>5 DEF Situated
<1>1. CASE PointAttempt
  <2>1. /\ controller.alive /\ Site = "point"
        /\ Arrives("spawn", cell, seed, index)
    BY Zenon, <1>1, PointEffect, Arrivals DEF Sites
  <2> QED
    BY <1>m, <1>t, <1>h, <2>1 DEF Situated, Sites, Launching, Judging, Observing
<1>2. CASE SpawnAttempt
  <2>1. /\ controller.alive /\ Site = "spawn"
        /\ Arrives("poll", cell, seed, index)
    BY Zenon, <1>2, SpawnEffect, Arrivals DEF Sites
  <2> QED
    BY <1>m, <1>t, <1>h, <2>1 DEF Situated, Sites, Launching, Judging, Observing
<1>3. CASE PollAttempt
  <2>1. /\ controller.alive /\ Site = "poll"
        /\ Arrives("forward", cell, seed, index) \/ Arrives("record", cell, seed, index)
    BY Zenon, <1>3, Arrivals DEF PollAttempt, At, Site, Sites
  <2> QED
    BY <1>m, <1>t, <1>h, <2>1 DEF Situated, Sites, Launching, Judging, Observing
<1>4. CASE ForwardToAttempt
  <2>1. /\ controller.alive /\ Site = "forward"
        /\ Arrives("report", cell, seed, index) \/ Arrives("fail", cell, seed, index)
    BY Zenon, <1>4, ForwardEffect, Arrivals DEF Sites
  <2> QED
    BY <1>m, <1>t, <1>h, <2>1 DEF Situated, Sites, Launching, Judging, Observing
<1>5. CASE ReportAttempt
  <2>1. /\ controller.alive /\ Site = "report"
        /\ Arrives("poll", cell, seed, index)
    BY Zenon, <1>5, Arrivals DEF ReportAttempt, At, Site, Sites
  <2> QED
    BY <1>m, <1>t, <1>h, <2>1 DEF Situated, Sites, Launching, Judging, Observing
<1>6. CASE OpenWindow
  <2>1. /\ controller.alive /\ Site = "evaluate"
        /\ Arrives("develop", cell, seed, index) \/ Arrives("window", cell, seed, index)
             \/ Arrives("fail", cell, seed, index)
    BY Zenon, <1>6, OpenEffect, Arrivals DEF Sites
  <2> QED
    BY <1>m, <1>t, <1>h, <2>1 DEF Situated, Sites, Launching, Judging, Observing
<1>7. CASE SpawnWindow
  <2>1. /\ controller.alive /\ Site = "window"
        /\ Arrives("watch", cell, seed, index)
    BY Zenon, <1>7, SpawnWindowEffect, Arrivals DEF Sites
  <2> QED
    BY <1>m, <1>t, <1>h, <2>1 DEF Situated, Sites, Launching, Judging, Observing
<1>8. CASE WatchWindow
  <2>1. /\ controller.alive /\ Site = "watch"
        /\ Arrives("transmit", cell, seed, index) \/ Arrives("receive", cell, seed, index)
    BY Zenon, <1>8, Arrivals DEF WatchWindow, At, Site, Sites
  <2> QED
    BY <1>m, <1>t, <1>h, <2>1 DEF Situated, Sites, Launching, Judging, Observing
<1>9. CASE ForwardToWindow
  <2>1. /\ controller.alive /\ Site = "transmit"
        /\ Arrives("relay", cell, seed, index)
    BY Zenon, <1>9, TransmitEffect, Arrivals DEF Sites
  <2> QED
    BY <1>m, <1>t, <1>h, <2>1 DEF Situated, Sites, Launching, Judging, Observing
<1>10. CASE ReportWindow
  <2>1. /\ controller.alive /\ Site = "relay"
        /\ Arrives("watch", cell, seed, index)
    BY Zenon, <1>10, Arrivals DEF ReportWindow, At, Site, Sites
  <2> QED
    BY <1>m, <1>t, <1>h, <2>1 DEF Situated, Sites, Launching, Judging, Observing
<1>11. CASE RecordWindow
  <2>1. /\ controller.alive /\ Site = "receive"
        /\ Arrives("seal", cell, seed, index) \/ Arrives("fail", cell, seed, index)
    BY Zenon, <1>11, ReceiveEffect, Arrivals DEF Sites
  <2> QED
    BY <1>m, <1>t, <1>h, <2>1 DEF Situated, Sites, Launching, Judging, Observing
<1>12. CASE SealWindow
  <2>1. /\ controller.alive /\ Site = "seal"
        /\ Arrives("develop", cell, seed, index)
    BY Zenon, <1>12, SealWindowEffect, Arrivals DEF Sites
  <2> QED
    BY <1>m, <1>t, <1>h, <2>1 DEF Situated, Sites, Launching, Judging, Observing
<1>13. CASE WaitForResources
  <2>1. /\ controller.alive /\ Site = "resources"
        /\ Arrives("select", cell, seed, index) \/ Arrives("resources", cell, seed, index)
    BY Zenon, <1>13, Arrivals DEF WaitForResources, At, Site, Sites
  <2> QED
    BY <1>m, <1>t, <1>h, <2>1 DEF Situated, Sites, Launching, Judging, Observing
<1>14. CASE StartSpawn
  <2>1. controller'.alive /\ Site' = "resources" /\ controller'.cell = 1
    BY <1>14 DEF StartSpawn, Nobody, Site
  <2> QED
    BY <2>1 DEF Situated, Sites, Launching, Judging, Observing
<1>15. CASE BoundaryRead
  <2>1. controller.alive /\ Arrives(Site, cell, seed, index)
    BY <1>15 DEF BoundaryRead, At, ReadRequest, Arrives, Site, TypeOK, Controllers
  <2> QED
    BY <1>m, <1>t, <1>h, <2>1 DEF Situated, Sites, Launching, Judging, Observing
<1>16. CASE BoundaryDecide
  <2>1. /\ controller.alive /\ controller.pc = "decide" /\ Site = controller.then
        /\ Site \in Sites
    BY <1>16 DEF BoundaryDecide, At, Site, Situated
  <2>2. \/ ~controller'.alive
        \/ controller' = [controller EXCEPT !.pc = "boundary"]
        \/ controller' = [controller EXCEPT !.pc = Site]
    BY <1>16, <2>1, Gone DEF BoundaryDecide, Goto
  <2>3. controller' = [controller EXCEPT !.pc = "boundary"] => Arrives(Site, cell, seed,
          index)
    BY <2>1 DEF Arrives, Site, TypeOK, Controllers
  <2>4. ~controller'.alive \/ Arrives(Site, cell, seed, index)
    BY Zenon, <2>1, <2>2, <2>3, Arrivals
  <2> QED
    BY <1>m, <1>t, <1>h, <2>1, <2>4 DEF Situated, Sites, Launching, Judging, Observing
<1>17. CASE SelectCell
  <2>1. controller.alive /\ Site = "select"
    BY Zenon, <1>17 DEF SelectCell, At, Site
  <2>2. ~controller'.alive \/ \E i \in cell..Len(Cells) : Arrives("open", i, seed, index)
    <3>1. \A i \in cell..Len(Cells) :
            controller' = [controller EXCEPT !.cell = i, !.pc = "boundary", !.then = "open"]
              => Arrives("open", i, seed, index)
      <4>1. cell..Len(Cells) \subseteq Nat /\ "open" \in Sites
        BY <1>t, PlanType DEF Sites
      <4> QED
        BY Zenon, <2>1, <4>1, Arrivals
    <3>2. \/ ~controller'.alive
          \/ \E i \in cell..Len(Cells) :
               controller' = [controller EXCEPT !.cell = i, !.pc = "boundary", !.then = "open"]
      BY Zenon, <1>17, Gone DEF SelectCell
    <3> QED
      BY Zenon, <3>1, <3>2
  <2> QED
    BY <1>t, <2>1, <2>2, PlanType DEF Situated, Arrives, Sites, Launching, Judging,
      Observing
<1>18. CASE OpenCell
  <2>1. controller.alive /\ Site = "open" /\ Cell \in CellSet
    BY <1>18, <1>h DEF OpenCell, At, Site
  <2>2. \/ Arrives("launch", cell, seed, index)
        \/ Arrives("validate", cell, seed, 1) /\ SessionPhase(Cell) = "completed"
    BY Zenon, <1>18, <2>1, Arrivals DEF OpenCell, Sites
  <2>3. SessionPhase(Cell) = "completed" => attempts'[Cell] # <<>>
    BY <1>t, <2>1, PhaseNeedsAttempt
  <2>4. CASE Arrives("launch", cell, seed, index)
    BY <1>m, <1>t, <2>1, <2>4 DEF Sites, Launching, Judging, Observing
  <2>5. CASE Arrives("validate", cell, seed, 1) /\ SessionPhase(Cell) = "completed"
    BY <1>t, <2>1, <2>3, <2>5 DEF Situated, Arrives, Cell, Sites, Launching, Judging,
      Observing
  <2> QED
    BY <2>2, <2>4, <2>5
<1>19. CASE PrepareAttempt
  <2>1. controller.alive /\ Site = "launch" /\ Cell \in CellSet
    BY <1>19, <1>h DEF PrepareAttempt, At, Site
  <2>2. \/ /\ Arrives("point", cell, seed, index)
           /\ Prolongs(attempts, attempts', Cell, Unborn(StartUpdate(Cell)))
        \/ Arrives("fail", cell, seed, index)
    BY Zenon, <1>19, <2>1, PrepareEffect, Arrivals DEF Sites
  <2>3. Prolongs(attempts, attempts', Cell, Unborn(StartUpdate(Cell))) => attempts'[Cell]
          # <<>>
    BY <1>t, <2>1, SessionType DEF Prolongs
  <2> QED
    BY <1>m, <1>t, <1>h, <2>1, <2>2, <2>3 DEF Situated, Sites, Launching, Judging, Observing
<1>20. CASE RecordAttempt
  <2>1. controller.alive /\ Site = "record" /\ Arrives("validate", cell, seed, 1)
    BY Zenon, <1>20, RecordEffect, Arrivals DEF Sites
  <2> QED
    BY <1>t, <1>h, <2>1 DEF Situated, Arrives, Cell, Sites, Launching, Judging, Observing
<1>21. CASE ValidateAttempt
  <2>1. /\ controller.alive /\ Site = "validate" /\ Cell \in CellSet
        /\ cell \in 1..Len(Cells) /\ cell # 0 /\ index # 0 /\ attempts'[Cell] # <<>>
    BY <1>21, <1>t, <1>h, ValidateEffect DEF Situated, Sites, Launching, Judging, Observing
  <2>2. \/ Arrives("judge", cell, seed, index)
        \/ Arrives("validate", cell, seed, index + 1)
        \/ Arrives("verify", cell, seed, index) /\ index <= Len(attempts[Cell])
        \/ Arrives("fail", cell, seed, index)
    <3>1. {"judge", "verify", "fail"} \subseteq Sites
      BY DEF Sites
    <3>2. controller' = [controller EXCEPT !.index = @ + 1] =>
            Arrives("validate", cell, seed, index + 1)
      BY Zenon, <2>1, <3>1, Arrivals
    <3>3. CASE controller' = [controller EXCEPT !.index = @ + 1]
      BY <3>2, <3>3
    <3>4. CASE controller' # [controller EXCEPT !.index = @ + 1]
      <4>1. \/ controller' = [controller EXCEPT !.pc = "judge"]
            \/ controller' = [controller EXCEPT !.pc = "verify"] /\ index <= Len(attempts[Cell])
            \/ controller' = [controller EXCEPT !.pc = "fail"]
        BY <1>21, <1>t, <2>1, <3>4, ValidateEffect
      <4> QED
        BY Zenon, <2>1, <3>1, <4>1, Arrivals
    <3> QED
      BY <3>3, <3>4
  <2>3. CASE Arrives("validate", cell, seed, index + 1)
    BY <1>t, <2>1, <2>3 DEF Situated, Arrives, Cell, Sites, Launching, Judging, Observing
  <2>4. CASE ~Arrives("validate", cell, seed, index + 1)
    BY <1>m, <1>t, <2>1, <2>2, <2>4 DEF Sites, Launching, Judging, Observing
  <2> QED
    BY <2>3, <2>4
<1>22. CASE SealAttempt
  <2>1. /\ controller.alive /\ Site = "verify" /\ Cell \in CellSet
        /\ cell \in 1..Len(Cells) /\ cell # 0 /\ index # 0 /\ attempts'[Cell] # <<>>
    BY <1>22, <1>t, <1>h, SealEffect DEF Situated, Sites, Launching, Judging, Observing
  <2>2. Arrives("validate", cell, seed, index + 1) \/ Arrives("fail", cell, seed, index)
    BY Zenon, <1>22, <2>1, SealEffect, Arrivals DEF Sites
  <2> QED
    BY <1>t, <2>1, <2>2 DEF Situated, Arrives, Cell, Sites, Launching, Judging, Observing
<1>23. CASE JudgeTraining
  <2>1. controller.alive /\ Site = "judge" /\ cell \in 1..Len(Cells) /\ cell # 0
    BY <1>23 DEF JudgeTraining, At, Site, Situated
  <2>2. \/ ~controller'.alive
        \/ Arrives("seeds", cell, 1, index) \/ Arrives("fail", cell, seed, index)
    BY Zenon, <1>23, <2>1, Arrivals, Gone DEF JudgeTraining, Sites
  <2> QED
    BY <2>1, <2>2 DEF Situated, Arrives, Sites, Launching, Judging, Observing
<1>24. CASE NextSeed
  <2>1. /\ controller.alive /\ Site = "seeds" /\ cell \in 1..Len(Cells) /\ cell # 0
        /\ seed # 0
    BY <1>24 DEF NextSeed, At, Site, Situated
  <2>2. \/ Arrives("select", cell + 1, seed, index) \/ Arrives("seeds", cell, seed + 1,
             index)
        \/ Arrives("evaluate", cell, seed, index) /\ ~(seed > Len(Seeds))
    BY Zenon, <1>24, <2>1, Arrivals DEF NextSeed, Sites
  <2> QED
    BY <1>t, <2>1, <2>2, PlanType DEF Situated, Arrives, Sites, Launching, Judging,
      Observing
<1>25. CASE FinishSeed
  <2>1. controller.alive /\ Site = "develop" /\ cell \in 1..Len(Cells) /\ cell # 0
    BY <1>25 DEF FinishSeed, At, Site, Situated
  <2>2. Arrives("seeds", cell, seed + 1, index)
    BY Zenon, <1>25, <2>1, Arrivals DEF FinishSeed, Sites
  <2> QED
    BY <1>t, <2>1, <2>2 DEF Situated, Arrives, Sites, Launching, Judging, Observing
<1>26. CASE ControllerFails \/ ControllerKilled
  BY <1>26, Gone DEF ControllerFails, ControllerKilled, Situated
<1>27. CASE controller' = controller
  <2>1. CASE ~controller.alive
    BY <1>27, <2>1 DEF Situated
  <2>2. CASE controller.alive
    <3>1. Arrives(Site, cell, seed, index)
      BY <1>27, <2>2 DEF Arrives, Site
    <3>2. Site \in Sites
      BY <2>2 DEF Situated
    <3> QED
      BY <1>m, <1>t, <1>h, <2>2, <3>1, <3>2 DEF Situated, Sites, Launching, Judging,
        Observing
  <2> QED
    BY <2>1, <2>2
<1> QED
  BY Zenon, <1>1, <1>2, <1>3, <1>4, <1>5, <1>6, <1>7, <1>8, <1>9, <1>10, <1>11, <1>12, <1>13,
    <1>14, <1>15, <1>16, <1>17, <1>18, <1>19, <1>20, <1>21, <1>22, <1>23, <1>24, <1>25,
    <1>26, <1>27
  DEF vars, Next, FrontendStep, ControllerStep, StartRegister, StartWrite, CommandCheck,
      CommandWrite, LearnerStep, EvaluatorStep, FrontendKilled, LearnerKilled,
        EvaluatorKilled

(* current.json moves forward only.                                         *)
LEMMA PointersStep ==
  ASSUME Base, WorkersAreSane, TypeOK', [Next]_vars
  PROVE  Pointers'
<1> USE DEF Base
<1>t. \A c \in CellSet : Len(attempts[c]) \in Nat
  BY SessionType DEF TypeOK, Sessions
<1>1. CASE attempts' = attempts
  BY <1>1 DEF Pointers, Unpointed, LastPointed
<1>2. ASSUME NEW c \in CellSet, NEW i \in 1..Len(attempts[c]), NEW w \in Worker,
             Replaces(attempts, attempts', c, i, w), w.current = attempts[c][i].current
      PROVE  Pointers'
  <2>1. \A d \in CellSet : Len(attempts'[d]) = Len(attempts[d])
    BY <1>2 DEF Replaces
  <2>2. \A d \in CellSet : \A j \in 1..Len(attempts[d]) :
          attempts'[d][j].current = attempts[d][j].current
    BY <1>2 DEF Replaces
  <2>3. ASSUME NEW d \in CellSet
        PROVE  /\ Unpointed(d) => Unpointed(d)'
               /\ \A j \in 1..Len(attempts[d]) : LastPointed(d, j) => LastPointed(d, j)'
    BY <2>1, <2>2 DEF Unpointed, LastPointed
  <2> QED
    BY <2>1, <2>3 DEF Pointers
<1>3. CASE PrepareAttempt /\ attempts' # attempts
  <2>1. Prolongs(attempts, attempts', Cell, Unborn(StartUpdate(Cell))) /\ Cell \in CellSet
    BY <1>3, PrepareEffect, HereTypes DEF Site
  <2>2. ~Unborn(StartUpdate(Cell)).current
    BY DEF Unborn
  <2>3. ASSUME NEW c \in CellSet
        PROVE  (Unpointed(c) \/ \E i \in 1..Len(attempts[c]) : LastPointed(c, i))'
    <3>1. \A j \in 1..Len(attempts'[c]) :
            attempts'[c][j].current => j \in 1..Len(attempts[c]) /\ attempts[c][j].current
      BY <1>t, <2>1, <2>2 DEF Prolongs
    <3>2. \A j \in 1..Len(attempts[c]) :
            j \in 1..Len(attempts'[c]) /\ attempts'[c][j].current = attempts[c][j].current
      BY <1>t, <2>1 DEF Prolongs
    <3>3. CASE Unpointed(c)
      BY <3>1, <3>3 DEF Unpointed
    <3>4. ASSUME NEW i \in 1..Len(attempts[c]), LastPointed(c, i)
          PROVE  LastPointed(c, i)' /\ i \in 1..Len(attempts'[c])
      BY <3>1, <3>2, <3>4 DEF LastPointed
    <3> QED
      BY <3>3, <3>4 DEF Pointers
  <2> QED
    BY <2>3 DEF Pointers
<1>4. CASE PointAttempt
  <2>1. PICK c \in CellSet, n \in Nat :
          /\ n = Len(attempts[c]) /\ n \in 1..n /\ Attempt \in Worker
          /\ Replaces(attempts, attempts', c, n, [Attempt EXCEPT !.current = TRUE])
    BY <1>4, PointEffect, HereTypes DEF AttemptBecomes, Launching
  <2>2. [Attempt EXCEPT !.current = TRUE].current
    BY <2>1 DEF Worker
  <2>3. LastPointed(c, n)' /\ n \in 1..Len(attempts'[c])
    <3>1. Len(attempts'[c]) = n /\ attempts'[c][n] = [Attempt EXCEPT !.current = TRUE]
      BY <2>1 DEF Replaces
    <3>2. /\ n \in 1..Len(attempts'[c]) /\ attempts'[c][n].current
          /\ \A j \in 1..Len(attempts'[c]) : j <= n
      BY <2>1, <2>2, <3>1
    <3> QED
      BY <3>2 DEF LastPointed
  <2>4. ASSUME NEW d \in CellSet, d # c
        PROVE  (Unpointed(d) \/ \E i \in 1..Len(attempts[d]) : LastPointed(d, i))'
    <3>1. /\ Len(attempts'[d]) = Len(attempts[d])
          /\ \A j \in 1..Len(attempts[d]) : attempts'[d][j] = attempts[d][j]
      BY <2>1, <2>4 DEF Replaces
    <3> QED
      BY <3>1 DEF Pointers, Unpointed, LastPointed
  <2> QED
    BY <2>3, <2>4 DEF Pointers
<1>5. CASE SpawnAttempt
  <2>1. Cell \in CellSet /\ Len(attempts[Cell]) \in 1..Len(attempts[Cell]) /\ Attempt \in Worker
    BY <1>5, SpawnEffect, HereTypes DEF Launching
  <2>2. Born(Attempt, controller.gen).current = Attempt.current
    BY <2>1 DEF Born, Worker
  <2> QED
    BY <1>2, <1>5, <2>1, <2>2, SpawnEffect DEF AttemptBecomes, Attempt
<1>6. CASE ForwardToAttempt \/ RecordAttempt
  <2>1. Cell \in CellSet /\ Len(attempts[Cell]) \in 1..Len(attempts[Cell]) /\ Attempt \in Worker
    BY <1>6, ForwardEffect, RecordEffect, HereTypes DEF Launching
  <2>2. /\ [Attempt EXCEPT !.receipt = TRUE].current = Attempt.current
        /\ Ordered(Attempt, controller.operation).current = Attempt.current
    BY <2>1 DEF Ordered, Worker
  <2> QED
    BY <1>1, <1>2, <1>6, <2>1, <2>2, ForwardEffect, RecordEffect DEF AttemptBecomes, Attempt
<1>7. CASE ValidateAttempt \/ SealAttempt
  <2>1. Cell \in CellSet
    BY <1>7, ValidateEffect, SealEffect, HereTypes
  <2>2. Checked \in Worker => /\ [Checked EXCEPT !.process = TRUE].current = Checked.current
                              /\ [Checked EXCEPT !.sealed = TRUE].current = Checked.current
    BY DEF Worker
  <2> QED
    BY <1>1, <1>2, <1>7, <2>1, <2>2, ValidateEffect, SealEffect DEF CheckedBecomes, Checked
<1>8. CASE LearnerStep \/ LearnerKilled
  BY <1>2, <1>8, LearnerEffect DEF LearnerLives, Lived, Kept
<1> QED
  BY Zenon, <1>1, <1>3, <1>4, <1>5, <1>6, <1>7, <1>8
  DEF vars, Next, FrontendStep, ControllerStep, StartSpawn, StartRegister, StartWrite,
      CommandCheck, CommandWrite, BoundaryRead, BoundaryDecide, WaitForResources, SelectCell,
      OpenCell, PollAttempt, ReportAttempt, JudgeTraining, NextSeed, OpenWindow, SpawnWindow,
      WatchWindow, ForwardToWindow, ReportWindow, RecordWindow, SealWindow, FinishSeed,
      ControllerFails, EvaluatorStep, ControllerKilled, FrontendKilled, EvaluatorKilled

------------------------------------------------------------------------------
(* The workers stay sane *)

LEMMA OneCaseOfAttempts ==
  ASSUME Base, WorkersAreSane,
         NEW c \in CellSet, NEW i \in 1..Len(attempts[c]), NEW w,
         Replaces(attempts, attempts', c, i, w), SaneAttempt(w)
  PROVE  \A d \in CellSet : \A j \in 1..Len(attempts'[d]) : SaneAttempt(attempts'[d][j])
  BY DEF Replaces, WorkersAreSane

LEMMA OneCaseOfWindows ==
  ASSUME Base, WorkersAreSane, NEW c \in CellSet, NEW s \in SeedSet, NEW w,
         PlacesWindow(windows, windows', c, s, w), SaneWindow(w)
  PROVE  \A d \in CellSet, t \in SeedSet : SaneWindow(windows'[d][t])
  BY DEF PlacesWindow, WorkersAreSane

LEMMA SaneFlags ==
  ASSUME NEW w \in Worker, NEW operation \in Operations, NEW g \in Nat
  PROVE  /\ SaneAttempt(w) => SaneAttempt([w EXCEPT !.current = TRUE])
         /\ SaneAttempt(w) /\ w.at = "unborn" /\ w.current => SaneAttempt(Born(w, g))
         /\ SaneAttempt(w) => SaneAttempt(Ordered(w, operation))
         /\ SaneAttempt(w) /\ w.at = "ended" => SaneAttempt([w EXCEPT !.receipt = TRUE])
         /\ SaneAttempt(w) /\ Acceptable(w) => SaneAttempt([w EXCEPT !.process = TRUE])
         /\ SaneAttempt(w) /\ w.process /\ w.update > w.from
              => SaneAttempt([w EXCEPT !.sealed = TRUE])
<1>1. SaneAttempt(w) => SaneAttempt([w EXCEPT !.current = TRUE])
  BY DEF SaneAttempt, Sane, Worker
<1>2. SaneAttempt(w) /\ w.at = "unborn" /\ w.current => SaneAttempt(Born(w, g))
  BY DEF SaneAttempt, Sane, Worker, Born
<1>3. SaneAttempt(w) => SaneAttempt(Ordered(w, operation))
  BY DEF SaneAttempt, Sane, Worker, Ordered
<1>4. SaneAttempt(w) /\ w.at = "ended" => SaneAttempt([w EXCEPT !.receipt = TRUE])
  BY DEF SaneAttempt, Sane, Worker
<1>5. SaneAttempt(w) /\ Acceptable(w) => SaneAttempt([w EXCEPT !.process = TRUE])
  BY DEF SaneAttempt, Sane, Worker, Acceptable
<1>6. SaneAttempt(w) /\ w.process /\ w.update > w.from
        => SaneAttempt([w EXCEPT !.sealed = TRUE])
  BY DEF SaneAttempt, Sane, Worker
<1> QED
  BY <1>1, <1>2, <1>3, <1>4, <1>5, <1>6

LEMMA SaneWindowFlags ==
  ASSUME NEW w \in Worker, NEW operation \in Operations, NEW g \in Nat, SaneWindow(w)
  PROVE  /\ w.at = "unborn" => SaneWindow(Born(w, g))
         /\ SaneWindow(Ordered(w, operation))
         /\ w.at = "ended" => SaneWindow([w EXCEPT !.receipt = TRUE])
         /\ w.receipt /\ w.code = "0" => SaneWindow([w EXCEPT !.sealed = TRUE])
<1>1. w.at = "unborn" => SaneWindow(Born(w, g))
  BY DEF SaneWindow, Sane, Worker, Born
<1>2. SaneWindow(Ordered(w, operation))
  BY DEF SaneWindow, Sane, Worker, Ordered
<1>3. w.at = "ended" => SaneWindow([w EXCEPT !.receipt = TRUE])
  BY DEF SaneWindow, Sane, Worker
<1>4. w.receipt /\ w.code = "0" => SaneWindow([w EXCEPT !.sealed = TRUE])
  BY DEF SaneWindow, Sane, Worker
<1> QED
  BY <1>1, <1>2, <1>3, <1>4

LEMMA SaneLives ==
  ASSUME NEW w \in Worker, NEW v \in Worker, w.alive
  PROVE  /\ Lived(w, v, Updates) /\ SaneAttempt(w) => SaneAttempt(v)
         /\ Lived(w, v, Steps) /\ SaneWindow(w) => SaneWindow(v)
  BY PlanType DEF Lived, Kept, SaneAttempt, SaneWindow, Sane, Worker

LEMMA SaneUnborn ==
  /\ \A n \in 0..Updates : SaneAttempt(Unborn(n))
  /\ SaneWindow(Unborn(0))
  /\ SaneWindow(Absent)
<1>1. Sane(Absent, Steps) /\ ~Absent.sealed
  BY PlanType DEF Absent, Unborn, Sane
<1> QED
  BY <1>1, PlanType, UnbornIsSane DEF SaneAttempt, SaneWindow, Unborn

LEMMA SaneStart ==
  ASSUME Base, WorkersAreSane, NEW c \in CellSet
  PROVE  StartUpdate(c) \in 0..Updates
<1>1. CASE CurrentAttempt(c) = 0
  BY <1>1, PlanType DEF StartUpdate
<1>2. CASE CurrentAttempt(c) # 0
  <2>1. CurrentAttempt(c) \in 1..Len(attempts[c])
    BY <1>2, StartType DEF LastPointed
  <2>2. attempts[c][CurrentAttempt(c)] \in Worker
    BY <2>1, SessionType DEF Base, TypeOK, Sessions
  <2> QED
    BY <1>2, <2>1, <2>2, PlanType DEF StartUpdate, WorkersAreSane, SaneAttempt, Sane, Worker
<1> QED
  BY <1>1, <1>2

LEMMA SaneAttemptsStep ==
  ASSUME Base, WorkersAreSane, WorkerIsThere, [Next]_vars
  PROVE  \A c \in CellSet : \A i \in 1..Len(attempts'[c]) : SaneAttempt(attempts'[c][i])
<1> USE DEF Base
<1> DEFINE Goal == \A c \in CellSet : \A i \in 1..Len(attempts'[c]) : SaneAttempt(attempts'[c][i])
<1>g. controller.gen \in Nat /\ controller.operation \in Operations
  BY DEF TypeOK, Controllers
<1>1. CASE attempts' = attempts
  BY <1>1 DEF WorkersAreSane
<1>2. ASSUME NEW w \in Worker, controller.alive, Cell \in CellSet,
             Len(attempts[Cell]) \in 1..Len(attempts[Cell]),
             AttemptBecomes(w), SaneAttempt(Attempt) => SaneAttempt(w)
      PROVE  Goal
  <2>1. SaneAttempt(Attempt)
    BY <1>2 DEF WorkersAreSane, Attempt
  <2> QED
    BY <1>2, <2>1, OneCaseOfAttempts DEF AttemptBecomes
<1>3. ASSUME NEW w \in Worker, controller.alive, Cell \in CellSet,
             controller.index \in 1..Len(attempts[Cell]),
             CheckedBecomes(w), SaneAttempt(Checked) => SaneAttempt(w)
      PROVE  Goal
  <2>1. SaneAttempt(Checked)
    BY <1>3 DEF WorkersAreSane, Checked
  <2> QED
    BY <1>3, <2>1, OneCaseOfAttempts DEF CheckedBecomes
<1>4. CASE PrepareAttempt /\ attempts' # attempts
  <2>1. Prolongs(attempts, attempts', Cell, Unborn(StartUpdate(Cell))) /\ Cell \in CellSet
    BY <1>4, PrepareEffect, HereTypes DEF Site
  <2>2. SaneAttempt(Unborn(StartUpdate(Cell)))
    BY <2>1, SaneStart, SaneUnborn
  <2>3. \A c \in CellSet : Len(attempts[c]) \in Nat
    BY SessionType DEF TypeOK, Sessions
  <2> QED
    BY <2>1, <2>2, <2>3 DEF Prolongs, WorkersAreSane
<1>5. CASE PointAttempt \/ SpawnAttempt \/ RecordAttempt \/ ForwardToAttempt
  <2>1. /\ controller.alive /\ Site \in {"point", "spawn", "record", "forward"}
        /\ Cell \in CellSet /\ Len(attempts[Cell]) \in 1..Len(attempts[Cell])
        /\ Attempt \in Worker
    BY <1>5, PointEffect, SpawnEffect, RecordEffect, ForwardEffect, HereTypes DEF Launching
  <2>2. /\ [Attempt EXCEPT !.current = TRUE] \in Worker
        /\ [Attempt EXCEPT !.receipt = TRUE] \in Worker
        /\ Ordered(Attempt, controller.operation) \in Worker
        /\ Born(Attempt, controller.gen) \in Worker
    BY <1>g, <2>1, FlagTypes, BornFields
  <2>3. CASE PointAttempt
    BY <1>2, <1>g, <2>1, <2>2, <2>3, PointEffect, SaneFlags
  <2>4. CASE SpawnAttempt
    BY <1>2, <1>g, <2>1, <2>2, <2>4, SpawnEffect, SaneFlags DEF WorkerIsThere
  <2>5. CASE RecordAttempt
    BY <1>2, <1>g, <2>1, <2>2, <2>5, RecordEffect, SaneFlags DEF WorkerIsThere
  <2>6. CASE ForwardToAttempt
    BY <1>1, <1>2, <1>g, <2>1, <2>2, <2>6, ForwardEffect, SaneFlags
  <2> QED
    BY <1>5, <2>3, <2>4, <2>5, <2>6
<1>6. CASE ValidateAttempt
  <2>1. controller.alive /\ Site = "validate" /\ Cell \in CellSet
    BY <1>6, ValidateEffect, HereTypes
  <2>2. Checked \in Worker => [Checked EXCEPT !.process = TRUE] \in Worker
    BY <1>g, FlagTypes
  <2> QED
    BY <1>1, <1>3, <1>6, <1>g, <2>1, <2>2, ValidateEffect, SaneFlags
<1>7. CASE SealAttempt
  <2>1. controller.alive /\ Site = "verify" /\ Cell \in CellSet /\ Checked.process
    BY <1>7, SealEffect, HereTypes DEF WorkerIsThere
  <2>2. Checked \in Worker => [Checked EXCEPT !.sealed = TRUE] \in Worker
    BY <1>g, FlagTypes
  <2> QED
    BY <1>1, <1>3, <1>7, <1>g, <2>1, <2>2, SealEffect, SaneFlags
<1>8. CASE LearnerStep \/ LearnerKilled
  <2>1. PICK c \in CellSet : \E i \in 1..Len(attempts[c]) : \E v \in Worker :
          /\ attempts[c][i].alive /\ Replaces(attempts, attempts', c, i, v)
          /\ Lived(attempts[c][i], v, Updates)
    BY <1>8, LearnerEffect DEF LearnerLives
  <2>2. PICK i \in 1..Len(attempts[c]) : \E v \in Worker :
          /\ attempts[c][i].alive /\ Replaces(attempts, attempts', c, i, v)
          /\ Lived(attempts[c][i], v, Updates)
    BY <2>1
  <2>3. PICK v \in Worker :
          /\ attempts[c][i].alive /\ Replaces(attempts, attempts', c, i, v)
          /\ Lived(attempts[c][i], v, Updates)
    BY <2>2
  <2>4. attempts[c][i] \in Worker /\ SaneAttempt(attempts[c][i])
    BY SessionType DEF TypeOK, Sessions, WorkersAreSane
  <2>5. SaneAttempt(v)
    BY <2>3, <2>4, SaneLives
  <2> QED
    BY <2>3, <2>5, OneCaseOfAttempts
<1> QED
  BY Zenon, <1>1, <1>4, <1>5, <1>6, <1>7, <1>8
  DEF vars, Next, FrontendStep, ControllerStep, StartSpawn, StartRegister, StartWrite,
      CommandCheck, CommandWrite, BoundaryRead, BoundaryDecide, WaitForResources, SelectCell,
      OpenCell, PollAttempt, ReportAttempt, JudgeTraining, NextSeed, OpenWindow, SpawnWindow,
      WatchWindow, ForwardToWindow, ReportWindow, RecordWindow, SealWindow, FinishSeed,
      ControllerFails, EvaluatorStep, ControllerKilled, FrontendKilled, EvaluatorKilled

LEMMA SaneWindowsStep ==
  ASSUME Base, WorkersAreSane, WorkerIsThere, [Next]_vars
  PROVE  \A c \in CellSet, s \in SeedSet : SaneWindow(windows'[c][s])
<1> USE DEF Base
<1> DEFINE Goal == \A c \in CellSet, s \in SeedSet : SaneWindow(windows'[c][s])
<1>g. controller.gen \in Nat /\ controller.operation \in Operations
  BY DEF TypeOK, Controllers
<1>1. CASE windows' = windows
  BY <1>1 DEF WorkersAreSane
<1>2. ASSUME NEW w \in Worker, Cell \in CellSet, Seed \in SeedSet, WindowBecomes(w),
             SaneWindow(w)
      PROVE  Goal
  BY <1>2, OneCaseOfWindows DEF WindowBecomes
<1>3. CASE OpenWindow \/ SpawnWindow \/ ForwardToWindow \/ RecordWindow \/ SealWindow
  <2>1. /\ controller.alive /\ Site \in Observing
        /\ Cell \in CellSet /\ Seed \in SeedSet /\ Window \in Worker
    BY <1>3, OpenEffect, SpawnWindowEffect, TransmitEffect, ReceiveEffect, SealWindowEffect,
       HereTypes DEF Observing
  <2>2. SaneWindow(Window)
    BY <2>1 DEF WorkersAreSane, Window
  <2>3. /\ [Window EXCEPT !.receipt = TRUE] \in Worker
        /\ [Window EXCEPT !.sealed = TRUE] \in Worker
        /\ Ordered(Window, controller.operation) \in Worker
        /\ Born(Window, controller.gen) \in Worker
        /\ Unborn(0) \in Worker
    BY <1>g, <2>1, FlagTypes, BornFields, UnbornType
  <2>4. CASE OpenWindow
    BY <1>1, <1>2, <2>1, <2>3, <2>4, OpenEffect, SaneUnborn
  <2>5. CASE SpawnWindow
    BY <1>2, <1>g, <2>1, <2>2, <2>3, <2>5, SpawnWindowEffect, SaneWindowFlags DEF WorkerIsThere
  <2>6. CASE ForwardToWindow
    BY <1>1, <1>2, <1>g, <2>1, <2>2, <2>3, <2>6, TransmitEffect, SaneWindowFlags
  <2>7. CASE RecordWindow
    BY <1>2, <1>g, <2>1, <2>2, <2>3, <2>7, ReceiveEffect, SaneWindowFlags DEF WorkerIsThere
  <2>8. CASE SealWindow
    BY <1>2, <1>g, <2>1, <2>2, <2>3, <2>8, SealWindowEffect, SaneWindowFlags DEF WorkerIsThere
  <2> QED
    BY <1>3, <2>4, <2>5, <2>6, <2>7, <2>8
<1>4. CASE EvaluatorStep \/ EvaluatorKilled
  <2>1. PICK c \in CellSet, s \in SeedSet, v \in Worker :
          /\ windows[c][s].alive /\ PlacesWindow(windows, windows', c, s, v)
          /\ Lived(windows[c][s], v, Steps)
    BY <1>4, EvaluatorEffect DEF EvaluatorLives
  <2>2. windows[c][s] \in Worker /\ SaneWindow(windows[c][s])
    BY DEF TypeOK, WorkersAreSane
  <2>3. SaneWindow(v)
    BY <2>1, <2>2, SaneLives
  <2> QED
    BY <2>1, <2>3, OneCaseOfWindows
<1> QED
  BY Zenon, <1>1, <1>3, <1>4
  DEF vars, Next, FrontendStep, ControllerStep, StartSpawn, StartRegister, StartWrite,
      CommandCheck, CommandWrite, BoundaryRead, BoundaryDecide, WaitForResources, SelectCell,
      OpenCell, PrepareAttempt, PointAttempt, SpawnAttempt, PollAttempt, ForwardToAttempt,
      ReportAttempt, RecordAttempt, ValidateAttempt, SealAttempt, JudgeTraining, NextSeed,
      WatchWindow, ReportWindow, FinishSeed, ControllerFails, LearnerStep, ControllerKilled,
      FrontendKilled, LearnerKilled

LEMMA SaneStep ==
  ASSUME Base, WorkersAreSane, WorkerIsThere, [Next]_vars
  PROVE  WorkersAreSane'
  BY SaneAttemptsStep, SaneWindowsStep DEF WorkersAreSane

------------------------------------------------------------------------------
(* Live workers are lone and awaited *)

NoneLive ==
  /\ \A c \in CellSet : \A i \in 1..Len(attempts[c]) : ~attempts[c][i].alive
  /\ \A c \in CellSet, s \in SeedSet : ~windows[c][s].alive

(* Whoever is alive after a step was alive before it, under the same owner. *)
NoBirth ==
  /\ \A c \in CellSet : \A i \in 1..Len(attempts'[c]) : attempts'[c][i].alive =>
       i \in 1..Len(attempts[c]) /\ attempts[c][i].alive /\ attempts'[c][i].by = attempts[c][i].by
  /\ \A c \in CellSet, s \in SeedSet : windows'[c][s].alive =>
       windows[c][s].alive /\ windows'[c][s].by = windows[c][s].by

LEMMA NobodyWaitsForNone ==
  ASSUME LiveAreAwaited, controller.alive,
         controller.pc \notin {"poll", "forward", "report", "watch", "transmit", "relay"}
  PROVE  NoneLive
  BY DEF LiveAreAwaited, NoneLive

LEMMA FreeLease ==
  ASSUME TypeOK, ~LeaseIsHeld
  PROVE  NoneLive /\ ~controller.alive
<1>1. LiveAttempts = {} /\ LiveWindows = {} /\ ~controller.alive
  BY DEF LeaseIsHeld, LiveWorkers
<1>2. ASSUME NEW c \in CellSet, NEW i \in 1..Len(attempts[c]), attempts[c][i].alive
      PROVE  FALSE
  <2>1. i \in {j \in DOMAIN attempts[c] : attempts[c][j].alive}
    BY <1>2, SessionType DEF TypeOK, Sessions
  <2>2. <<c, i>> \in LiveAttempts
    BY <2>1 DEF LiveAttempts
  <2> QED
    BY <1>1, <2>2
<1>3. ASSUME NEW c \in CellSet, NEW s \in SeedSet, windows[c][s].alive
      PROVE  FALSE
  <2>1. <<c, s>> \in LiveWindows
    BY <1>3 DEF LiveWindows
  <2> QED
    BY <1>1, <2>1
<1> QED
  BY <1>1, <1>2, <1>3 DEF NoneLive

(* By itself a worker lives on or stays what it is.                         *)
LEMMA LearnerFrame ==
  ASSUME LearnerLives
  PROVE  /\ \A c \in CellSet : Len(attempts'[c]) = Len(attempts[c])
         /\ \A c \in CellSet : \A i \in 1..Len(attempts[c]) :
              \/ attempts'[c][i] = attempts[c][i]
              \/ attempts[c][i].alive /\ Lived(attempts[c][i], attempts'[c][i], Updates)
  BY DEF LearnerLives, Replaces

LEMMA EvaluatorFrame ==
  ASSUME EvaluatorLives
  PROVE  \A c \in CellSet, s \in SeedSet :
           \/ windows'[c][s] = windows[c][s]
           \/ windows[c][s].alive /\ Lived(windows[c][s], windows'[c][s], Steps)
  BY DEF EvaluatorLives, PlacesWindow

LEMMA BirthsAreSpawns ==
  ASSUME Base, WorkersAreSane, [Next]_vars, ~SpawnAttempt, ~SpawnWindow
  PROVE  NoBirth
<1> USE DEF Base
<1>t. /\ \A c \in CellSet : Len(attempts[c]) \in Nat
      /\ controller.operation \in Operations
  BY SessionType DEF TypeOK, Sessions, Controllers
<1> DEFINE Attempted == \A c \in CellSet : \A i \in 1..Len(attempts'[c]) :
              attempts'[c][i].alive =>
                /\ i \in 1..Len(attempts[c]) /\ attempts[c][i].alive
                /\ attempts'[c][i].by = attempts[c][i].by
           Watched == \A c \in CellSet, s \in SeedSet : windows'[c][s].alive =>
              windows[c][s].alive /\ windows'[c][s].by = windows[c][s].by
<1>1. Attempted
  <2>1. CASE attempts' = attempts
    BY <2>1
  <2>2. ASSUME NEW c \in CellSet, NEW i \in 1..Len(attempts[c]), NEW w,
               Replaces(attempts, attempts', c, i, w),
               w.alive => attempts[c][i].alive /\ w.by = attempts[c][i].by
        PROVE  Attempted
    BY <2>2 DEF Replaces
  <2>3. CASE PrepareAttempt /\ attempts' # attempts
    <3>1. Prolongs(attempts, attempts', Cell, Unborn(StartUpdate(Cell))) /\ Cell \in CellSet
      BY <2>3, PrepareEffect, HereTypes DEF Site
    <3>2. ~Unborn(StartUpdate(Cell)).alive
      BY DEF Unborn
    <3> QED
      BY <1>t, <3>1, <3>2 DEF Prolongs
  <2>4. CASE PointAttempt \/ RecordAttempt \/ ForwardToAttempt
    <3>1. Cell \in CellSet /\ Len(attempts[Cell]) \in 1..Len(attempts[Cell]) /\ Attempt \in Worker
      BY <2>4, PointEffect, RecordEffect, ForwardEffect, HereTypes DEF Launching
    <3>2. \A w \in {[Attempt EXCEPT !.current = TRUE], [Attempt EXCEPT !.receipt = TRUE],
                    Ordered(Attempt, controller.operation)} :
            w.alive = Attempt.alive /\ w.by = Attempt.by
      BY <3>1 DEF Ordered, Worker
    <3> QED
      BY <2>1, <2>2, <2>4, <3>1, <3>2, PointEffect, RecordEffect, ForwardEffect
      DEF AttemptBecomes, Attempt
  <2>5. CASE ValidateAttempt \/ SealAttempt
    <3>1. Cell \in CellSet
      BY <2>5, ValidateEffect, SealEffect, HereTypes
    <3>2. Checked \in Worker =>
            \A w \in {[Checked EXCEPT !.process = TRUE], [Checked EXCEPT !.sealed = TRUE]} :
              w.alive = Checked.alive /\ w.by = Checked.by
      BY DEF Worker
    <3> QED
      BY <2>1, <2>2, <2>5, <3>1, <3>2, ValidateEffect, SealEffect DEF CheckedBecomes, Checked
  <2>6. CASE LearnerStep \/ LearnerKilled
    <3>1. LearnerLives
      BY <2>6, LearnerEffect
    <3> QED
      BY <3>1, LearnerFrame DEF Lived, Kept
  <2> QED
    BY Zenon, <2>1, <2>3, <2>4, <2>5, <2>6
    DEF vars, Next, FrontendStep, ControllerStep, StartSpawn, StartRegister, StartWrite,
        CommandCheck, CommandWrite, BoundaryRead, BoundaryDecide, WaitForResources,
        SelectCell, OpenCell, PollAttempt, ReportAttempt, JudgeTraining, NextSeed, OpenWindow,
        WatchWindow, ForwardToWindow, ReportWindow, RecordWindow, SealWindow, FinishSeed,
        ControllerFails, EvaluatorStep, ControllerKilled, FrontendKilled, EvaluatorKilled
<1>2. Watched
  <2>1. CASE windows' = windows
    BY <2>1
  <2>2. ASSUME NEW c \in CellSet, NEW s \in SeedSet, NEW w,
               PlacesWindow(windows, windows', c, s, w),
               w.alive => windows[c][s].alive /\ w.by = windows[c][s].by
        PROVE  Watched
    BY <2>2 DEF PlacesWindow
  <2>3. CASE OpenWindow \/ ForwardToWindow \/ RecordWindow \/ SealWindow
    <3>1. Cell \in CellSet /\ Seed \in SeedSet /\ Window \in Worker
      BY <2>3, OpenEffect, TransmitEffect, ReceiveEffect, SealWindowEffect, HereTypes
      DEF Observing
    <3>2. \A w \in {[Window EXCEPT !.receipt = TRUE], [Window EXCEPT !.sealed = TRUE],
                    Ordered(Window, controller.operation)} :
            w.alive = Window.alive /\ w.by = Window.by
      BY <3>1 DEF Ordered, Worker
    <3>3. ~Unborn(0).alive
      BY DEF Unborn
    <3> QED
      BY <2>1, <2>2, <2>3, <3>1, <3>2, <3>3, OpenEffect, TransmitEffect, ReceiveEffect,
         SealWindowEffect
      DEF WindowBecomes, Window
  <2>4. CASE EvaluatorStep \/ EvaluatorKilled
    <3>1. EvaluatorLives
      BY <2>4, EvaluatorEffect
    <3> QED
      BY <3>1, EvaluatorFrame DEF Lived, Kept
  <2> QED
    BY Zenon, <2>1, <2>3, <2>4
    DEF vars, Next, FrontendStep, ControllerStep, StartSpawn, StartRegister, StartWrite,
        CommandCheck, CommandWrite, BoundaryRead, BoundaryDecide, WaitForResources,
        SelectCell, OpenCell, PrepareAttempt, PointAttempt, PollAttempt, ForwardToAttempt,
        ReportAttempt, RecordAttempt, ValidateAttempt, SealAttempt, JudgeTraining, NextSeed,
        WatchWindow, ReportWindow, FinishSeed, ControllerFails, LearnerStep,
        ControllerKilled, FrontendKilled, LearnerKilled
<1> QED
  BY <1>1, <1>2 DEF NoBirth

LEMMA NoneStayNone == NoneLive /\ NoBirth => NoneLive'
  BY DEF NoneLive, NoBirth

LEMMA NoneAreAwaited == NoneLive => LiveAreAwaited /\ LiveAreLone
  BY DEF NoneLive, LiveAreAwaited, LiveAreLone

(* The one birth of an attempt, and of a window.                            *)
LEMMA SpawnedAttempt ==
  ASSUME Base, LiveAreAwaited, SpawnAttempt
  PROVE  LiveAreAwaited' /\ LiveAreLone'
<1> USE DEF Base
<1>1. NoneLive
  BY NobodyWaitsForNone DEF SpawnAttempt, At
<1>2. /\ Cell \in CellSet /\ Len(attempts[Cell]) \in 1..Len(attempts[Cell])
      /\ Attempt \in Worker /\ controller.gen \in Nat
  BY SpawnEffect, HereTypes DEF Launching, TypeOK, Controllers
<1>3. /\ Replaces(attempts, attempts', Cell, Len(attempts[Cell]), Born(Attempt, controller.gen))
      /\ Born(Attempt, controller.gen).by = controller.gen
      /\ windows' = windows
  BY <1>2, SpawnEffect, BornFields DEF AttemptBecomes, SpawnAttempt
<1>4. controller'.pc = "poll" /\ Cell' = Cell /\ controller'.gen = controller.gen
  BY SpawnEffect DEF TypeOK, Controllers, Cell
<1>5. ASSUME NEW c \in CellSet, NEW i \in 1..Len(attempts'[c]), attempts'[c][i].alive
      PROVE  c = Cell /\ i = Len(attempts'[c]) /\ attempts'[c][i].by = controller.gen
  BY <1>1, <1>2, <1>3, <1>5 DEF Replaces, NoneLive
<1>6. \A c \in CellSet, s \in SeedSet : ~windows'[c][s].alive
  BY <1>1, <1>3 DEF NoneLive
<1>7. LiveAreAwaited'
  BY <1>4, <1>5, <1>6 DEF LiveAreAwaited
<1>8. LiveAreLone'
  BY <1>5, <1>6 DEF LiveAreLone
<1> QED
  BY <1>7, <1>8

LEMMA SpawnedWindow ==
  ASSUME Base, LiveAreAwaited, SpawnWindow
  PROVE  LiveAreAwaited' /\ LiveAreLone'
<1> USE DEF Base
<1>1. NoneLive
  BY NobodyWaitsForNone DEF SpawnWindow, At
<1>2. Cell \in CellSet /\ Seed \in SeedSet /\ Window \in Worker /\ controller.gen \in Nat
  BY SpawnWindowEffect, HereTypes DEF Observing, TypeOK, Controllers
<1>3. /\ PlacesWindow(windows, windows', Cell, Seed, Born(Window, controller.gen))
      /\ Born(Window, controller.gen).by = controller.gen
      /\ attempts' = attempts
  BY <1>2, SpawnWindowEffect, BornFields DEF WindowBecomes, SpawnWindow
<1>4. /\ controller'.pc = "watch" /\ Cell' = Cell /\ Seed' = Seed
      /\ controller'.gen = controller.gen
  BY SpawnWindowEffect DEF TypeOK, Controllers, Cell, Seed
<1>5. ASSUME NEW c \in CellSet, NEW s \in SeedSet, windows'[c][s].alive
      PROVE  c = Cell /\ s = Seed /\ windows'[c][s].by = controller.gen
  BY <1>1, <1>2, <1>3, <1>5 DEF PlacesWindow, NoneLive
<1>6. \A c \in CellSet : \A i \in 1..Len(attempts'[c]) : ~attempts'[c][i].alive
  BY <1>1, <1>3 DEF NoneLive
<1>7. LiveAreAwaited'
  BY <1>4, <1>5, <1>6 DEF LiveAreAwaited
<1>8. LiveAreLone'
  BY <1>5, <1>6 DEF LiveAreLone
<1> QED
  BY <1>7, <1>8

LEMMA AwaitedStep ==
  ASSUME Base, WorkersAreSane, LiveAreAwaited, [Next]_vars
  PROVE  LiveAreAwaited'
<1> USE DEF Base
<1>1. CASE SpawnAttempt \/ SpawnWindow
  BY <1>1, SpawnedAttempt, SpawnedWindow
<1>b. ASSUME ~SpawnAttempt, ~SpawnWindow
      PROVE  NoBirth
  BY <1>b, BirthsAreSpawns
<1>n. ASSUME NoneLive, NoBirth
      PROVE  LiveAreAwaited'
  BY <1>n, NoneStayNone, NoneAreAwaited DEF NoneLive, LiveAreAwaited
<1>2. CASE ~controller'.alive
  BY <1>2 DEF LiveAreAwaited
<1>3. ASSUME NoBirth, controller.alive, \A c \in CellSet : Len(attempts'[c]) = Len(attempts[c]),
             controller'.gen = controller.gen, Cell' = Cell, Seed' = Seed,
             controller.pc \in {"poll", "forward", "report"} =>
               controller'.pc \in {"poll", "forward", "report"},
             controller.pc \in {"watch", "transmit", "relay"} =>
               controller'.pc \in {"watch", "transmit", "relay"}
      PROVE  LiveAreAwaited'
  BY <1>3 DEF LiveAreAwaited, NoBirth
<1>4. CASE StartSpawn
  BY <1>4, <1>b, <1>n, FreeLease DEF StartSpawn, SpawnAttempt, SpawnWindow, At
<1>5. CASE PollAttempt
  <2>1. /\ controller.alive /\ controller.pc = "poll" /\ Cell \in CellSet
        /\ ~Attempt.alive => controller'.pc = "record"
    <3>1. controller.alive /\ controller.pc = "poll" /\ Site = "poll"
      BY <1>5 DEF PollAttempt, At, Site
    <3>2. Cell \in CellSet
      BY <3>1, HereTypes
    <3>3. ~Attempt.alive => controller'.pc = "record"
      BY <1>5 DEF PollAttempt, Goto, TypeOK, Controllers
    <3> QED
      BY <3>1, <3>2, <3>3
  <2>2. CASE ~Attempt.alive
    <3>1. NoneLive
      BY <2>1, <2>2 DEF LiveAreAwaited, NoneLive, Attempt
    <3> QED
      BY <1>b, <1>n, <2>1, <3>1 DEF SpawnAttempt, SpawnWindow, At
  <2>3. CASE Attempt.alive
    <3>1. /\ controller'.pc = "forward" /\ controller'.gen = controller.gen
          /\ Cell' = Cell /\ Seed' = Seed /\ attempts' = attempts
      BY <1>5, <2>3 DEF PollAttempt, ReadRequest, Cell, Seed, TypeOK, Controllers
    <3> QED
      BY <1>3, <1>b, <2>1, <3>1 DEF SpawnAttempt, SpawnWindow, At
  <2> QED
    BY <2>2, <2>3
<1>6. CASE ForwardToAttempt
  <2>1. /\ controller.alive /\ controller.pc = "forward" /\ Cell \in CellSet
        /\ \A c \in CellSet : Len(attempts'[c]) = Len(attempts[c])
    BY <1>6, ForwardEffect, HereTypes DEF Site, AttemptBecomes, Replaces
  <2>2. CASE ~Attempt.alive
    <3>1. NoneLive
      BY <2>1, <2>2 DEF LiveAreAwaited, NoneLive, Attempt
    <3> QED
      BY <1>b, <1>n, <2>1, <3>1 DEF SpawnAttempt, SpawnWindow, At
  <2>3. CASE Attempt.alive
    <3>1. controller' = [controller EXCEPT !.pc = "report"]
      BY <1>6, <2>3, ForwardEffect
    <3>2. /\ controller'.pc = "report" /\ controller'.gen = controller.gen
          /\ Cell' = Cell /\ Seed' = Seed
      BY <3>1 DEF Cell, Seed, TypeOK, Controllers
    <3> QED
      BY <1>3, <1>b, <2>1, <3>2 DEF SpawnAttempt, SpawnWindow, At
  <2> QED
    BY <2>2, <2>3
<1>7. CASE ReportAttempt \/ ReportWindow
  <2>1. /\ controller.alive
        /\ \/ controller.pc = "report" /\ controller'.pc = "poll"
           \/ controller.pc = "relay" /\ controller'.pc = "watch"
        /\ Cell' = Cell /\ Seed' = Seed /\ attempts' = attempts
        /\ controller'.gen = controller.gen
    BY <1>7 DEF ReportAttempt, ReportWindow, At, Goto, Cell, Seed, TypeOK, Controllers
  <2> QED
    BY <1>3, <1>b, <2>1 DEF SpawnAttempt, SpawnWindow, At
<1>8. CASE WatchWindow
  <2>1. controller.alive /\ controller.pc = "watch" /\ attempts' = attempts
    BY <1>8 DEF WatchWindow, At
  <2>2. CASE ~Window.alive
    <3>1. NoneLive
      BY <2>1, <2>2 DEF LiveAreAwaited, NoneLive, Window
    <3> QED
      BY <1>b, <1>n, <2>1, <3>1 DEF SpawnAttempt, SpawnWindow, At
  <2>3. CASE Window.alive
    <3>1. /\ controller'.pc = "transmit" /\ controller'.gen = controller.gen
          /\ Cell' = Cell /\ Seed' = Seed
      BY <1>8, <2>3 DEF WatchWindow, ReadRequest, Cell, Seed, TypeOK, Controllers
    <3> QED
      BY <1>3, <1>b, <2>1, <3>1 DEF SpawnAttempt, SpawnWindow, At
  <2> QED
    BY <2>2, <2>3
<1>9. CASE ForwardToWindow
  <2>1. /\ controller.alive /\ controller.pc = "transmit" /\ attempts' = attempts
        /\ controller' = [controller EXCEPT !.pc = "relay"]
    BY <1>9, TransmitEffect DEF ForwardToWindow
  <2>2. /\ controller'.pc = "relay" /\ controller'.gen = controller.gen
        /\ Cell' = Cell /\ Seed' = Seed
    BY <2>1 DEF Cell, Seed, TypeOK, Controllers
  <2> QED
    BY <1>3, <1>b, <2>1, <2>2 DEF SpawnAttempt, SpawnWindow, At
<1>10. CASE controller' = controller
  <2>1. ~SpawnAttempt /\ ~SpawnWindow /\ ~PrepareAttempt
    BY Zenon, <1>10, SpawnEffect, SpawnWindowEffect, PrepareEffect, Arrivals
    DEF SpawnAttempt, SpawnWindow, PrepareAttempt, At, TypeOK, Controllers
  <2>2. \A c \in CellSet : Len(attempts'[c]) = Len(attempts[c])
    <3>1. CASE attempts' = attempts
      BY <3>1
    <3>2. CASE PointAttempt \/ RecordAttempt \/ ForwardToAttempt
      BY <3>2, PointEffect, RecordEffect, ForwardEffect DEF AttemptBecomes, Replaces
    <3>3. CASE ValidateAttempt \/ SealAttempt
      BY <3>3, ValidateEffect, SealEffect DEF CheckedBecomes, Replaces
    <3>4. CASE LearnerStep \/ LearnerKilled
      BY <3>4, LearnerEffect, LearnerFrame
    <3> QED
      BY Zenon, <2>1, <3>1, <3>2, <3>3, <3>4
      DEF vars, Next, FrontendStep, ControllerStep, StartSpawn, StartRegister, StartWrite,
          CommandCheck, CommandWrite, BoundaryRead, BoundaryDecide, WaitForResources,
          SelectCell, OpenCell, PollAttempt, ReportAttempt, JudgeTraining, NextSeed,
          OpenWindow, WatchWindow, ForwardToWindow, ReportWindow, RecordWindow, SealWindow,
          FinishSeed, ControllerFails, EvaluatorStep, ControllerKilled, FrontendKilled,
          EvaluatorKilled
  <2>3. Cell' = Cell /\ Seed' = Seed
    BY <1>10 DEF Cell, Seed
  <2> QED
    BY <1>2, <1>3, <1>10, <1>b, <2>1, <2>2, <2>3
<1>11. CASE /\ controller.alive
            /\ controller.pc \notin {"poll", "forward", "report", "watch", "transmit", "relay"}
            /\ ~SpawnAttempt /\ ~SpawnWindow
  BY <1>b, <1>n, <1>11, NobodyWaitsForNone
<1>12. CASE ControllerStep /\ controller'.alive
  <2>1. ASSUME ~PollAttempt, ~ForwardToAttempt, ~ReportAttempt, ~WatchWindow,
               ~ForwardToWindow, ~ReportWindow
        PROVE  /\ controller.alive
               /\ controller.pc \notin {"poll", "forward", "report",
                                        "watch", "transmit", "relay"}
    BY Zenon, <1>12, <2>1
    DEF ControllerStep, BoundaryRead, BoundaryDecide, WaitForResources, SelectCell, OpenCell,
        PrepareAttempt, PointAttempt, SpawnAttempt, RecordAttempt, ValidateAttempt,
        SealAttempt, JudgeTraining, NextSeed, OpenWindow, SpawnWindow, RecordWindow,
        SealWindow, FinishSeed, ControllerFails, At
  <2> QED
    BY <1>1, <1>5, <1>6, <1>7, <1>8, <1>9, <1>11, <2>1
<1>13. CASE ~ControllerStep /\ ~StartSpawn /\ ~ControllerKilled
  <2>1. controller' = controller
    BY Zenon, <1>13 DEF vars, Next, FrontendStep, StartRegister, StartWrite, CommandCheck,
       CommandWrite, LearnerStep, EvaluatorStep, FrontendKilled, LearnerKilled, EvaluatorKilled
  <2> QED
    BY <1>10, <2>1
<1>14. CASE ControllerKilled
  BY <1>2, <1>14, Gone DEF ControllerKilled
<1> QED
  BY <1>2, <1>4, <1>12, <1>13, <1>14

LEMMA LoneStep ==
  ASSUME Base, WorkersAreSane, LiveAreAwaited, LiveAreLone, [Next]_vars
  PROVE  LiveAreLone'
<1>1. CASE SpawnAttempt \/ SpawnWindow
  BY <1>1, SpawnedAttempt, SpawnedWindow
<1>2. CASE NoBirth
  BY <1>2 DEF NoBirth, LiveAreLone
<1> QED
  BY <1>1, <1>2, BirthsAreSpawns

------------------------------------------------------------------------------
(* What the controller relies on is there *)

(* Another's step leaves the controller's worker where it relies on it.     *)
LEMMA ThereByWorkers ==
  ASSUME Base, WorkersAreSane, WorkerIsThere, controller' = controller,
         LearnerLives \/ attempts' = attempts, EvaluatorLives \/ windows' = windows
  PROVE  WorkerIsThere'
<1> USE DEF Base
<1>1. CASE controller.alive
  <2>1. Site' = Site /\ Cell' = Cell /\ Seed' = Seed
    BY DEF Site, Cell, Seed
  <2> DEFINE InSession == Site \in (Launching \ {"launch"}) \cup Judging
  <2>2. InSession => \/ Attempt' = Attempt
                     \/ Attempt.alive /\ Lived(Attempt, Attempt', Updates)
    <3>1. InSession => Cell \in CellSet /\ Len(attempts[Cell]) \in 1..Len(attempts[Cell])
      BY <1>1, HereTypes DEF Launching, Judging
    <3>2. InSession => Attempt' = attempts'[Cell][Len(attempts[Cell])]
      BY <2>1, <3>1, LearnerFrame DEF Attempt
    <3> QED
      BY <3>1, <3>2, LearnerFrame DEF Attempt
  <2>3. Site = "verify" => \/ Checked' = Checked
                           \/ Checked.alive /\ Lived(Checked, Checked', Updates)
    <3>1. Site = "verify" => /\ Cell \in CellSet
                             /\ controller.index \in 1..Len(attempts[Cell])
      BY <1>1, HereTypes DEF Situated
    <3> QED
      BY <2>1, <3>1, LearnerFrame DEF Checked
  <2>4. Site \in Observing => \/ Window' = Window
                              \/ Window.alive /\ Lived(Window, Window', Steps)
    BY <1>1, <2>1, HereTypes, EvaluatorFrame DEF Window, Observing
  <2>5. InSession => SaneAttempt(Attempt)
    BY <1>1, HereTypes DEF WorkersAreSane, Attempt, Launching, Judging
  <2>6. Site \in Observing => SaneWindow(Window)
    BY <1>1, HereTypes DEF WorkersAreSane, Window, Observing
  <2>7. /\ Site \in {"point", "spawn"} => Attempt'.at = "unborn"
        /\ Site = "spawn" => Attempt'.current
        /\ Site \in {"poll", "forward", "report"} => Attempt'.at # "unborn"
        /\ Site = "record" => Attempt'.at = "ended"
    BY <1>1, <2>2, <2>5 DEF WorkerIsThere, Lived, Kept, SaneAttempt, Sane, Launching
  <2>8. Site = "verify" => Checked'.process
    BY <1>1, <2>3 DEF WorkerIsThere, Lived, Kept
  <2>9. /\ Site = "window" => Window'.at = "unborn"
        /\ Site \in {"watch", "transmit", "relay"} => Window'.at \notin {"absent", "unborn"}
        /\ Site = "receive" => Window'.at = "ended"
        /\ Site = "seal" => Window'.receipt /\ Window'.code = "0"
        /\ Site = "develop" => Window'.sealed
    BY <1>1, <2>4, <2>6 DEF WorkerIsThere, Lived, Kept, SaneWindow, Sane, Observing
  <2> QED
    BY <2>1, <2>7, <2>8, <2>9 DEF WorkerIsThere
<1>2. CASE ~controller.alive
  BY <1>2 DEF WorkerIsThere
<1> QED
  BY <1>1, <1>2

Relied == {"point", "spawn", "poll", "forward", "report", "record", "verify",
           "window", "watch", "transmit", "relay", "receive", "seal", "develop"}

LEMMA NewWorkers ==
  ASSUME Base, controller.alive, Cell' = Cell, Seed' = Seed, NEW w
  PROVE  /\ AttemptBecomes(w) /\ Site \in (Launching \ {"launch"}) \cup Judging
              => Attempt' = w
         /\ WindowBecomes(w) /\ Site \in Observing => Window' = w
<1>1. ASSUME AttemptBecomes(w), Site \in (Launching \ {"launch"}) \cup Judging
      PROVE  Attempt' = w
  <2>1. Cell \in CellSet /\ Len(attempts[Cell]) \in 1..Len(attempts[Cell])
    BY <1>1, HereTypes DEF Base, Launching, Judging
  <2>2. /\ Len(attempts'[Cell]) = Len(attempts[Cell])
        /\ attempts'[Cell][Len(attempts[Cell])] = w
    BY <1>1, <2>1 DEF AttemptBecomes, Replaces
  <2> QED
    BY <2>2 DEF Attempt
<1>2. ASSUME WindowBecomes(w), Site \in Observing
      PROVE  Window' = w
  <2>1. Cell \in CellSet /\ Seed \in SeedSet
    BY <1>2, HereTypes DEF Base, Observing
  <2> QED
    BY <1>2, <2>1 DEF WindowBecomes, PlacesWindow, Window
<1> QED
  BY <1>1, <1>2

LEMMA ThereStep ==
  ASSUME Base, WorkersAreSane, WorkerIsThere, [Next]_vars
  PROVE  WorkerIsThere'
<1> USE DEF Base
<1> DEFINE cell == controller.cell
           seed == controller.seed
           index == controller.index
           Stays(site) == Arrives(site, cell, seed, index)
<1>s. ASSUME NEW site, Stays(site)
      PROVE  Site' = site /\ Cell' = Cell /\ Seed' = Seed
  BY <1>s DEF Arrives, Cell, Seed
<1>z. ASSUME NEW site, site \notin Relied, NEW c, NEW s, NEW i, Arrives(site, c, s, i)
      PROVE  WorkerIsThere'
  BY <1>z DEF Arrives, Relied, WorkerIsThere
<1>n. ASSUME ~controller'.alive
      PROVE  WorkerIsThere'
  BY <1>n DEF WorkerIsThere
<1>a. Attempt \in Worker => [Attempt EXCEPT !.current = TRUE].current
  BY DEF Worker
<1>1. CASE PrepareAttempt
  <2>1. controller.alive /\ Site = "launch" /\ Cell \in CellSet
    BY <1>1, HereTypes DEF PrepareAttempt, At, Site
  <2>2. \/ /\ Stays("point")
           /\ Prolongs(attempts, attempts', Cell, Unborn(StartUpdate(Cell)))
        \/ Stays("fail")
    BY Zenon, <1>1, <2>1, PrepareEffect, Arrivals DEF Sites
  <2>3. ASSUME Stays("point"),
               Prolongs(attempts, attempts', Cell, Unborn(StartUpdate(Cell)))
        PROVE  Site' = "point" /\ Attempt'.at = "unborn"
    <3>1. Len(attempts[Cell]) \in Nat
      BY <2>1, SessionType DEF TypeOK, Sessions
    <3>2. Attempt' = Unborn(StartUpdate(Cell))
      BY <1>s, <2>1, <2>3, <3>1 DEF Prolongs, Attempt
    <3> QED
      BY <1>s, <2>3, <3>2 DEF Unborn
  <2> QED
    BY <1>z, <2>2, <2>3 DEF WorkerIsThere, Relied
<1>2. CASE PointAttempt
  <2>1. controller.alive /\ Site = "point" /\ Stays("spawn") /\ Attempt \in Worker
    BY Zenon, <1>2, PointEffect, Arrivals, HereTypes DEF Sites, Launching
  <2>2. Attempt' = [Attempt EXCEPT !.current = TRUE]
    BY <1>2, <1>s, <2>1, PointEffect, NewWorkers DEF Launching
  <2>3. Attempt'.current /\ Attempt'.at = Attempt.at /\ Attempt.at = "unborn"
    BY <1>a, <2>1, <2>2 DEF Worker, WorkerIsThere
  <2> QED
    BY <1>s, <2>1, <2>3 DEF WorkerIsThere
<1>3. CASE SpawnAttempt
  <2>1. controller.alive /\ Site = "spawn" /\ Stays("poll") /\ Attempt \in Worker
    BY Zenon, <1>3, SpawnEffect, Arrivals, HereTypes DEF Sites, Launching
  <2>2. Attempt' = Born(Attempt, controller.gen)
    BY <1>3, <1>s, <2>1, SpawnEffect, NewWorkers DEF Launching
  <2>3. Attempt'.at = "boundary"
    <3>1. controller.gen \in Nat
      BY DEF TypeOK, Controllers
    <3>2. Born(Attempt, controller.gen).at = "boundary"
      BY <2>1, <3>1, BornFields
    <3> QED
      BY <2>2, <3>2
  <2> QED
    BY <1>s, <2>1, <2>3 DEF WorkerIsThere
<1>4. CASE PollAttempt
  <2>1. /\ controller.alive /\ Site = "poll" /\ attempts' = attempts
        /\ Stays("forward") \/ (Stays("record") /\ ~Attempt.alive)
    <3>1. controller.alive /\ Site = "poll" /\ {"forward", "record"} \subseteq Sites
      BY <1>4 DEF PollAttempt, At, Site, Sites
    <3>2. ReadRequest("forward") \/ (Goto("record") /\ ~Attempt.alive)
      BY <1>4 DEF PollAttempt
    <3>3. Stays("forward") \/ (Stays("record") /\ ~Attempt.alive)
      BY Zenon, <3>1, <3>2, Arrivals
    <3> QED
      BY <1>4, <3>1, <3>3 DEF PollAttempt
  <2>2. Attempt' = Attempt
    BY <1>s, <2>1 DEF Attempt
  <2>3. Attempt.at # "unborn" /\ SaneAttempt(Attempt)
    BY <2>1, HereTypes DEF WorkerIsThere, WorkersAreSane, Attempt, Launching
  <2>4. ~Attempt.alive => Attempt.at = "ended"
    BY <2>3 DEF SaneAttempt, Sane
  <2> QED
    BY <1>s, <2>1, <2>2, <2>3, <2>4 DEF WorkerIsThere
<1>5. CASE ForwardToAttempt
  <2>1. /\ controller.alive /\ Site = "forward" /\ Attempt \in Worker
        /\ Stays("report") \/ Stays("fail")
    BY Zenon, <1>5, ForwardEffect, Arrivals, HereTypes DEF Sites, Launching
  <2>2. CASE Stays("report")
    <3>1. \/ attempts' = attempts
          \/ AttemptBecomes(Ordered(Attempt, controller.operation))
      BY <1>5, ForwardEffect
    <3>2. Attempt' = Attempt \/ Attempt' = Ordered(Attempt, controller.operation)
      BY <1>s, <2>1, <2>2, <3>1, NewWorkers DEF Attempt, Launching
    <3>3. Attempt'.at = Attempt.at
      BY Zenon, <2>1, <3>2 DEF Ordered, Worker
    <3> QED
      BY <1>s, <2>1, <2>2, <3>3 DEF WorkerIsThere
  <2> QED
    BY <1>z, <2>1, <2>2 DEF Relied
<1>6. CASE ReportAttempt
  <2>1. controller.alive /\ Site = "report" /\ Stays("poll") /\ attempts' = attempts
    BY Zenon, <1>6, Arrivals DEF ReportAttempt, At, Site, Sites
  <2>2. Attempt' = Attempt
    BY <1>s, <2>1 DEF Attempt
  <2> QED
    BY <1>s, <2>1, <2>2 DEF WorkerIsThere
<1>7. CASE RecordAttempt \/ WaitForResources \/ SelectCell \/ OpenCell \/ JudgeTraining \/
           NextSeed \/ FinishSeed
  <2>1. /\ controller.alive
        /\ Site \in {"record", "resources", "select", "open", "judge", "seeds", "develop"}
    BY Zenon, <1>7
    DEF RecordAttempt, WaitForResources, SelectCell, OpenCell, JudgeTraining, NextSeed,
        FinishSeed, At, Site
  <2>2. controller'.alive =>
          Site' \in {"validate", "select", "resources", "open", "launch", "seeds", "fail",
                     "evaluate"}
    BY ZenonT(60), <1>7
    DEF RecordAttempt, WaitForResources, SelectCell, OpenCell, JudgeTraining, NextSeed,
        FinishSeed, Goto, BoundaryThen, Exits, Nobody, Site, At, TypeOK, Controllers
  <2> QED
    BY <2>2 DEF WorkerIsThere
<1>8. CASE ValidateAttempt
  <2>1. controller.alive /\ Site = "validate" /\ Cell \in CellSet
    BY <1>8, ValidateEffect, HereTypes
  <2>2. CASE controller' = [controller EXCEPT !.pc = "verify"] /\ Checked \in Worker /\
             controller.index \in 1..Len(attempts[Cell]) /\
             CheckedBecomes([Checked EXCEPT !.process = TRUE])
    <3>1. Arrives("verify", cell, seed, index)
      BY Zenon, <2>1, <2>2, Arrivals DEF Sites
    <3>2. Checked' = [Checked EXCEPT !.process = TRUE]
      BY ZenonT(60), <1>s, <2>1, <2>2, <3>1 DEF Arrives, CheckedBecomes, Replaces, Checked
    <3>3. Checked'.process
      BY <2>2, <3>2 DEF Worker
    <3> QED
      BY <1>s, <3>1, <3>3 DEF WorkerIsThere
  <2>3. CASE controller' = [controller EXCEPT !.index = @ + 1]
    <3>1. Arrives("validate", cell, seed, index + 1)
      BY Zenon, <2>1, <2>3, Arrivals DEF Sites
    <3> QED
      BY <1>z, <3>1 DEF Relied
  <2>4. CASE controller' \in {[controller EXCEPT !.pc = "judge"],
                              [controller EXCEPT !.pc = "fail"]}
    <3>1. Stays("judge") \/ Stays("fail")
      BY Zenon, <2>1, <2>4, Arrivals DEF Sites
    <3> QED
      BY <1>z, <3>1 DEF Relied
  <2> QED
    BY <1>8, <2>2, <2>3, <2>4, ValidateEffect
<1>9. CASE SealAttempt
  <2>1. /\ controller.alive
        /\ Arrives("validate", cell, seed, index + 1) \/ Stays("fail")
    BY Zenon, <1>9, SealEffect, Arrivals DEF Sites
  <2> QED
    BY <1>z, <2>1 DEF Relied
<1>10. CASE OpenWindow
  <2>1. /\ controller.alive /\ Site = "evaluate"
        /\ \/ Stays("develop") /\ Window.sealed /\ windows' = windows
           \/ Stays("window") /\ WindowBecomes(Unborn(0))
           \/ Stays("fail")
    BY Zenon, <1>10, OpenEffect, Arrivals DEF Sites
  <2>2. CASE Stays("develop") /\ Window.sealed /\ windows' = windows
    <3>1. Window' = Window
      BY <1>s, <2>2 DEF Window
    <3> QED
      BY <1>s, <2>2, <3>1 DEF WorkerIsThere
  <2>3. CASE Stays("window") /\ WindowBecomes(Unborn(0))
    <3>1. Window' = Unborn(0)
      BY <1>s, <2>1, <2>3, NewWorkers DEF Observing
    <3>2. Window'.at = "unborn"
      BY <3>1 DEF Unborn
    <3> QED
      BY <1>s, <2>3, <3>2 DEF WorkerIsThere
  <2> QED
    BY <1>z, <2>1, <2>2, <2>3 DEF Relied
<1>11. CASE SpawnWindow
  <2>1. controller.alive /\ Site = "window" /\ Stays("watch") /\ Window \in Worker
    BY Zenon, <1>11, SpawnWindowEffect, Arrivals, HereTypes DEF Sites, Observing
  <2>2. Window' = Born(Window, controller.gen)
    BY <1>11, <1>s, <2>1, SpawnWindowEffect, NewWorkers DEF Observing
  <2>3. Window'.at = "boundary"
    <3>1. controller.gen \in Nat
      BY DEF TypeOK, Controllers
    <3>2. Born(Window, controller.gen).at = "boundary"
      BY <2>1, <3>1, BornFields
    <3> QED
      BY <2>2, <3>2
  <2> QED
    BY <1>s, <2>1, <2>3 DEF WorkerIsThere
<1>12. CASE WatchWindow
  <2>1. /\ controller.alive /\ Site = "watch" /\ windows' = windows
        /\ Stays("transmit") \/ (Stays("receive") /\ ~Window.alive)
    <3>1. controller.alive /\ Site = "watch" /\ {"transmit", "receive"} \subseteq Sites
      BY <1>12 DEF WatchWindow, At, Site, Sites
    <3>2. ReadRequest("transmit") \/ (Goto("receive") /\ ~Window.alive)
      BY <1>12 DEF WatchWindow
    <3>3. Stays("transmit") \/ (Stays("receive") /\ ~Window.alive)
      BY Zenon, <3>1, <3>2, Arrivals
    <3> QED
      BY <1>12, <3>1, <3>3 DEF WatchWindow
  <2>2. Window' = Window
    BY <1>s, <2>1 DEF Window
  <2>3. Window.at \notin {"absent", "unborn"} /\ SaneWindow(Window)
    BY <2>1, HereTypes DEF WorkerIsThere, WorkersAreSane, Window, Observing
  <2>4. ~Window.alive => Window.at = "ended"
    BY <2>3 DEF SaneWindow, Sane
  <2> QED
    BY <1>s, <2>1, <2>2, <2>3, <2>4 DEF WorkerIsThere
<1>13. CASE ForwardToWindow
  <2>1. controller.alive /\ Site = "transmit" /\ Window \in Worker /\ Stays("relay")
    BY Zenon, <1>13, TransmitEffect, Arrivals, HereTypes DEF Sites, Observing
  <2>2. windows' = windows \/ WindowBecomes(Ordered(Window, controller.operation))
    BY <1>13, TransmitEffect
  <2>3. Window' = Window \/ Window' = Ordered(Window, controller.operation)
    BY <1>s, <2>1, <2>2, NewWorkers DEF Window, Observing
  <2>4. Window'.at = Window.at
    BY Zenon, <2>1, <2>3 DEF Ordered, Worker
  <2> QED
    BY <1>s, <2>1, <2>4 DEF WorkerIsThere
<1>14. CASE ReportWindow
  <2>1. controller.alive /\ Site = "relay" /\ Stays("watch") /\ windows' = windows
    BY Zenon, <1>14, Arrivals DEF ReportWindow, At, Site, Sites
  <2>2. Window' = Window
    BY <1>s, <2>1 DEF Window
  <2> QED
    BY <1>s, <2>1, <2>2 DEF WorkerIsThere
<1>15. CASE RecordWindow
  <2>1. /\ controller.alive /\ Site = "receive" /\ Window \in Worker
        /\ WindowBecomes([Window EXCEPT !.receipt = TRUE])
        /\ (Window.code = "0" /\ Stays("seal")) \/ Stays("fail")
    BY Zenon, <1>15, ReceiveEffect, Arrivals, HereTypes DEF Sites, Observing
  <2>2. CASE Window.code = "0" /\ Stays("seal")
    <3>1. Window' = [Window EXCEPT !.receipt = TRUE]
      BY <1>s, <2>1, <2>2, NewWorkers DEF Observing
    <3>2. Window'.receipt /\ Window'.code = "0"
      BY <2>1, <2>2, <3>1 DEF Worker
    <3> QED
      BY <1>s, <2>2, <3>2 DEF WorkerIsThere
  <2> QED
    BY <1>z, <2>1, <2>2 DEF Relied
<1>16. CASE SealWindow
  <2>1. controller.alive /\ Site = "seal" /\ Window \in Worker /\ Stays("develop")
    BY Zenon, <1>16, SealWindowEffect, Arrivals, HereTypes DEF Sites, Observing
  <2>2. Window' = [Window EXCEPT !.sealed = TRUE]
    BY <1>16, <1>s, <2>1, SealWindowEffect, NewWorkers DEF Observing
  <2>3. Window'.sealed
    BY <2>1, <2>2 DEF Worker
  <2> QED
    BY <1>s, <2>1, <2>3 DEF WorkerIsThere
<1>17. CASE BoundaryRead \/ BoundaryDecide
  <2>1. controller.alive /\ Site = controller.then /\ Site \in Sites
    BY <1>17 DEF BoundaryRead, BoundaryDecide, At, Site, Situated
  <2>2. CASE controller'.alive
    <3>1. /\ Site' = Site /\ Cell' = Cell /\ Seed' = Seed /\ controller'.index = index
      BY ZenonT(60), <1>17, <2>1, <2>2
      DEF BoundaryRead, BoundaryDecide, ReadRequest, Goto, Exits, Nobody, Site, Sites, Cell, Seed,
          TypeOK, Controllers
    <3>2. attempts' = attempts /\ windows' = windows
      BY <1>17 DEF BoundaryRead, BoundaryDecide
    <3>3. Attempt' = Attempt /\ Window' = Window /\ Checked' = Checked
      BY <3>1, <3>2 DEF Attempt, Window, Checked
    <3> QED
      BY <2>1, <3>1, <3>3 DEF WorkerIsThere
  <2> QED
    BY <1>n, <2>2
<1>18. CASE StartSpawn
  <2>1. Site' = "resources"
    BY <1>18 DEF StartSpawn, Nobody, Site
  <2> QED
    BY <2>1 DEF WorkerIsThere
<1>19. CASE ControllerFails \/ ControllerKilled
  BY <1>19, <1>n, Gone DEF ControllerFails, ControllerKilled
<1>20. CASE \/ StartRegister \/ StartWrite \/ CommandCheck \/ CommandWrite
            \/ FrontendKilled \/ UNCHANGED vars
  BY Zenon, <1>20, ThereByWorkers
  DEF StartRegister, StartWrite, CommandCheck, CommandWrite, FrontendKilled, vars
<1>21. CASE LearnerStep \/ LearnerKilled
  <2>1. LearnerLives /\ controller' = controller /\ windows' = windows
    BY <1>21, LearnerEffect DEF LearnerStep, LearnerKilled
  <2> QED
    BY <2>1, ThereByWorkers
<1>22. CASE EvaluatorStep \/ EvaluatorKilled
  <2>1. EvaluatorLives /\ controller' = controller /\ attempts' = attempts
    BY <1>22, EvaluatorEffect DEF EvaluatorStep, EvaluatorKilled
  <2> QED
    BY <2>1, ThereByWorkers
<1> QED
  BY <1>1, <1>2, <1>3, <1>4, <1>5, <1>6, <1>7, <1>8, <1>9, <1>10, <1>11, <1>12, <1>13, <1>14,
     <1>15, <1>16, <1>17, <1>18, <1>19, <1>20, <1>21, <1>22
  DEF Next, FrontendStep, ControllerStep

------------------------------------------------------------------------------
(* The attempts of a session form a chain *)

(* Where the next attempt of a session starts.                              *)
StartIsThere ==
  \A c \in CellSet :
    /\ Unpointed(c) => StartUpdate(c) = 0
    /\ \A i \in 1..Len(attempts[c]) : LastPointed(c, i) => StartUpdate(c) = attempts[c][i].update

LEMMA StartFound == TypeOK => StartIsThere
<1> SUFFICES ASSUME TypeOK PROVE StartIsThere
  OBVIOUS
<1>1. ASSUME NEW c \in CellSet
      PROVE  /\ Unpointed(c) => StartUpdate(c) = 0
             /\ \A i \in 1..Len(attempts[c]) :
                  LastPointed(c, i) => StartUpdate(c) = attempts[c][i].update
  BY CurrentFound DEF StartUpdate
<1> QED
  BY <1>1 DEF StartIsThere

LEMMA StartFoundNext == TypeOK' => StartIsThere'
  BY StartFound, PTL

(* A session whose pointers and updates did not change.                     *)
LEMMA SameStart ==
  ASSUME Base, TypeOK', NEW c \in CellSet,
         Len(attempts'[c]) \in {Len(attempts[c]), Len(attempts[c]) + 1},
         \A i \in 1..Len(attempts[c]) : /\ attempts'[c][i].current = attempts[c][i].current
                                        /\ attempts'[c][i].update = attempts[c][i].update,
         \A i \in 1..Len(attempts'[c]) : attempts'[c][i].current => i \in 1..Len(attempts[c])
  PROVE  StartUpdate(c)' = StartUpdate(c)
<1>1. Len(attempts[c]) \in Nat
  BY SessionType DEF Base, TypeOK, Sessions
<1>2. StartIsThere /\ StartIsThere'
  BY StartFound, StartFoundNext DEF Base
<1>3. CASE Unpointed(c)
  <2>1. Unpointed(c)'
    BY <1>3 DEF Unpointed
  <2> QED
    BY <1>2, <1>3, <2>1 DEF StartIsThere
<1>4. ASSUME NEW i \in 1..Len(attempts[c]), LastPointed(c, i)
      PROVE  StartUpdate(c)' = StartUpdate(c)
  <2>1. LastPointed(c, i)' /\ i \in 1..Len(attempts'[c])
    BY <1>1, <1>4 DEF LastPointed
  <2>2. StartUpdate(c)' = attempts'[c][i].update
    BY <1>2, <2>1 DEF StartIsThere
  <2>3. StartUpdate(c) = attempts[c][i].update
    BY <1>2, <1>4 DEF StartIsThere
  <2> QED
    BY <2>2, <2>3
<1> QED
  BY <1>3, <1>4 DEF Base, Pointers

LEMMA SameLinks ==
  ASSUME Base, TypeOK', SessionsAreLinked, NEW c \in CellSet,
         Len(attempts'[c]) = Len(attempts[c]),
         \A i \in 1..Len(attempts[c]) :
           /\ attempts'[c][i].current = attempts[c][i].current
           /\ attempts'[c][i].update = attempts[c][i].update
           /\ attempts'[c][i].from = attempts[c][i].from
           /\ attempts'[c][i].alive => attempts[c][i].alive \/ i = Len(attempts[c])
  PROVE  (Linked(c) /\ TailIsIdle(c))'
<1>1. /\ Len(attempts[c]) \in Nat
      /\ attempts[c] # <<>> <=> Len(attempts[c]) # 0
      /\ attempts'[c] # <<>> <=> Len(attempts'[c]) # 0
  BY SessionType DEF Base, TypeOK, Sessions
<1>2. StartUpdate(c)' = StartUpdate(c)
  BY SameStart
<1>3. Linked(c) /\ TailIsIdle(c)
  BY DEF SessionsAreLinked
<1>4. TailIsIdle(c)'
  BY <1>1, <1>2, <1>3 DEF TailIsIdle
<1>5. Linked(c)'
  BY <1>1, <1>3 DEF Linked
<1> QED
  BY <1>4, <1>5

(* The last attempt of a session is pointed at, and has done more work.     *)
LEMMA LastLinks ==
  ASSUME Base, TypeOK', SessionsAreLinked, NEW c \in CellSet, NEW n, n = Len(attempts[c]),
         n \in 1..n, NEW w \in Worker, Replaces(attempts, attempts', c, n, w),
         w.current, w.from = attempts[c][n].from, attempts[c][n].update <= w.update
  PROVE  (Linked(c) /\ TailIsIdle(c))'
<1>1. /\ n \in Nat
      /\ \A i \in 1..n : attempts[c][i] \in Worker
  BY SessionType DEF Base, TypeOK, Sessions
<1>2. /\ Len(attempts'[c]) = n /\ attempts'[c][n] = w
      /\ \A i \in 1..n : i # n => attempts'[c][i] = attempts[c][i]
  BY DEF Replaces
<1>3. LastPointed(c, n)' /\ n \in 1..Len(attempts'[c])
  BY <1>1, <1>2 DEF LastPointed
<1>4. StartUpdate(c)' = w.update
  BY <1>2, <1>3, StartFoundNext DEF StartIsThere
<1>5. TailIsIdle(c)'
  BY <1>2, <1>4 DEF TailIsIdle
<1>6. Linked(c)
  BY DEF SessionsAreLinked
<1>7. \A i \in 1..n : attempts[c][i].update \in Nat
  BY <1>1 DEF Worker
<1>8. w.update \in Nat
  BY DEF Worker
<1>9. Linked(c)'
  <2>1. ASSUME NEW i \in 1..n
        PROVE  /\ attempts'[c][i].from = IF i = 1 THEN 0 ELSE attempts'[c][i - 1].update
               /\ attempts'[c][i].alive => i = n
               /\ \A j \in 1..i : attempts'[c][j].update <= attempts'[c][i].update
    <3>1. attempts'[c][i].from = IF i = 1 THEN 0 ELSE attempts'[c][i - 1].update
      <4>1. i # 1 => attempts'[c][i - 1] = attempts[c][i - 1]
        BY <1>1, <1>2
      <4>2. attempts'[c][i].from = attempts[c][i].from
        BY <1>2
      <4> QED
        BY <1>6, <4>1, <4>2 DEF Linked
    <3>2. attempts'[c][i].alive => i = n
      BY <1>2, <1>6 DEF Linked
    <3>3. ASSUME NEW j \in 1..i
          PROVE  attempts'[c][j].update <= attempts'[c][i].update
      <4>1. j \in 1..n /\ attempts[c][j].update <= attempts[c][i].update
        BY <1>1, <1>6 DEF Linked
      <4>2. /\ i = n => attempts'[c][i].update = w.update
            /\ i # n => attempts'[c][i].update = attempts[c][i].update
            /\ j = n => i = n
            /\ j # n => attempts'[c][j].update = attempts[c][j].update
        BY <1>1, <1>2, <4>1
      <4> QED
        BY <1>7, <1>8, <4>1, <4>2
    <3> QED
      BY <3>1, <3>2, <3>3
  <2> QED
    BY <1>2, <2>1 DEF Linked
<1> QED
  BY <1>5, <1>9

LEMMA PreparedLinks ==
  ASSUME Base, TypeOK', WorkersAreSane, SessionsAreLinked, LiveAreAwaited, PrepareAttempt,
         NEW c \in CellSet, c = Cell, attempts' # attempts
  PROVE  /\ (Linked(c) /\ TailIsIdle(c))'
         /\ Len(attempts'[c]) = Len(attempts[c]) + 1
         /\ attempts'[c][Len(attempts[c]) + 1].from = StartUpdate(c)
         /\ \A j \in 1..Len(attempts[c]) : attempts[c][j].update <= StartUpdate(c)
         /\ Resumable(c)
<1> DEFINE n == Len(attempts[c])
<1>1. /\ n \in Nat
      /\ attempts[c] # <<>> <=> n # 0
      /\ \A i \in 1..n : attempts[c][i] \in Worker
  BY SessionType DEF Base, TypeOK, Sessions
<1>2. Prolongs(attempts, attempts', c, Unborn(StartUpdate(c))) /\ Resumable(c)
  BY PrepareEffect
<1>3. StartUpdate(c) \in Nat
  BY StartType
<1>4. /\ Len(attempts'[c]) = n + 1
      /\ \A i \in 1..n : attempts'[c][i] = attempts[c][i]
      /\ attempts'[c][n + 1] = Unborn(StartUpdate(c))
  BY <1>2 DEF Prolongs
<1>5. /\ ~attempts'[c][n + 1].current /\ ~attempts'[c][n + 1].alive
      /\ attempts'[c][n + 1].from = StartUpdate(c)
      /\ attempts'[c][n + 1].update = StartUpdate(c)
  BY <1>4 DEF Unborn
<1>6. \A i \in 1..n + 1 : i \in 1..n \/ i = n + 1
  BY <1>1
<1>7. StartUpdate(c)' = StartUpdate(c)
  BY <1>1, <1>4, <1>5, <1>6, SameStart
<1>8. Linked(c) /\ TailIsIdle(c)
  BY DEF SessionsAreLinked
<1>9. TailIsIdle(c)'
  BY <1>4, <1>5, <1>7 DEF TailIsIdle
<1>10. \A i \in 1..n : ~attempts[c][i].alive
  BY NobodyWaitsForNone DEF PrepareAttempt, At, NoneLive
<1>11. n # 0 => attempts[c][n].update = StartUpdate(c)
  BY <1>1, <1>8 DEF TailIsIdle
<1>12. \A j \in 1..n : attempts[c][j].update <= StartUpdate(c)
  <2>1. n # 0 => n \in 1..n
    BY <1>1
  <2> QED
    BY <1>1, <1>8, <1>11, <2>1 DEF Linked
<1>13. n = 0 => StartUpdate(c) = 0
  BY StartType DEF Unpointed
<1>14. Linked(c)'
  <2>1. ASSUME NEW i \in 1..n
        PROVE  /\ attempts'[c][i].from = IF i = 1 THEN 0 ELSE attempts'[c][i - 1].update
               /\ ~attempts'[c][i].alive
               /\ \A j \in 1..i : attempts'[c][j].update <= attempts'[c][i].update
    <3>1. /\ i # 1 => i - 1 \in 1..n
          /\ 1..i \subseteq 1..n
      BY <1>1
    <3> QED
      BY ZenonT(60), <1>4, <1>8, <1>10, <3>1 DEF Linked
  <2>2. attempts'[c][n + 1].from = IF n + 1 = 1 THEN 0 ELSE attempts'[c][n + 1 - 1].update
    <3>1. CASE n = 0
      BY <1>5, <1>13, <3>1
    <3>2. CASE n # 0
      <4>1. n + 1 # 1 /\ n + 1 - 1 = n /\ n \in 1..n
        BY <1>1, <3>2
      <4> QED
        BY <1>4, <1>5, <1>11, <3>2, <4>1
    <3> QED
      BY <3>1, <3>2
  <2>3. \A j \in 1..n + 1 : attempts'[c][j].update <= attempts'[c][n + 1].update
    BY <1>3, <1>4, <1>5, <1>6, <1>12
  <2> QED
    BY <1>4, <1>5, <1>6, <2>1, <2>2, <2>3 DEF Linked
<1> QED
  BY <1>2, <1>4, <1>5, <1>9, <1>12, <1>14

LEMMA LinkedStep ==
  ASSUME Base, TypeOK', WorkersAreSane, SessionsAreLinked, LiveAreAwaited, [Next]_vars
  PROVE  SessionsAreLinked'
<1> USE DEF Base
<1>t. \A c \in CellSet : /\ Len(attempts[c]) \in Nat
                         /\ \A i \in 1..Len(attempts[c]) : attempts[c][i] \in Worker
  BY SessionType DEF TypeOK, Sessions
<1>s. ASSUME NEW c \in CellSet, attempts'[c] = attempts[c]
      PROVE  (Linked(c) /\ TailIsIdle(c))'
  BY <1>s, SameLinks
<1>1. CASE attempts' = attempts
  BY <1>1, <1>s DEF SessionsAreLinked
<1>2. ASSUME NEW c \in CellSet, NEW n \in 1..Len(attempts[c]), NEW w \in Worker,
             Replaces(attempts, attempts', c, n, w),
             w.current = attempts[c][n].current, w.update = attempts[c][n].update,
             w.from = attempts[c][n].from,
             w.alive => attempts[c][n].alive \/ n = Len(attempts[c])
      PROVE  SessionsAreLinked'
  <2>1. ASSUME NEW d \in CellSet
        PROVE  (Linked(d) /\ TailIsIdle(d))'
    <3>1. /\ Len(attempts'[d]) = Len(attempts[d])
          /\ \A i \in 1..Len(attempts[d]) :
               /\ attempts'[d][i].current = attempts[d][i].current
               /\ attempts'[d][i].update = attempts[d][i].update
               /\ attempts'[d][i].from = attempts[d][i].from
               /\ attempts'[d][i].alive => attempts[d][i].alive \/ i = Len(attempts[d])
      BY <1>2 DEF Replaces
    <3> QED
      BY <3>1, SameLinks
  <2> QED
    BY <2>1 DEF SessionsAreLinked
<1>3. ASSUME NEW c \in CellSet, NEW n \in 1..Len(attempts[c]), NEW w \in Worker,
             Replaces(attempts, attempts', c, n, w), n = Len(attempts[c]),
             w.current, attempts[c][n].update <= w.update, w.from = attempts[c][n].from
      PROVE  SessionsAreLinked'
  <2>1. (Linked(c) /\ TailIsIdle(c))'
    BY <1>3, <1>t, LastLinks
  <2>2. ASSUME NEW d \in CellSet, d # c
        PROVE  (Linked(d) /\ TailIsIdle(d))'
    <3>1. /\ Len(attempts'[d]) = Len(attempts[d])
          /\ \A i \in 1..Len(attempts[d]) : attempts'[d][i] = attempts[d][i]
      BY <1>3, <2>2 DEF Replaces
    <3> QED
      BY <3>1, SameLinks
  <2> QED
    BY <2>1, <2>2 DEF SessionsAreLinked
<1>4. CASE PrepareAttempt /\ attempts' # attempts
  <2>1. PICK c \in CellSet : c = Cell /\ Prolongs(attempts, attempts', c, Unborn(StartUpdate(c)))
    BY <1>4, PrepareEffect, HereTypes DEF Site
  <2>2. (Linked(c) /\ TailIsIdle(c))'
    BY <1>4, <2>1, PreparedLinks
  <2>3. ASSUME NEW d \in CellSet, d # c
        PROVE  (Linked(d) /\ TailIsIdle(d))'
    <3>1. /\ Len(attempts'[d]) = Len(attempts[d])
          /\ \A i \in 1..Len(attempts[d]) : attempts'[d][i] = attempts[d][i]
      BY <2>1, <2>3 DEF Prolongs
    <3> QED
      BY <3>1, SameLinks
  <2> QED
    BY <2>2, <2>3 DEF SessionsAreLinked
<1>5. CASE PointAttempt
  <2>1. Cell \in CellSet /\ Len(attempts[Cell]) \in 1..Len(attempts[Cell]) /\ Attempt \in Worker
    BY <1>5, PointEffect, HereTypes DEF Launching
  <2>2. /\ [Attempt EXCEPT !.current = TRUE].current
        /\ Attempt.update <= [Attempt EXCEPT !.current = TRUE].update
        /\ [Attempt EXCEPT !.current = TRUE].from = Attempt.from
    BY <2>1 DEF Worker
  <2> QED
    BY <1>3, <1>5, <2>1, <2>2, PointEffect DEF AttemptBecomes, Attempt
<1>6. CASE SpawnAttempt
  <2>1. Cell \in CellSet /\ Len(attempts[Cell]) \in 1..Len(attempts[Cell]) /\ Attempt \in Worker
    BY <1>6, SpawnEffect, HereTypes DEF Launching
  <2>2. /\ Born(Attempt, controller.gen).current = Attempt.current
        /\ Born(Attempt, controller.gen).update = Attempt.update
        /\ Born(Attempt, controller.gen).from = Attempt.from
    BY <2>1 DEF Born, Worker
  <2> QED
    BY <1>2, <1>6, <2>1, <2>2, SpawnEffect DEF AttemptBecomes, Attempt
<1>7. CASE ForwardToAttempt \/ RecordAttempt
  <2>1. Cell \in CellSet /\ Len(attempts[Cell]) \in 1..Len(attempts[Cell]) /\ Attempt \in Worker
    BY <1>7, ForwardEffect, RecordEffect, HereTypes DEF Launching
  <2>2. \A w \in {[Attempt EXCEPT !.receipt = TRUE], Ordered(Attempt, controller.operation)} :
          /\ w.current = Attempt.current /\ w.update = Attempt.update
          /\ w.from = Attempt.from /\ w.alive = Attempt.alive
    BY <2>1 DEF Ordered, Worker
  <2> QED
    BY <1>1, <1>2, <1>7, <2>1, <2>2, ForwardEffect, RecordEffect DEF AttemptBecomes, Attempt
<1>8. CASE ValidateAttempt \/ SealAttempt
  <2>1. Cell \in CellSet
    BY <1>8, ValidateEffect, SealEffect, HereTypes
  <2>2. Checked \in Worker =>
          \A w \in {[Checked EXCEPT !.process = TRUE], [Checked EXCEPT !.sealed = TRUE]} :
            /\ w.current = Checked.current /\ w.update = Checked.update
            /\ w.from = Checked.from /\ w.alive = Checked.alive
    BY DEF Worker
  <2> QED
    BY <1>1, <1>2, <1>8, <2>1, <2>2, ValidateEffect, SealEffect DEF CheckedBecomes, Checked
<1>9. CASE LearnerStep \/ LearnerKilled
  <2>1. PICK c \in CellSet : \E i \in 1..Len(attempts[c]) : \E v \in Worker :
          /\ attempts[c][i].alive
          /\ Replaces(attempts, attempts', c, i, v)
          /\ Lived(attempts[c][i], v, Updates)
    BY <1>9, LearnerEffect DEF LearnerLives
  <2>2. PICK n \in 1..Len(attempts[c]) : \E v \in Worker :
          /\ attempts[c][n].alive
          /\ Replaces(attempts, attempts', c, n, v)
          /\ Lived(attempts[c][n], v, Updates)
    BY <2>1
  <2>3. PICK v \in Worker : /\ attempts[c][n].alive
                            /\ Replaces(attempts, attempts', c, n, v)
                            /\ Lived(attempts[c][n], v, Updates)
    BY <2>2
  <2>4. n = Len(attempts[c])
    BY <2>3 DEF SessionsAreLinked, Linked
  <2>5. attempts[c][n].current
    BY <2>3 DEF WorkersAreSane, SaneAttempt, Sane
  <2> QED
    BY <1>3, <2>3, <2>4, <2>5 DEF Lived, Kept
<1> QED
  BY Zenon, <1>1, <1>4, <1>5, <1>6, <1>7, <1>8, <1>9
  DEF vars, Next, FrontendStep, ControllerStep, StartSpawn, StartRegister, StartWrite,
      CommandCheck, CommandWrite, BoundaryRead, BoundaryDecide, WaitForResources, SelectCell,
      OpenCell, PollAttempt, ReportAttempt, JudgeTraining, NextSeed, OpenWindow, SpawnWindow,
      WatchWindow, ForwardToWindow, ReportWindow, RecordWindow, SealWindow, FinishSeed,
      ControllerFails, EvaluatorStep, ControllerKilled, FrontendKilled, EvaluatorKilled

LEMMA WindowsStayEnded ==
  ASSUME Base, WorkersAreSane, WorkerIsThere, [Next]_vars,
         NEW c \in CellSet, NEW s \in SeedSet, windows[c][s].at = "ended"
  PROVE  windows'[c][s].at = "ended"
<1> USE DEF Base
<1>1. CASE windows' = windows
  BY <1>1
<1>2. ASSUME NEW w, WindowBecomes(w), Window.at = "ended" => w.at = "ended"
      PROVE  windows'[c][s].at = "ended"
  BY <1>2 DEF WindowBecomes, PlacesWindow, Window
<1>3. CASE OpenWindow
  BY <1>1, <1>2, <1>3, OpenEffect
<1>4. CASE SpawnWindow
  BY <1>2, <1>4, SpawnWindowEffect DEF WorkerIsThere
<1>5. CASE ForwardToWindow \/ RecordWindow \/ SealWindow
  <2>1. Window \in Worker
    BY <1>5, TransmitEffect, ReceiveEffect, SealWindowEffect, HereTypes DEF Observing
  <2>2. \A w \in {[Window EXCEPT !.receipt = TRUE], [Window EXCEPT !.sealed = TRUE],
                  Ordered(Window, controller.operation)} : w.at = Window.at
    BY <2>1 DEF Ordered, Worker
  <2> QED
    BY <1>1, <1>2, <1>5, <2>2, TransmitEffect, ReceiveEffect, SealWindowEffect
<1>6. CASE EvaluatorStep \/ EvaluatorKilled
  <2>1. ~windows[c][s].alive
    BY DEF WorkersAreSane, SaneWindow, Sane
  <2> QED
    BY <1>6, <2>1, EvaluatorEffect, EvaluatorFrame
<1> QED
  BY Zenon, <1>1, <1>3, <1>4, <1>5, <1>6
  DEF vars, Next, FrontendStep, ControllerStep, StartSpawn, StartRegister, StartWrite,
      CommandCheck, CommandWrite, BoundaryRead, BoundaryDecide, WaitForResources, SelectCell,
      OpenCell, PrepareAttempt, PointAttempt, SpawnAttempt, PollAttempt, ForwardToAttempt,
      ReportAttempt, RecordAttempt, ValidateAttempt, SealAttempt, JudgeTraining, NextSeed,
      WatchWindow, ReportWindow, FinishSeed, ControllerFails, LearnerStep,
      ControllerKilled, FrontendKilled, LearnerKilled

(* Only PrepareAttempt makes an attempt, where its predecessor stopped short. *)
LEMMA OnlyPrepared ==
  ASSUME Base, WorkersAreSane, [Next]_vars,
         NEW c \in CellSet, Len(attempts'[c]) # Len(attempts[c])
  PROVE  PrepareAttempt /\ attempts' # attempts /\ c = Cell
<1> USE DEF Base
<1>1. PrepareAttempt /\ attempts' # attempts
  <2>1. CASE PointAttempt \/ SpawnAttempt \/ ForwardToAttempt \/ RecordAttempt
    BY <2>1, PointEffect, SpawnEffect, ForwardEffect, RecordEffect
    DEF AttemptBecomes, Replaces
  <2>2. CASE ValidateAttempt \/ SealAttempt
    BY <2>2, ValidateEffect, SealEffect DEF CheckedBecomes, Replaces
  <2>3. CASE LearnerStep \/ LearnerKilled
    BY <2>3, LearnerEffect, LearnerFrame
  <2>4. attempts' # attempts
    OBVIOUS
  <2> QED
    BY Zenon, <2>1, <2>2, <2>3, <2>4
    DEF vars, Next, FrontendStep, ControllerStep, StartSpawn, StartRegister, StartWrite,
        CommandCheck, CommandWrite, BoundaryRead, BoundaryDecide, WaitForResources, SelectCell,
        OpenCell, PollAttempt, ReportAttempt, JudgeTraining, NextSeed, OpenWindow, SpawnWindow,
        WatchWindow, ForwardToWindow, ReportWindow, RecordWindow, SealWindow, FinishSeed,
        ControllerFails, EvaluatorStep, ControllerKilled, FrontendKilled, EvaluatorKilled
<1>2. Prolongs(attempts, attempts', Cell, Unborn(StartUpdate(Cell)))
  BY <1>1, PrepareEffect
<1> QED
  BY <1>1, <1>2 DEF Prolongs

LEMMA AttemptsGoOn ==
  ASSUME Base, TypeOK', WorkersAreSane, SessionsAreLinked, LiveAreAwaited, [Next]_vars,
         NEW c \in CellSet, NEW i \in 1..Len(attempts'[c]), i \notin 1..Len(attempts[c]),
         NEW j \in 1..Len(attempts[c])
  PROVE  attempts[c][j].update <= attempts'[c][i].from /\ attempts[c][j].update # Updates
<1> USE DEF Base
<1>1. /\ Len(attempts[c]) \in Nat /\ attempts[c][j] \in Worker
      /\ \A k \in 1..Len(attempts[c]) : attempts[c][k] \in Worker
  BY SessionType DEF TypeOK, Sessions
<1>2. Len(attempts'[c]) # Len(attempts[c])
  OBVIOUS
<1>3. PrepareAttempt /\ attempts' # attempts /\ c = Cell
  BY <1>2, OnlyPrepared
<1>5. /\ Len(attempts'[c]) = Len(attempts[c]) + 1
      /\ attempts'[c][Len(attempts[c]) + 1].from = StartUpdate(c)
      /\ attempts[c][j].update <= StartUpdate(c)
      /\ Resumable(c)
  BY <1>3, PreparedLinks
<1>6. i = Len(attempts[c]) + 1
  BY <1>1, <1>5
<1>7. StartUpdate(c) < Updates
  <2>1. CASE CurrentAttempt(c) = 0
    BY <2>1, PlanType DEF StartUpdate
  <2>2. CASE CurrentAttempt(c) # 0
    <3>1. CurrentAttempt(c) \in 1..Len(attempts[c])
      BY <2>2, StartType DEF LastPointed
    <3> DEFINE v == attempts[c][CurrentAttempt(c)]
    <3>2. v \in Worker /\ v.result = "stopped" /\ StartUpdate(c) = v.update
      BY <1>1, <1>5, <2>2, <3>1 DEF Resumable, StartUpdate
    <3>3. Sane(v, Updates)
      BY <3>1 DEF WorkersAreSane, SaneAttempt
    <3> HIDE DEF v
    <3>4. v.update <= Updates /\ v.update # Updates /\ v.update \in Nat
      BY <3>2, <3>3 DEF Sane, Worker
    <3> QED
      BY <3>2, <3>4, PlanType
  <2> QED
    BY <2>1, <2>2
<1>8. attempts[c][j].update \in Nat /\ StartUpdate(c) \in Nat
  BY <1>1, StartType DEF Worker
<1> QED
  BY SMTT(30), <1>5, <1>6, <1>7, <1>8, PlanType

------------------------------------------------------------------------------
(* The results rest on evidence *)

(* What was sealed stays sealed, and was finished.                          *)
LEMMA SealsStay ==
  ASSUME Base, WorkersAreSane, WorkerIsThere, [Next]_vars
  PROVE  /\ \A c \in CellSet, s \in SeedSet : windows[c][s].sealed => windows'[c][s].sealed
         /\ \A c \in CellSet : \A i \in 1..Len(attempts[c]) : attempts[c][i].sealed =>
              attempts'[c][i].sealed /\ attempts'[c][i].update = attempts[c][i].update
<1> USE DEF Base
<1>1. ASSUME NEW c \in CellSet, NEW s \in SeedSet, windows[c][s].sealed
      PROVE  windows'[c][s].sealed
  <2>1. CASE windows' = windows
    BY <1>1, <2>1
  <2>2. ASSUME NEW w, WindowBecomes(w), Window.sealed => w.sealed
        PROVE  windows'[c][s].sealed
    BY <1>1, <2>2 DEF WindowBecomes, PlacesWindow, Window
  <2>3. CASE OpenWindow
    <3>1. Window \in Worker /\ SaneWindow(Window)
      BY <2>3, OpenEffect, HereTypes DEF WorkersAreSane, Window, Observing
    <3>2. Window.at = "absent" => ~Window.sealed
      BY <3>1 DEF SaneWindow, Sane
    <3> QED
      BY <2>1, <2>2, <2>3, <3>2, OpenEffect
  <2>4. CASE SpawnWindow \/ ForwardToWindow \/ RecordWindow \/ SealWindow
    <3>1. Window \in Worker
      BY <2>4, SpawnWindowEffect, TransmitEffect, ReceiveEffect, SealWindowEffect, HereTypes
      DEF Observing
    <3>2. \A w \in {[Window EXCEPT !.receipt = TRUE], [Window EXCEPT !.sealed = TRUE],
                    Ordered(Window, controller.operation), Born(Window, controller.gen)} :
            Window.sealed => w.sealed
      BY Zenon, <3>1 DEF Ordered, Born, Worker
    <3> QED
      BY <2>1, <2>2, <2>4, <3>2, SpawnWindowEffect, TransmitEffect, ReceiveEffect,
         SealWindowEffect
  <2>5. CASE EvaluatorStep \/ EvaluatorKilled
    BY <1>1, <2>5, EvaluatorEffect, EvaluatorFrame DEF Lived, Kept
  <2> QED
    BY Zenon, <2>1, <2>3, <2>4, <2>5
    DEF vars, Next, FrontendStep, ControllerStep, StartSpawn, StartRegister, StartWrite,
        CommandCheck, CommandWrite, BoundaryRead, BoundaryDecide, WaitForResources, SelectCell,
        OpenCell, PrepareAttempt, PointAttempt, SpawnAttempt, PollAttempt, ForwardToAttempt,
        ReportAttempt, RecordAttempt, ValidateAttempt, SealAttempt, JudgeTraining, NextSeed,
        WatchWindow, ReportWindow, FinishSeed, ControllerFails, LearnerStep,
        ControllerKilled, FrontendKilled, LearnerKilled
<1>2. ASSUME NEW c \in CellSet, NEW i \in 1..Len(attempts[c]), attempts[c][i].sealed
      PROVE  attempts'[c][i].sealed /\ attempts'[c][i].update = attempts[c][i].update
  <2>1. CASE attempts' = attempts
    BY <1>2, <2>1
  <2>2. ASSUME NEW d \in CellSet, NEW n \in 1..Len(attempts[d]), NEW w,
               Replaces(attempts, attempts', d, n, w), attempts[d][n].sealed => w.sealed,
               w.update = attempts[d][n].update
        PROVE  attempts'[c][i].sealed /\ attempts'[c][i].update = attempts[c][i].update
    BY <1>2, <2>2 DEF Replaces
  <2>3. CASE PrepareAttempt
    BY <1>2, <2>1, <2>3, PrepareEffect DEF Prolongs
  <2>4. CASE PointAttempt \/ SpawnAttempt \/ ForwardToAttempt \/ RecordAttempt
    <3>1. Cell \in CellSet /\ Len(attempts[Cell]) \in 1..Len(attempts[Cell]) /\ Attempt \in Worker
      BY <2>4, PointEffect, SpawnEffect, ForwardEffect, RecordEffect, HereTypes DEF Launching
    <3>2. \A w \in {[Attempt EXCEPT !.current = TRUE], [Attempt EXCEPT !.receipt = TRUE],
                    Ordered(Attempt, controller.operation), Born(Attempt, controller.gen)} :
            (Attempt.sealed => w.sealed) /\ w.update = Attempt.update
      BY <3>1 DEF Ordered, Born, Worker
    <3> QED
      BY <2>1, <2>2, <2>4, <3>1, <3>2, PointEffect, SpawnEffect, ForwardEffect, RecordEffect
      DEF AttemptBecomes, Attempt
  <2>5. CASE ValidateAttempt \/ SealAttempt
    <3>1. Cell \in CellSet
      BY <2>5, ValidateEffect, SealEffect, HereTypes
    <3>2. Checked \in Worker =>
            \A w \in {[Checked EXCEPT !.process = TRUE], [Checked EXCEPT !.sealed = TRUE]} :
              (Checked.sealed => w.sealed) /\ w.update = Checked.update
      BY DEF Worker
    <3> QED
      BY <2>1, <2>2, <2>5, <3>1, <3>2, ValidateEffect, SealEffect DEF CheckedBecomes, Checked
  <2>6. CASE LearnerStep \/ LearnerKilled
    <3>1. ~attempts[c][i].alive
      BY <1>2 DEF WorkersAreSane, SaneAttempt, Sane
    <3> QED
      BY <1>2, <2>6, <3>1, LearnerEffect, LearnerFrame
  <2> QED
    BY Zenon, <2>1, <2>3, <2>4, <2>5, <2>6
    DEF vars, Next, FrontendStep, ControllerStep, StartSpawn, StartRegister, StartWrite,
        CommandCheck, CommandWrite, BoundaryRead, BoundaryDecide, WaitForResources, SelectCell,
        OpenCell, PollAttempt, ReportAttempt, JudgeTraining, NextSeed, OpenWindow, SpawnWindow,
        WatchWindow, ForwardToWindow, ReportWindow, RecordWindow, SealWindow, FinishSeed,
        ControllerFails, EvaluatorStep, ControllerKilled, FrontendKilled, EvaluatorKilled
<1> QED
  BY <1>1, <1>2

(* A cell that finished its updates is never launched again.                *)
LEMMA TrainedIsCompleted ==
  ASSUME Base, WorkersAreSane, NEW c \in CellSet, Trained(c)
  PROVE  SessionPhase(c) = "completed"
<1> USE DEF Base
<1> DEFINE n == Len(attempts[c])
           w == attempts[c][n]
<1>1. n \in 1..n /\ n \in Nat /\ w \in Worker
  BY SessionType DEF TypeOK, Sessions, Trained
<1>2. w.sealed /\ w.update = Updates /\ SaneAttempt(w)
  BY <1>1 DEF Trained, WorkersAreSane
<1>3. w.receipt /\ w.code = "0" /\ w.result = "completed" /\ w.current
  BY <1>2 DEF SaneAttempt, Sane
<1>4. LastPointed(c, n)
  BY <1>1, <1>3 DEF LastPointed
<1>5. CurrentAttempt(c) = n /\ n # 0
  BY <1>1, <1>4, CurrentFound
<1> QED
  BY <1>3, <1>5 DEF SessionPhase

LEMMA BackedStep ==
  ASSUME Base, TypeOK', WorkersAreSane, WorkerIsThere, Evidence, [Next]_vars
  PROVE  Backed'
<1> USE DEF Base
<1>1. ASSUME NEW c \in CellSet, Trained(c), ~(PrepareAttempt /\ c = Cell)
      PROVE  Trained(c)'
  <2>1. Len(attempts'[c]) = Len(attempts[c])
    BY <1>1, OnlyPrepared
  <2>2. /\ Len(attempts[c]) \in 1..Len(attempts[c])
        /\ attempts'[c] # <<>> <=> Len(attempts'[c]) # 0
    BY <1>1, SessionType DEF TypeOK, Sessions, Trained
  <2> QED
    BY <1>1, <2>1, <2>2, SealsStay DEF Trained
<1>2. PrepareAttempt => results[Cell].status \notin {"evaluating", "completed"}
  <2>1. PrepareAttempt => controller.alive /\ Site = "launch"
    BY DEF PrepareAttempt, At, Site
  <2> QED
    BY <2>1 DEF Evidence, Followed, Launching
<1>3. \A c \in CellSet : results[c].status \in {"evaluating", "completed"} => Trained(c)'
  BY <1>1, <1>2 DEF Evidence, Backed
<1>4. \A c \in CellSet, s \in SeedSet : results[c].development[s] => windows'[c][s].sealed
  BY SealsStay DEF Evidence, Backed
<1>5. CASE results' = results
  BY <1>3, <1>4, <1>5 DEF Evidence, Backed
<1>6. CASE OpenCell
  <2>1. \A c \in CellSet :
          /\ results'[c].development = results[c].development
          /\ results'[c].status \in {"evaluating", "completed"} =>
               results'[c].status = results[c].status
    BY <1>6 DEF OpenCell, TypeOK, Rows
  <2> QED
    BY <1>3, <1>4, <2>1 DEF Evidence, Backed
<1>7. CASE JudgeTraining /\ results' # results
  <2>1. controller.alive /\ Site = "judge" /\ Cell \in CellSet
    BY <1>7, HereTypes DEF JudgeTraining, At, Site
  <2>2. /\ results' = [results EXCEPT ![Cell].status = "evaluating"]
        /\ Attempt.update = Updates /\ attempts' = attempts
    BY <1>7 DEF JudgeTraining
  <2>3. Trained(Cell)
    BY <2>1, <2>2 DEF Situated, Judging, Evidence, Followed, Trained, Attempt
  <2>4. ~PrepareAttempt
    BY <1>7 DEF PrepareAttempt, JudgeTraining, At
  <2>5. \A c \in CellSet : /\ results'[c].development = results[c].development
                           /\ results'[c].status = IF c = Cell THEN "evaluating"
                                                   ELSE results[c].status
    BY <2>1, <2>2 DEF TypeOK, Rows
  <2>6. \A c \in CellSet : c = Cell => Trained(c)'
    BY <1>1, <2>3, <2>4
  <2> QED
    BY <1>3, <1>4, <2>5, <2>6 DEF Evidence, Backed
<1>8. CASE NextSeed /\ results' # results
  <2>1. controller.alive /\ Site = "seeds" /\ Cell \in CellSet
    BY <1>8, HereTypes DEF NextSeed, At, Site
  <2>2. /\ results' = [results EXCEPT ![Cell].status = "completed"]
        /\ controller.seed > Len(Seeds)
    BY <1>8 DEF NextSeed
  <2>3. /\ results[Cell].status = "evaluating"
        /\ \A s \in SeedSet : results[Cell].development[s]
    <3>1. \A k \in 1..Len(Seeds) : k < controller.seed
      <4>1. controller.seed \in Nat /\ Len(Seeds) \in Nat
        BY PlanType DEF TypeOK, Controllers
      <4> QED
        BY <2>2, <4>1
    <3> QED
      BY <2>1, <3>1, PlanType DEF Evidence, Followed
  <2>4. \A c \in CellSet : /\ results'[c].development = results[c].development
                           /\ results'[c].status = IF c = Cell THEN "completed"
                                                   ELSE results[c].status
    BY <2>1, <2>2 DEF TypeOK, Rows
  <2> QED
    BY <1>3, <1>4, <2>1, <2>3, <2>4 DEF Evidence, Backed
<1>9. CASE FinishSeed
  <2>1. controller.alive /\ Site = "develop" /\ Cell \in CellSet /\ Seed \in SeedSet
    BY <1>9, HereTypes DEF FinishSeed, At, Site, Observing
  <2>2. results' = [results EXCEPT ![Cell].development[Seed] = TRUE] /\ windows' = windows
    BY <1>9 DEF FinishSeed
  <2>3. \A c \in CellSet :
          /\ results'[c].status = results[c].status
          /\ \A s \in SeedSet :
               results'[c].development[s] => results[c].development[s] \/ (c = Cell /\ s = Seed)
          /\ \A s \in SeedSet : results[c].development[s] => results'[c].development[s]
    <3>1. \A c \in CellSet : results[c] \in Rows
      BY DEF TypeOK
    <3>2. \A c \in CellSet :
            /\ c # Cell => results'[c] = results[c]
            /\ c = Cell => results'[c] = [results[c] EXCEPT !.development[Seed] = TRUE]
      BY <2>1, <2>2 DEF TypeOK
    <3>3. ASSUME NEW row \in Rows, NEW s \in SeedSet
          PROVE  /\ [row EXCEPT !.development[Seed] = TRUE].status = row.status
                 /\ [row EXCEPT !.development[Seed] = TRUE].development[s]
                      = IF s = Seed THEN TRUE ELSE row.development[s]
      BY <2>1 DEF Rows
    <3>4. ASSUME NEW row \in Rows
          PROVE  [row EXCEPT !.development[Seed] = TRUE].status = row.status
      BY DEF Rows
    <3>5. ASSUME NEW c \in CellSet
          PROVE  /\ results'[c].status = results[c].status
                 /\ \A s \in SeedSet : results'[c].development[s] =>
                      results[c].development[s] \/ (c = Cell /\ s = Seed)
                 /\ \A s \in SeedSet :
                      results[c].development[s] => results'[c].development[s]
      <4>1. CASE c # Cell
        BY <3>2, <4>1
      <4>2. CASE c = Cell
        <5>1. results[c] \in Rows /\ results'[c] = [results[c] EXCEPT !.development[Seed] = TRUE]
          BY <3>1, <3>2, <4>2
        <5> QED
          BY <3>3, <3>4, <4>2, <5>1
      <4> QED
        BY <4>1, <4>2
    <3> QED
      BY <3>5
  <2>4. windows'[Cell][Seed].sealed
    BY <2>1, <2>2 DEF WorkerIsThere, Window
  <2>5. \A c \in CellSet, s \in SeedSet : results'[c].development[s] => windows'[c][s].sealed
    BY <1>4, <2>3, <2>4
  <2>6. \A c \in CellSet : results'[c].status \in {"evaluating", "completed"} => Trained(c)'
    BY <1>3, <2>3
  <2>7. \A c \in CellSet : results'[c].status = "completed" =>
          \A s \in SeedSet : results'[c].development[s]
    BY <2>3 DEF Evidence, Backed
  <2> QED
    BY <2>5, <2>6, <2>7 DEF Backed
<1> QED
  BY Zenon, <1>5, <1>6, <1>7, <1>8, <1>9
  DEF vars, Next, FrontendStep, ControllerStep, StartSpawn, StartRegister, StartWrite,
      CommandCheck, CommandWrite, BoundaryRead, BoundaryDecide, WaitForResources, SelectCell,
      PrepareAttempt, PointAttempt, SpawnAttempt, PollAttempt, ForwardToAttempt,
      ReportAttempt, RecordAttempt, ValidateAttempt, SealAttempt, OpenWindow, SpawnWindow,
      WatchWindow, ForwardToWindow, ReportWindow, RecordWindow, SealWindow,
      ControllerFails, LearnerStep, EvaluatorStep,
      ControllerKilled, FrontendKilled, LearnerKilled, EvaluatorKilled

(* The controller goes on about the same cell and seed, and judges nothing. *)
LEMMA FollowedOn ==
  ASSUME Followed, controller.alive, Cell' = Cell, results' = results,
         controller'.seed = controller.seed, Site' \notin Judging,
         Site' \in Launching => Site \in Launching,
         Site' \in Observing \cup {"seeds"} => Site \in Observing \cup {"seeds"}
  PROVE  Followed'
  BY DEF Followed, Judging

LEMMA FollowedStep ==
  ASSUME Base, WorkersAreSane, WorkerIsThere, Evidence, [Next]_vars
  PROVE  Followed'
<1> USE DEF Base
<1> DEFINE cell == controller.cell
           seed == controller.seed
           index == controller.index
           Stays(site) == Arrives(site, cell, seed, index)
           Tracked == Launching \cup Judging \cup Observing \cup {"seeds"}
<1>f. Followed /\ Backed
  BY DEF Evidence
<1>s. ASSUME NEW site, NEW s, NEW i, Arrives(site, cell, s, i)
      PROVE  Site' = site /\ Cell' = Cell /\ controller'.seed = s /\ controller'.index = i
  BY <1>s DEF Arrives, Cell
<1>z. ASSUME controller'.alive => Site' \notin Tracked
      PROVE  Followed'
  BY <1>z DEF Followed, Launching, Judging, Observing
<1>m. ASSUME controller.alive, results' = results,
             NEW site, Stays(site), site \notin Judging,
             site \in Launching => Site \in Launching,
             site \in Observing \cup {"seeds"} => Site \in Observing \cup {"seeds"}
      PROVE  Followed'
  <2>1. Site' = site /\ Cell' = Cell /\ controller'.seed = seed
    BY <1>s, <1>m
  <2> QED
    BY <1>f, <1>m, <2>1, FollowedOn
<1>t. /\ index \in Nat /\ seed \in Nat
      /\ Cell \in CellSet => Len(attempts[Cell]) \in Nat
  BY SessionType DEF TypeOK, Controllers, Sessions
<1>1. CASE PrepareAttempt \/ PointAttempt \/ SpawnAttempt \/ PollAttempt \/ ForwardToAttempt \/
           ReportAttempt
  <2>1. controller.alive /\ Site \in Launching /\ results' = results
    BY <1>1 DEF PrepareAttempt, PointAttempt, SpawnAttempt, PollAttempt, ForwardToAttempt,
       ReportAttempt, At, Site, Launching
  <2>2. \E site \in (Launching \ {"launch"}) \cup {"fail"} : Goto(site) \/ ReadRequest(site)
    BY <1>1 DEF PrepareAttempt, PointAttempt, SpawnAttempt, PollAttempt, ForwardToAttempt,
       ReportAttempt, Launching
  <2>3. PICK site \in (Launching \ {"launch"}) \cup {"fail"} : Goto(site) \/ ReadRequest(site)
    BY <2>2
  <2>4. Stays(site)
    BY Zenon, <2>1, <2>3, Arrivals DEF Sites, Launching
  <2> QED
    BY <1>m, <2>1, <2>4 DEF Launching, Judging, Observing
<1>2. CASE OpenWindow \/ SpawnWindow \/ WatchWindow \/ ForwardToWindow \/ ReportWindow \/
           RecordWindow \/ SealWindow
  <2>1. controller.alive /\ Site \in Observing /\ results' = results
    BY <1>2 DEF OpenWindow, SpawnWindow, WatchWindow, ForwardToWindow, ReportWindow,
       RecordWindow, SealWindow, At, Site, Observing
  <2>2. \E site \in Observing \cup {"fail"} : Goto(site) \/ ReadRequest(site)
    BY <1>2 DEF OpenWindow, SpawnWindow, WatchWindow, ForwardToWindow, ReportWindow,
       RecordWindow, SealWindow, Observing
  <2>3. PICK site \in Observing \cup {"fail"} : Goto(site) \/ ReadRequest(site)
    BY <2>2
  <2>4. Stays(site)
    BY Zenon, <2>1, <2>3, Arrivals DEF Sites, Observing
  <2> QED
    BY <1>m, <2>1, <2>4 DEF Launching, Judging, Observing
<1>3. CASE RecordAttempt
  <2>1. controller.alive /\ Arrives("validate", cell, seed, 1)
    BY Zenon, <1>3, RecordEffect, Arrivals DEF Sites
  <2>2. Site' = "validate" /\ controller'.index = 1
    BY <1>s, <2>1
  <2> QED
    BY <2>2 DEF Followed, Launching, Observing
<1>4. CASE ValidateAttempt
  <2>1. controller.alive /\ Site = "validate" /\ Cell \in CellSet
    BY <1>4, ValidateEffect, HereTypes
  <2>2. \A i \in 1..Len(attempts[Cell]) : i < index => attempts[Cell][i].sealed
    BY <1>f, <2>1 DEF Followed
  <2>3. CASE index > Len(attempts[Cell]) /\ attempts' = attempts /\ Goto("judge")
    <3>1. Stays("judge")
      BY Zenon, <2>1, <2>3, Arrivals DEF Sites
    <3>2. Site' = "judge" /\ Cell' = Cell
      BY <1>s, <3>1
    <3>3. \A i \in 1..Len(attempts[Cell]) : attempts[Cell][i].sealed
      BY <1>t, <2>1, <2>2, <2>3
    <3> QED
      BY <2>3, <3>2, <3>3 DEF Followed, Launching, Observing
  <2>4. CASE /\ Checked.sealed /\ attempts' = attempts
             /\ controller' = [controller EXCEPT !.index = @ + 1]
    <3>1. Arrives("validate", cell, seed, index + 1)
      BY Zenon, <2>1, <2>4, Arrivals DEF Sites
    <3>2. Site' = "validate" /\ Cell' = Cell /\ controller'.index = index + 1
      BY <1>s, <3>1
    <3>3. \A i \in 1..Len(attempts[Cell]) : i < index + 1 => attempts[Cell][i].sealed
      BY <1>t, <2>1, <2>2, <2>4 DEF Checked
    <3> QED
      BY <2>4, <3>2, <3>3 DEF Followed, Launching, Observing
  <2>5. CASE /\ CheckedBecomes([Checked EXCEPT !.process = TRUE])
             /\ controller' = [controller EXCEPT !.pc = "verify"]
    <3>1. Stays("verify")
      BY Zenon, <2>1, <2>5, Arrivals DEF Sites
    <3>2. Site' = "verify" /\ Cell' = Cell /\ controller'.index = index
      BY <1>s, <3>1
    <3>3. Len(attempts'[Cell]) = Len(attempts[Cell])
      BY <2>1, <2>5 DEF CheckedBecomes, Replaces
    <3>4. \A i \in 1..Len(attempts'[Cell]) : i < index => attempts'[Cell][i].sealed
      BY <2>1, <2>2, <3>3, SealsStay
    <3> QED
      BY <3>2, <3>4 DEF Followed, Launching, Observing
  <2>6. CASE controller' = [controller EXCEPT !.pc = "fail"]
    <3>1. Stays("fail")
      BY Zenon, <2>1, <2>6, Arrivals DEF Sites
    <3>2. Site' = "fail"
      BY <1>s, <3>1
    <3> QED
      BY <1>z, <3>2 DEF Launching, Judging, Observing
  <2> QED
    BY <1>4, <2>3, <2>4, <2>5, <2>6, ValidateEffect DEF Goto
<1>5. CASE SealAttempt
  <2>1. controller.alive /\ Site = "verify" /\ Cell \in CellSet
    BY <1>5, SealEffect, HereTypes
  <2>2. CASE /\ CheckedBecomes([Checked EXCEPT !.sealed = TRUE]) /\ Checked \in Worker
             /\ index \in 1..Len(attempts[Cell])
             /\ controller' = [controller EXCEPT !.pc = "validate", !.index = @ + 1]
    <3>1. Arrives("validate", cell, seed, index + 1)
      BY Zenon, <2>1, <2>2, Arrivals DEF Sites
    <3>2. Site' = "validate" /\ Cell' = Cell /\ controller'.index = index + 1
      BY <1>s, <3>1
    <3>3. /\ Len(attempts'[Cell]) = Len(attempts[Cell])
          /\ attempts'[Cell][index] = [Checked EXCEPT !.sealed = TRUE]
      BY <2>1, <2>2 DEF CheckedBecomes, Replaces
    <3>4. attempts'[Cell][index].sealed
      BY <2>2, <3>3 DEF Worker
    <3>5. \A i \in 1..Len(attempts[Cell]) : i < index => attempts[Cell][i].sealed
      BY <1>f, <2>1 DEF Followed
    <3>6. \A i \in 1..Len(attempts[Cell]) : i < index + 1 => i < index \/ i = index
      BY <1>t
    <3>7. \A i \in 1..Len(attempts'[Cell]) : i < index + 1 => attempts'[Cell][i].sealed
      BY <2>1, <3>3, <3>4, <3>5, <3>6, SealsStay
    <3> QED
      BY <3>2, <3>7 DEF Followed, Launching, Observing
  <2>3. CASE controller' = [controller EXCEPT !.pc = "fail"]
    <3>1. Stays("fail")
      BY Zenon, <2>1, <2>3, Arrivals DEF Sites
    <3>2. Site' = "fail"
      BY <1>s, <3>1
    <3> QED
      BY <1>z, <3>2 DEF Launching, Judging, Observing
  <2> QED
    BY <1>5, <2>2, <2>3, SealEffect
<1>6. CASE JudgeTraining
  <2>1. controller.alive /\ Cell \in CellSet
    BY <1>6, HereTypes DEF JudgeTraining, At, Site
  <2>2. CASE /\ results' = [results EXCEPT ![Cell].status = "evaluating"]
             /\ controller' = [controller EXCEPT !.pc = "seeds", !.seed = 1]
    <3>1. Arrives("seeds", cell, 1, index)
      BY Zenon, <2>1, <2>2, Arrivals DEF Sites
    <3>2. Site' = "seeds" /\ Cell' = Cell /\ controller'.seed = 1
      BY <1>s, <3>1
    <3>3. results'[Cell].status = "evaluating"
      BY <2>1, <2>2 DEF TypeOK, Rows
    <3> QED
      BY <3>2, <3>3 DEF Followed, Launching, Judging
  <2>3. CASE Exits
    BY <1>z, <2>3, Gone
  <2>4. CASE Goto("fail")
    <3>1. Stays("fail")
      BY Zenon, <2>1, <2>4, Arrivals DEF Sites
    <3>2. Site' = "fail"
      BY <1>s, <3>1
    <3> QED
      BY <1>z, <3>2 DEF Launching, Judging, Observing
  <2> QED
    BY <1>6, <2>2, <2>3, <2>4 DEF JudgeTraining
<1>7. CASE NextSeed
  <2>1. controller.alive /\ Site = "seeds" /\ Cell \in CellSet
    BY <1>7, HereTypes DEF NextSeed, At, Site
  <2>2. CASE controller' = [controller EXCEPT !.pc = "select", !.cell = @ + 1]
    <3>1. Arrives("select", cell + 1, seed, index)
      BY Zenon, <2>1, <2>2, Arrivals DEF Sites
    <3>2. Site' = "select"
      BY <3>1 DEF Arrives
    <3> QED
      BY <1>z, <3>2 DEF Launching, Judging, Observing
  <2>3. CASE /\ results' = results /\ results[Cell].development[Seed]
             /\ controller' = [controller EXCEPT !.seed = @ + 1]
    <3>1. Arrives("seeds", cell, seed + 1, index)
      BY Zenon, <2>1, <2>3, Arrivals DEF Sites
    <3>2. Site' = "seeds" /\ Cell' = Cell /\ controller'.seed = seed + 1
      BY <1>s, <3>1
    <3>3. results[Cell].status = "evaluating"
      BY <1>f, <2>1 DEF Followed
    <3>4. \A k \in 1..Len(Seeds) : k < seed + 1 => results[Cell].development[Seeds[k]]
      <4>1. \A k \in 1..Len(Seeds) : k < seed + 1 => k < seed \/ k = seed
        BY <1>t, PlanType
      <4> QED
        BY <1>f, <2>1, <2>3, <4>1 DEF Followed, Seed
    <3> QED
      BY <2>3, <3>2, <3>3, <3>4 DEF Followed, Launching, Judging
  <2>4. CASE BoundaryThen("evaluate") /\ results' = results
    <3>1. Stays("evaluate")
      BY Zenon, <2>1, <2>4, Arrivals DEF Sites
    <3> QED
      BY <1>m, <2>1, <2>4, <3>1 DEF Launching, Judging, Observing
  <2> QED
    BY <1>7, <2>2, <2>3, <2>4 DEF NextSeed
<1>8. CASE FinishSeed
  <2>1. controller.alive /\ Site = "develop" /\ Cell \in CellSet /\ Seed \in SeedSet
    BY <1>8, HereTypes DEF FinishSeed, At, Site, Observing
  <2>2. Arrives("seeds", cell, seed + 1, index)
    BY Zenon, <1>8, <2>1, Arrivals DEF FinishSeed, Sites
  <2>3. Site' = "seeds" /\ Cell' = Cell /\ controller'.seed = seed + 1
    BY <1>s, <2>2
  <2> DEFINE row == results[Cell]
  <2>4. /\ row \in Rows
        /\ results'[Cell] = [row EXCEPT !.development[Seed] = TRUE]
    BY <1>8, <2>1 DEF FinishSeed, TypeOK
  <2>5. /\ row.status = "evaluating"
        /\ \A k \in 1..Len(Seeds) : k < seed => row.development[Seeds[k]]
    BY <1>f, <2>1 DEF Followed, Observing
  <2> HIDE DEF row
  <2>6. /\ results'[Cell].status = "evaluating"
        /\ \A s \in SeedSet : results'[Cell].development[s]
             = IF s = Seed THEN TRUE ELSE row.development[s]
    <3>1. [row EXCEPT !.development[Seed] = TRUE].status = row.status
      BY <2>4 DEF Rows
    <3>2. \A s \in SeedSet : [row EXCEPT !.development[Seed] = TRUE].development[s]
                                = IF s = Seed THEN TRUE ELSE row.development[s]
      BY <2>1, <2>4 DEF Rows
    <3> QED
      BY <2>4, <2>5, <3>1, <3>2
  <2>7. \A k \in 1..Len(Seeds) : k < seed + 1 => k < seed \/ k = seed
    BY <1>t, PlanType
  <2>8. \A k \in 1..Len(Seeds) : k < seed + 1 => results'[Cell].development[Seeds[k]]
    BY <2>5, <2>6, <2>7, PlanType DEF Seed
  <2> QED
    BY <2>3, <2>6, <2>8 DEF Followed, Launching, Judging
<1>9. CASE OpenCell
  <2>1. controller.alive /\ Site = "open" /\ Cell \in CellSet
    BY <1>9, HereTypes DEF OpenCell, At, Site
  <2>2. CASE SessionPhase(Cell) = "completed"
    <3>1. Arrives("validate", cell, seed, 1)
      BY Zenon, <1>9, <2>1, <2>2, Arrivals DEF OpenCell, Sites
    <3>2. Site' = "validate" /\ controller'.index = 1
      BY <1>s, <3>1
    <3> QED
      BY <3>2 DEF Followed, Launching, Observing
  <2>3. CASE SessionPhase(Cell) # "completed"
    <3>1. Stays("launch")
      BY Zenon, <1>9, <2>1, <2>3, Arrivals DEF OpenCell, Sites
    <3>2. Site' = "launch" /\ Cell' = Cell
      BY <1>s, <3>1
    <3>3. results[Cell].status \notin {"evaluating", "completed"}
      BY <1>f, <2>1, <2>3, TrainedIsCompleted DEF Backed
    <3>4. results'[Cell].status \in {"training", results[Cell].status}
      BY <1>9, <2>1 DEF OpenCell, TypeOK, Rows
    <3> QED
      BY <3>2, <3>3, <3>4 DEF Followed, Judging, Observing
  <2> QED
    BY <2>2, <2>3
<1>10. CASE WaitForResources \/ SelectCell \/ StartSpawn
  <2>1. controller'.alive => Site' \in {"select", "resources", "open"}
    BY ZenonT(60), <1>10
    DEF WaitForResources, SelectCell, StartSpawn, Goto, BoundaryThen, Exits, Nobody, Site, At,
        TypeOK, Controllers
  <2> QED
    BY <1>z, <2>1 DEF Launching, Judging, Observing
<1>11. CASE ControllerFails \/ ControllerKilled
  BY <1>11, <1>z, Gone DEF ControllerFails, ControllerKilled
<1>12. ASSUME results' = results, controller.alive, ~PrepareAttempt,
              Site' = Site, Cell' = Cell, controller'.seed = seed, controller'.index = index
       PROVE  Followed'
  <2>1. CASE Site \in Judging
    <3>1. Cell \in CellSet
      BY <1>12, <2>1, HereTypes DEF Judging
    <3>2. Len(attempts'[Cell]) = Len(attempts[Cell])
      BY <1>12, <3>1, OnlyPrepared
    <3> QED
      BY <1>f, <1>12, <2>1, <3>1, <3>2, SealsStay DEF Followed, Launching, Judging, Observing
  <2>2. CASE Site \notin Judging
    BY <1>f, <1>12, <2>2, FollowedOn
  <2> QED
    BY <2>1, <2>2
<1>13. CASE BoundaryRead \/ BoundaryDecide
  <2>1. controller.alive /\ Site = controller.then /\ Site \in Sites /\ results' = results
    BY <1>13 DEF BoundaryRead, BoundaryDecide, At, Site, Situated
  <2>2. CASE controller'.alive
    <3>1. /\ Site' = Site /\ Cell' = Cell /\ controller'.seed = seed /\ controller'.index = index
      BY ZenonT(60), <1>13, <2>1, <2>2
      DEF BoundaryRead, BoundaryDecide, ReadRequest, Goto, Exits, Nobody, Site, Sites, Cell,
          TypeOK, Controllers
    <3>2. ~PrepareAttempt
      BY <1>13 DEF BoundaryRead, BoundaryDecide, PrepareAttempt, At
    <3> QED
      BY <1>12, <2>1, <3>1, <3>2
  <2> QED
    BY <1>z, <2>2
<1>14. CASE controller' = controller /\ results' = results /\ ~ControllerStep
  <2>1. Site' = Site /\ Cell' = Cell
    BY <1>14 DEF Site, Cell
  <2>2. CASE controller.alive
    BY <1>12, <1>14, <2>1, <2>2 DEF ControllerStep
  <2> QED
    BY <1>14, <1>z, <2>2
<1> QED
  BY Zenon, <1>1, <1>2, <1>3, <1>4, <1>5, <1>6, <1>7, <1>8, <1>9, <1>10, <1>11, <1>13, <1>14
  DEF vars, Next, FrontendStep, ControllerStep, StartRegister, StartWrite, CommandCheck,
      CommandWrite, LearnerStep, EvaluatorStep, FrontendKilled, LearnerKilled, EvaluatorKilled

------------------------------------------------------------------------------
(* An acknowledged pause is kept *)

LEMMA QuietStays ==
  ASSUME Base, WorkersAreSane, [Next]_vars, WorkersAreQuiet, ~SpawnAttempt, ~SpawnWindow,
         ForwardToAttempt \/ ForwardToWindow => controller.operation = "pause"
  PROVE  WorkersAreQuiet'
<1> USE DEF Base
<1>t. /\ \A c \in CellSet : Len(attempts[c]) \in Nat
      /\ controller.operation \in Operations
  BY SessionType DEF TypeOK, Sessions, Controllers
<1> DEFINE Learners == \A c \in CellSet : \A i \in 1..Len(attempts'[c]) : Quiet(attempts'[c][i])
           Evaluators == \A c \in CellSet, s \in SeedSet : Quiet(windows'[c][s])
<1>1. Learners
  <2>1. CASE attempts' = attempts
    BY <2>1 DEF WorkersAreQuiet
  <2>2. ASSUME NEW c \in CellSet, NEW i \in 1..Len(attempts[c]), NEW w,
               Replaces(attempts, attempts', c, i, w), Quiet(attempts[c][i]) => Quiet(w)
        PROVE  Learners
    BY <2>2 DEF Replaces, WorkersAreQuiet
  <2>3. CASE PrepareAttempt /\ attempts' # attempts
    <3>1. Prolongs(attempts, attempts', Cell, Unborn(StartUpdate(Cell))) /\ Cell \in CellSet
      BY <2>3, PrepareEffect, HereTypes DEF Site
    <3>2. Quiet(Unborn(StartUpdate(Cell)))
      BY DEF Unborn, Quiet
    <3>3. \A c \in CellSet : \A i \in 1..Len(attempts'[c]) :
            i \in 1..Len(attempts[c]) \/ (c = Cell /\ i = Len(attempts[c]) + 1)
      BY <1>t, <3>1 DEF Prolongs
    <3> QED
      BY <3>1, <3>2, <3>3 DEF Prolongs, WorkersAreQuiet
  <2>4. CASE PointAttempt \/ RecordAttempt \/ ForwardToAttempt
    <3>1. Cell \in CellSet /\ Len(attempts[Cell]) \in 1..Len(attempts[Cell]) /\ Attempt \in Worker
      BY <2>4, PointEffect, RecordEffect, ForwardEffect, HereTypes DEF Launching
    <3>2. \A w \in {[Attempt EXCEPT !.current = TRUE], [Attempt EXCEPT !.receipt = TRUE]} :
            Quiet(Attempt) => Quiet(w)
      BY <3>1 DEF Quiet, Worker
    <3>3. controller.operation = "pause" /\ Quiet(Attempt) =>
            Quiet(Ordered(Attempt, controller.operation))
      BY <3>1 DEF Ordered, Quiet, Worker
    <3> QED
      BY <2>1, <2>2, <2>4, <3>1, <3>2, <3>3, PointEffect, RecordEffect, ForwardEffect
      DEF AttemptBecomes, Attempt
  <2>5. CASE ValidateAttempt \/ SealAttempt
    <3>1. Cell \in CellSet
      BY <2>5, ValidateEffect, SealEffect, HereTypes
    <3>2. Checked \in Worker =>
            \A w \in {[Checked EXCEPT !.process = TRUE], [Checked EXCEPT !.sealed = TRUE]} :
              Quiet(Checked) => Quiet(w)
      BY DEF Worker, Quiet
    <3> QED
      BY <2>1, <2>2, <2>5, <3>1, <3>2, ValidateEffect, SealEffect DEF CheckedBecomes, Checked
  <2>6. CASE LearnerStep \/ LearnerKilled
    BY <2>6, LearnerEffect, LearnerFrame DEF Lived, WorkersAreQuiet
  <2> QED
    BY Zenon, <2>1, <2>3, <2>4, <2>5, <2>6
    DEF vars, Next, FrontendStep, ControllerStep, StartSpawn, StartRegister, StartWrite,
        CommandCheck, CommandWrite, BoundaryRead, BoundaryDecide, WaitForResources,
        SelectCell, OpenCell, PollAttempt, ReportAttempt, JudgeTraining, NextSeed, OpenWindow,
        WatchWindow, ForwardToWindow, ReportWindow, RecordWindow, SealWindow, FinishSeed,
        ControllerFails, EvaluatorStep, ControllerKilled, FrontendKilled, EvaluatorKilled
<1>2. Evaluators
  <2>1. CASE windows' = windows
    BY <2>1 DEF WorkersAreQuiet
  <2>2. ASSUME NEW w, WindowBecomes(w), Quiet(Window) => Quiet(w),
               Cell \in CellSet, Seed \in SeedSet
        PROVE  Evaluators
    BY <2>2 DEF WindowBecomes, PlacesWindow, Window, WorkersAreQuiet
  <2>3. CASE OpenWindow \/ ForwardToWindow \/ RecordWindow \/ SealWindow
    <3>1. Cell \in CellSet /\ Seed \in SeedSet /\ Window \in Worker
      BY <2>3, OpenEffect, TransmitEffect, ReceiveEffect, SealWindowEffect, HereTypes
      DEF Observing
    <3>2. \A w \in {[Window EXCEPT !.receipt = TRUE], [Window EXCEPT !.sealed = TRUE]} :
            Quiet(Window) => Quiet(w)
      BY <3>1 DEF Quiet, Worker
    <3>3. controller.operation = "pause" /\ Quiet(Window) =>
            Quiet(Ordered(Window, controller.operation))
      BY <3>1 DEF Ordered, Quiet, Worker
    <3>4. Quiet(Unborn(0))
      BY DEF Unborn, Quiet
    <3> QED
      BY <2>1, <2>2, <2>3, <3>1, <3>2, <3>3, <3>4, OpenEffect, TransmitEffect, ReceiveEffect,
         SealWindowEffect
  <2>4. CASE EvaluatorStep \/ EvaluatorKilled
    BY <2>4, EvaluatorEffect, EvaluatorFrame DEF Lived, WorkersAreQuiet
  <2> QED
    BY Zenon, <2>1, <2>3, <2>4
    DEF vars, Next, FrontendStep, ControllerStep, StartSpawn, StartRegister, StartWrite,
        CommandCheck, CommandWrite, BoundaryRead, BoundaryDecide, WaitForResources,
        SelectCell, OpenCell, PrepareAttempt, PointAttempt, PollAttempt, ForwardToAttempt,
        ReportAttempt, RecordAttempt, ValidateAttempt, SealAttempt, JudgeTraining, NextSeed,
        WatchWindow, ReportWindow, FinishSeed, ControllerFails, LearnerStep,
        ControllerKilled, FrontendKilled, LearnerKilled
<1> QED
  BY <1>1, <1>2 DEF WorkersAreQuiet

(* The controller brings a worker to life only when it has read a resume.   *)
LEMMA NoiseNeedsResume ==
  ASSUME TypeOK, [Next]_vars, controller'.alive, controller.alive, controller.pc \notin Noisy,
         controller'.pc \in Noisy
  PROVE  controller.pc = "decide" /\ controller.operation = "resume"
<1>1. CASE controller' = controller
  BY <1>1
<1>2. ~Exits
  BY Gone
<1>3. \A pc \in Pcs : /\ Goto(pc) => controller'.pc = pc
                      /\ ReadRequest(pc) => controller'.pc = pc
                      /\ BoundaryThen(pc) => controller'.pc = "boundary"
  BY DEF TypeOK, Controllers, Goto, ReadRequest, BoundaryThen
<1>4. CASE BoundaryDecide
  <2>1. controller.operation # "resume" => controller'.pc = "boundary"
    BY <1>2, <1>4 DEF BoundaryDecide, Goto, TypeOK, Controllers
  <2> QED
    BY <1>4, <2>1 DEF BoundaryDecide, At, Noisy
<1>5. CASE BoundaryRead \/ WaitForResources \/ SelectCell \/ PollAttempt \/ ForwardToAttempt \/
           ReportAttempt
  BY ZenonT(60), <1>2, <1>5
  DEF BoundaryRead, WaitForResources, SelectCell, PollAttempt, ForwardToAttempt, ReportAttempt,
      Goto, ReadRequest, BoundaryThen, TypeOK, Controllers, Noisy
<1>6. CASE RecordAttempt \/ ValidateAttempt \/ SealAttempt \/ JudgeTraining \/ NextSeed
  BY ZenonT(60), <1>2, <1>6
  DEF RecordAttempt, ValidateAttempt, SealAttempt, JudgeTraining, NextSeed,
      Goto, ReadRequest, BoundaryThen, At, TypeOK, Controllers, Noisy
<1>7. CASE WatchWindow \/ ForwardToWindow \/ ReportWindow \/ RecordWindow \/ SealWindow \/
           FinishSeed \/ ControllerFails
  BY ZenonT(60), <1>2, <1>7
  DEF WatchWindow, ForwardToWindow, ReportWindow, RecordWindow, SealWindow, FinishSeed,
      ControllerFails, Goto, ReadRequest, BoundaryThen, TypeOK, Controllers, Noisy
<1>8. CASE OpenCell \/ PrepareAttempt \/ PointAttempt \/ SpawnAttempt \/ OpenWindow \/ SpawnWindow
  BY <1>8 DEF OpenCell, PrepareAttempt, PointAttempt, SpawnAttempt, OpenWindow, SpawnWindow, At,
     Noisy
<1>9. CASE StartSpawn
  BY <1>9 DEF StartSpawn, LeaseIsHeld
<1>10. ~ControllerKilled
  BY <1>2 DEF ControllerKilled
<1> QED
  BY Zenon, <1>1, <1>4, <1>5, <1>6, <1>7, <1>8, <1>9, <1>10
  DEF vars, Next, FrontendStep, ControllerStep, StartRegister, StartWrite, CommandCheck,
      CommandWrite, LearnerStep, EvaluatorStep, FrontendKilled, LearnerKilled, EvaluatorKilled

(* A step may tell of s that it is truthful afterwards.                     *)
TruthfulNext(s) ==
  /\ s.by <= controller'.gen
  /\ controller'.alive /\ s.by = controller'.gen =>
       /\ s.ack <= request'.sequence
       /\ controller'.pc \in Reading => s.ack <= controller'.sequence
       /\ s.ack = request'.sequence /\ request'.operation = "pause" => AllQuiet'

(* How a controller that is alive came to be where it is.                   *)
LEMMA ReadingMoves ==
  ASSUME TypeOK, Situated, Informed, [Next]_vars, ~StartSpawn, controller'.alive
  PROVE  /\ controller.alive /\ controller'.gen = controller.gen
         /\ controller'.pc \in Reading =>
              \/ /\ controller.pc \in Reading
                 /\ controller'.sequence = controller.sequence
                 /\ controller'.operation = controller.operation
              \/ /\ controller'.sequence = request.sequence
                 /\ controller'.operation = request.operation
                 /\ request' = request
<1>1. CASE controller' = controller
  BY <1>1
<1>2. ~Exits
  BY Gone
<1>3. CASE BoundaryDecide
  <2>1. controller.alive /\ controller.pc = "decide"
    BY <1>3 DEF BoundaryDecide, At
  <2>2. \E pc \in {"boundary", "resources", "open", "launch", "evaluate"} : Goto(pc)
    BY <1>2, <1>3, <2>1 DEF BoundaryDecide, Informed
  <2> QED
    BY <2>1, <2>2 DEF Goto, TypeOK, Controllers, Reading
<1>4. CASE BoundaryRead \/ PollAttempt \/ WatchWindow
  BY <1>4 DEF BoundaryRead, PollAttempt, WatchWindow, At, ReadRequest, Goto, TypeOK, Controllers,
     Reading
<1>5. CASE ForwardToAttempt \/ ForwardToWindow
  BY <1>5 DEF ForwardToAttempt, ForwardToWindow, At, Goto, TypeOK, Controllers, Reading
<1>6. CASE ReportAttempt \/ ReportWindow \/ WaitForResources \/ OpenCell \/ PrepareAttempt \/
           PointAttempt \/ SpawnAttempt
  BY ZenonT(60), <1>6
  DEF ReportAttempt, ReportWindow, WaitForResources, OpenCell, PrepareAttempt, PointAttempt,
      SpawnAttempt, At, Goto, BoundaryThen, TypeOK, Controllers, Reading
<1>7. ASSUME SelectCell \/ RecordAttempt \/ ValidateAttempt \/ SealAttempt \/ JudgeTraining \/
             NextSeed \/ OpenWindow \/ SpawnWindow \/ RecordWindow \/ SealWindow \/ FinishSeed \/
             ControllerFails
      PROVE  controller.alive /\ controller'.gen = controller.gen /\ controller'.pc \notin Reading
  <2> DEFINE Goal ==
               controller.alive /\ controller'.gen = controller.gen /\ controller'.pc \notin Reading
  <2> USE <1>2 DEF Goto, At, BoundaryThen, TypeOK, Controllers, Reading
  <2>1. CASE SelectCell
    BY ZenonT(60), <2>1 DEF SelectCell
  <2>2. CASE RecordAttempt
    BY <2>2 DEF RecordAttempt
  <2>3. CASE ValidateAttempt
    BY <2>3 DEF ValidateAttempt
  <2>4. CASE SealAttempt
    BY <2>4 DEF SealAttempt
  <2>5. CASE JudgeTraining
    BY <2>5 DEF JudgeTraining
  <2>6. CASE NextSeed
    BY <2>6 DEF NextSeed
  <2>7. CASE OpenWindow
    BY <2>7 DEF OpenWindow
  <2>8. CASE SpawnWindow
    BY <2>8 DEF SpawnWindow
  <2>9. CASE RecordWindow
    BY <2>9 DEF RecordWindow
  <2>10. CASE SealWindow
    BY <2>10 DEF SealWindow
  <2>11. CASE FinishSeed
    BY <2>11 DEF FinishSeed
  <2>12. CASE ControllerFails
    BY <2>12 DEF ControllerFails
  <2> QED
    BY <1>7, <2>1, <2>2, <2>3, <2>4, <2>5, <2>6, <2>7, <2>8, <2>9, <2>10, <2>11, <2>12
<1>9. ~ControllerKilled
  BY <1>2 DEF ControllerKilled
<1> QED
  BY Zenon, <1>1, <1>3, <1>4, <1>5, <1>6, <1>7, <1>9
  DEF vars, Next, FrontendStep, ControllerStep, StartRegister, StartWrite, CommandCheck,
      CommandWrite, LearnerStep, EvaluatorStep, FrontendKilled, LearnerKilled, EvaluatorKilled

LEMMA RequestMoves ==
  ASSUME [Next]_vars, ~StartSpawn, request' # request
  PROVE  controller' = controller /\ request'.sequence = request.sequence + 1
<1>1. CASE CommandWrite
  BY <1>1 DEF CommandWrite
<1>2. CASE ~CommandWrite
  BY Zenon, <1>2
  DEF vars, Next, FrontendStep, ControllerStep, StartRegister, StartWrite, CommandCheck,
      BoundaryRead, BoundaryDecide, WaitForResources, SelectCell, OpenCell,
      PrepareAttempt, PointAttempt, SpawnAttempt, PollAttempt, ForwardToAttempt,
      ReportAttempt, RecordAttempt, ValidateAttempt, SealAttempt, JudgeTraining, NextSeed,
      OpenWindow, SpawnWindow, WatchWindow, ForwardToWindow, ReportWindow, RecordWindow,
      SealWindow, FinishSeed, ControllerFails, LearnerStep, EvaluatorStep,
      ControllerKilled, FrontendKilled, LearnerKilled, EvaluatorKilled
<1> QED
  BY <1>1, <1>2

(* Whatever happens, what was truthful remains so.                          *)
LEMMA TruthStays ==
  ASSUME Base, WorkersAreSane, Informed, [Next]_vars, NEW s \in States, Truthful(s)
  PROVE  TruthfulNext(s)
<1> USE DEF Base
<1>t. /\ s.by \in Nat /\ s.ack \in Int /\ controller.gen \in Nat
      /\ request.sequence \in Int /\ controller.sequence \in Int
  BY DEF States, TypeOK, Controllers
<1>1. CASE StartSpawn
  <2>1. controller'.gen = controller.gen + 1
    BY <1>1 DEF StartSpawn, Nobody
  <2> QED
    BY <1>t, <2>1 DEF Truthful, TruthfulNext
<1>2. CASE ~StartSpawn /\ ~controller'.alive
  <2>1. controller'.gen = controller.gen
    <3>1. CASE controller' = controller
      BY <3>1
    <3>2. CASE ControllerKilled
      BY <3>2 DEF ControllerKilled, Exits, Nobody
    <3>3. CASE ControllerStep
      <4>1. /\ \A pc : Goto(pc) => controller'.alive = controller.alive
            /\ \A pc : BoundaryThen(pc) => controller'.alive = controller.alive
            /\ \A pc : ReadRequest(pc) => controller'.alive = controller.alive
        BY Zenon DEF Goto, BoundaryThen, ReadRequest, TypeOK, Controllers
      <4>2. controller.alive
        BY Zenon, <3>3
        DEF ControllerStep, BoundaryRead, BoundaryDecide, WaitForResources, SelectCell, OpenCell,
            PrepareAttempt, PointAttempt, SpawnAttempt, PollAttempt, ForwardToAttempt,
            ReportAttempt, RecordAttempt, ValidateAttempt, SealAttempt, JudgeTraining, NextSeed,
            OpenWindow, SpawnWindow, WatchWindow, ForwardToWindow, ReportWindow, RecordWindow,
            SealWindow, FinishSeed, ControllerFails, At
      <4>3. Exits
        <5>1. /\ [controller EXCEPT !.pc = "validate", !.index = 1].alive
              /\ [controller EXCEPT !.index = @ + 1].alive
              /\ [controller EXCEPT !.pc = "validate", !.index = @ + 1].alive
              /\ [controller EXCEPT !.pc = "seeds", !.seed = 1].alive
              /\ [controller EXCEPT !.pc = "seeds", !.seed = @ + 1].alive
              /\ [controller EXCEPT !.seed = @ + 1].alive
              /\ [controller EXCEPT !.pc = "select", !.cell = @ + 1].alive
              /\ \A i : [controller EXCEPT !.cell = i, !.pc = "boundary", !.then = "open"].alive
          BY <4>2 DEF TypeOK, Controllers
        <5> QED
          BY Zenon, <1>2, <3>3, <4>1, <4>2, <5>1
          DEF ControllerStep, BoundaryRead, BoundaryDecide, WaitForResources, SelectCell,
              OpenCell, PrepareAttempt, PointAttempt, SpawnAttempt, PollAttempt,
              ForwardToAttempt, ReportAttempt, RecordAttempt, ValidateAttempt, SealAttempt,
              JudgeTraining, NextSeed, OpenWindow, SpawnWindow, WatchWindow, ForwardToWindow,
              ReportWindow, RecordWindow, SealWindow, FinishSeed, ControllerFails
      <4> QED
        BY <4>3 DEF Exits, Nobody
    <3> QED
      BY Zenon, <1>2, <3>1, <3>2, <3>3
      DEF vars, Next, FrontendStep, StartRegister, StartWrite, CommandCheck,
          CommandWrite, LearnerStep, EvaluatorStep, FrontendKilled, LearnerKilled,
          EvaluatorKilled
  <2> QED
    BY <1>2, <2>1 DEF Truthful, TruthfulNext
<1>3. CASE ~StartSpawn /\ controller'.alive
  <2>1. controller.alive /\ controller'.gen = controller.gen
    BY <1>3, ReadingMoves
  <2>2. ASSUME s.by = controller.gen
        PROVE  /\ s.ack <= request'.sequence
               /\ controller'.pc \in Reading => s.ack <= controller'.sequence
               /\ s.ack = request'.sequence /\ request'.operation = "pause" => AllQuiet'
    <3>1. /\ s.ack <= request.sequence
          /\ controller.pc \in Reading => s.ack <= controller.sequence
          /\ s.ack = request.sequence /\ request.operation = "pause" => AllQuiet
      BY <2>1, <2>2 DEF Truthful
    <3>2. controller'.pc \in Reading => s.ack <= controller'.sequence
      BY <1>3, <3>1, ReadingMoves
    <3>3. CASE request' # request
      BY <1>3, <1>t, <3>1, <3>2, <3>3, RequestMoves
    <3>4. CASE request' = request
      <4>1. ASSUME s.ack = request.sequence, request.operation = "pause"
            PROVE  AllQuiet'
        <5>1. WorkersAreQuiet /\ controller.pc \notin Noisy
          BY <3>1, <4>1 DEF AllQuiet
        <5>2. controller.pc \in Reading => controller.operation = "pause"
          BY <1>t, <2>1, <3>1, <4>1 DEF Informed
        <5>3. controller'.pc \notin Noisy
          BY <1>3, <2>1, <5>1, <5>2, NoiseNeedsResume DEF Reading
        <5>4. ~SpawnAttempt /\ ~SpawnWindow
          BY <5>1 DEF SpawnAttempt, SpawnWindow, At, Noisy
        <5>5. ForwardToAttempt \/ ForwardToWindow => controller.operation = "pause"
          BY <5>2 DEF ForwardToAttempt, ForwardToWindow, At, Reading
        <5> QED
          BY <5>1, <5>3, <5>4, <5>5, QuietStays DEF AllQuiet
      <4> QED
        BY <3>1, <3>2, <3>4, <4>1
    <3> QED
      BY <3>3, <3>4
  <2> QED
    BY <2>1, <2>2 DEF Truthful, TruthfulNext
<1> QED
  BY <1>1, <1>2, <1>3

(* Who is at these places after a step, and was not before.                 *)
LEMMA ReportMoves ==
  ASSUME Base, Informed, [Next]_vars, ~StartSpawn, controller'.alive
  PROVE  /\ controller'.pc = "report" =>
              ForwardToAttempt \/ (controller' = controller /\ ~ControllerStep)
         /\ controller'.pc = "relay" =>
              ForwardToWindow \/ (controller' = controller /\ ~ControllerStep)
         /\ controller'.pc \in {"boundary", "decide"} =>
              controller'.then \in {"resources", "open", "launch", "evaluate"}
<1> USE DEF Base
<1> DEFINE Goal ==
             /\ controller'.pc = "report" =>
                  ForwardToAttempt \/ (controller' = controller /\ ~ControllerStep)
             /\ controller'.pc = "relay" =>
                  ForwardToWindow \/ (controller' = controller /\ ~ControllerStep)
             /\ controller'.pc \in {"boundary", "decide"} =>
                  controller'.then \in {"resources", "open", "launch", "evaluate"}
<1>1. CASE controller' = controller /\ ~ControllerStep
  BY <1>1 DEF Informed
<1>2. ~Exits
  BY Gone
<1>3. CASE BoundaryDecide
  <2>1. controller.alive /\ controller.pc = "decide"
    BY <1>3 DEF BoundaryDecide, At
  <2>2. controller.then \in {"resources", "open", "launch", "evaluate"}
    BY <2>1 DEF Informed
  <2>3. Goto("boundary") \/ Goto(controller.then)
    BY <1>2, <1>3 DEF BoundaryDecide
  <2> QED
    BY <2>2, <2>3 DEF Goto, TypeOK, Controllers
<1>4. CASE BoundaryRead
  BY <1>4 DEF BoundaryRead, At, ReadRequest, TypeOK, Controllers, Informed
<1>5. CASE PollAttempt \/ WatchWindow \/ ReportAttempt \/ ReportWindow \/ PrepareAttempt \/
           PointAttempt \/ SpawnAttempt
  BY ZenonT(60), <1>5
  DEF PollAttempt, WatchWindow, ReportAttempt, ReportWindow, PrepareAttempt, PointAttempt,
      SpawnAttempt, ReadRequest, Goto, TypeOK, Controllers
<1>6. CASE ForwardToAttempt \/ ForwardToWindow
  BY <1>6 DEF ForwardToAttempt, ForwardToWindow, Goto, TypeOK, Controllers
<1>7. CASE WaitForResources \/ OpenCell \/ NextSeed
  <2>1. controller.alive /\ controller.pc \notin {"report", "relay", "boundary", "decide"}
    BY <1>7 DEF WaitForResources, OpenCell, NextSeed, At
  <2> QED
    BY ZenonT(60), <1>7, <2>1
    DEF WaitForResources, OpenCell, NextSeed, Goto, BoundaryThen, TypeOK, Controllers
<1>8. CASE SelectCell \/ RecordAttempt \/ ValidateAttempt \/ SealAttempt \/ JudgeTraining
  <2>1. controller.alive /\ controller.pc \notin {"report", "relay", "boundary", "decide"}
    BY Zenon, <1>8 DEF SelectCell, RecordAttempt, ValidateAttempt, SealAttempt, JudgeTraining, At
  <2> QED
    BY ZenonT(60), <1>2, <1>8, <2>1
    DEF SelectCell, RecordAttempt, ValidateAttempt, SealAttempt, JudgeTraining, Goto, TypeOK,
        Controllers
<1>9. CASE OpenWindow \/ SpawnWindow \/ RecordWindow \/ SealWindow \/ FinishSeed \/ ControllerFails
  BY <1>2, <1>9
  DEF OpenWindow, SpawnWindow, RecordWindow, SealWindow, FinishSeed, ControllerFails, Goto,
      TypeOK, Controllers
<1>10. ~ControllerKilled
  BY <1>2 DEF ControllerKilled
<1>11. CASE controller' # controller \/ ControllerStep
  <2>1. CASE ControllerStep
    <3>1. Goal
      BY <1>3, <1>4, <1>5, <1>6, <1>7, <1>8, <1>9, <2>1 DEF ControllerStep
    <3> QED
      BY <3>1
  <2>2. CASE ~ControllerStep
    BY Zenon, <1>10, <1>11, <2>2
    DEF vars, Next, FrontendStep, StartRegister, StartWrite, CommandCheck,
        CommandWrite, LearnerStep, EvaluatorStep, FrontendKilled, LearnerKilled, EvaluatorKilled
  <2> QED
    BY <2>1, <2>2
<1> QED
  BY <1>1, <1>11

LEMMA InformedStep ==
  ASSUME Base, WorkersAreSane, Informed, [Next]_vars
  PROVE  Informed'
<1> USE DEF Base
<1>1. CASE StartSpawn
  BY <1>1 DEF StartSpawn, Nobody, Informed, Reading
<1>2. CASE ~controller'.alive
  BY <1>2 DEF Informed
<1>3. CASE ~StartSpawn /\ controller'.alive
  <2>1. controller.alive /\ request.sequence >= 0 /\ request.sequence \in Int
        /\ controller.sequence \in Int
    BY <1>3, ReadingMoves DEF Informed, TypeOK, Controllers
  <2>2. request'.sequence >= 0
    BY <1>3, <2>1, RequestMoves
  <2>3. controller'.pc \in Reading =>
          /\ controller'.sequence <= request'.sequence
          /\ controller'.sequence = request'.sequence => controller'.operation = request'.operation
    <3>1. CASE request' = request
      BY <1>3, <2>1, <3>1, ReadingMoves DEF Informed
    <3>2. CASE request' # request
      BY <1>3, <2>1, <3>2, RequestMoves DEF Informed
    <3> QED
      BY <3>1, <3>2
  <2>4. controller'.pc = "report" => Attempt'.operation = controller'.operation \/ ~Attempt'.alive
    <3>1. CASE ForwardToAttempt
      <4>1. Attempt \in Worker /\ Site = "forward" /\ controller.operation \in Operations
        BY <3>1, ForwardEffect, HereTypes DEF Launching, TypeOK, Controllers
      <4>2. /\ controller'.operation = controller.operation
            /\ Cell' = Cell /\ Seed' = Seed
        BY <3>1 DEF ForwardToAttempt, Goto, TypeOK, Controllers, Cell, Seed
      <4>3. CASE controller.operation # Attempt.operation /\ Attempt.alive
        <5>1. Attempt' = Ordered(Attempt, controller.operation)
          BY <2>1, <3>1, <4>1, <4>2, <4>3, ForwardEffect, NewWorkers DEF Launching
        <5>2. Ordered(Attempt, controller.operation).operation = controller.operation
          BY <4>1 DEF Ordered, Worker
        <5> QED
          BY <4>2, <5>1, <5>2
      <4>4. CASE ~(controller.operation # Attempt.operation /\ Attempt.alive)
        <5>1. attempts' = attempts
          BY <3>1, <4>4, ForwardEffect
        <5>2. Attempt' = Attempt
          BY <4>2, <5>1 DEF Attempt
        <5> QED
          BY <4>2, <4>4, <5>2
      <4> QED
        BY <4>3, <4>4
    <3>2. CASE controller.pc = "report" /\ controller' = controller /\ ~ControllerStep
      <4>1. Cell \in CellSet /\ Len(attempts[Cell]) \in 1..Len(attempts[Cell])
        BY <2>1, <3>2, HereTypes DEF Site, Launching
      <4>2. Cell' = Cell
        BY <3>2 DEF Cell
      <4>3. CASE attempts' = attempts
        BY <2>1, <3>2, <4>2, <4>3 DEF Informed, Attempt
      <4>4. CASE LearnerStep \/ LearnerKilled
        <5>1. LearnerLives
          BY <4>4, LearnerEffect
        <5>2. Attempt' = attempts'[Cell][Len(attempts[Cell])]
          BY <4>1, <4>2, <5>1, LearnerFrame DEF Attempt
        <5>3. Attempt' = Attempt \/ (Attempt.alive /\ Attempt'.operation = Attempt.operation)
          BY <4>1, <5>1, <5>2, LearnerFrame DEF Attempt, Lived, Kept
        <5> QED
          BY <2>1, <3>2, <5>3 DEF Informed
      <4> QED
        BY Zenon, <1>3, <3>2, <4>3, <4>4
        DEF vars, Next, FrontendStep, StartRegister, StartWrite, CommandCheck,
            CommandWrite, EvaluatorStep, ControllerKilled, FrontendKilled, EvaluatorKilled
    <3> QED
      BY <1>3, <3>1, <3>2, ReportMoves
  <2>5. controller'.pc = "relay" => Window'.operation = controller'.operation
    <3>1. CASE ForwardToWindow
      <4>1. Window \in Worker /\ Site = "transmit" /\ controller.operation \in Operations
        BY <3>1, TransmitEffect, HereTypes DEF Observing, TypeOK, Controllers
      <4>2. /\ controller'.operation = controller.operation
            /\ Cell' = Cell /\ Seed' = Seed
        BY <3>1 DEF ForwardToWindow, Goto, TypeOK, Controllers, Cell, Seed
      <4>3. CASE controller.operation # Window.operation
        <5>1. Window' = Ordered(Window, controller.operation)
          BY <2>1, <3>1, <4>1, <4>2, <4>3, TransmitEffect, NewWorkers DEF Observing
        <5>2. Ordered(Window, controller.operation).operation = controller.operation
          BY <4>1 DEF Ordered, Worker
        <5> QED
          BY <4>2, <5>1, <5>2
      <4>4. CASE controller.operation = Window.operation
        <5>1. windows' = windows
          BY <3>1, <4>4, TransmitEffect
        <5>2. Window' = Window
          BY <4>2, <5>1 DEF Window
        <5> QED
          BY <4>2, <4>4, <5>2
      <4> QED
        BY <4>3, <4>4
    <3>2. CASE controller.pc = "relay" /\ controller' = controller /\ ~ControllerStep
      <4>1. Cell \in CellSet /\ Seed \in SeedSet
        BY <2>1, <3>2, HereTypes DEF Site, Observing
      <4>2. Cell' = Cell /\ Seed' = Seed
        BY <3>2 DEF Cell, Seed
      <4>3. CASE windows' = windows
        BY <2>1, <3>2, <4>2, <4>3 DEF Informed, Window
      <4>4. CASE EvaluatorStep \/ EvaluatorKilled
        <5>1. EvaluatorLives
          BY <4>4, EvaluatorEffect
        <5>2. Window' = Window \/ Window'.operation = Window.operation
          BY <4>1, <4>2, <5>1, EvaluatorFrame DEF Window, Lived, Kept
        <5> QED
          BY <2>1, <3>2, <5>2 DEF Informed
      <4> QED
        BY Zenon, <1>3, <3>2, <4>3, <4>4
        DEF vars, Next, FrontendStep, StartRegister, StartWrite, CommandCheck,
            CommandWrite, LearnerStep, ControllerKilled, FrontendKilled, LearnerKilled
    <3> QED
      BY <1>3, <3>1, <3>2, ReportMoves
  <2> QED
    BY <1>3, <2>2, <2>3, <2>4, <2>5, ReportMoves DEF Informed
<1> QED
  BY <1>1, <1>2, <1>3

(* The boundary answers what it has read, while no worker lives.            *)
LEMMA DecidedTruth ==
  ASSUME Base, WorkersAreSane, LiveAreAwaited, Informed, BoundaryDecide, [Next]_vars
  PROVE  TruthfulNext(state')
<1> USE DEF Base
<1>1. /\ controller.alive /\ controller.pc = "decide" /\ controller.pc \in Reading
      /\ request' = request /\ attempts' = attempts /\ windows' = windows
  BY DEF BoundaryDecide, At, Reading
<1>2. state'.ack = controller.sequence /\ state'.by = controller.gen
  BY DEF BoundaryDecide, Acknowledged, TypeOK, States
<1>3. /\ controller.sequence <= request.sequence
      /\ controller.sequence = request.sequence => controller.operation = request.operation
      /\ controller.sequence \in Int /\ controller.gen \in Nat
  BY <1>1 DEF Informed, TypeOK, Controllers
<1>4. NoneLive
  BY <1>1, NobodyWaitsForNone
<1>5. WorkersAreQuiet'
  BY <1>1, <1>4 DEF NoneLive, WorkersAreQuiet, Quiet
<1>6. CASE Exits
  BY <1>2, <1>3, <1>6 DEF Exits, Nobody, TruthfulNext
<1>7. CASE controller.operation = "pause" /\ Goto("boundary")
  <2>1. controller'.pc = "boundary" /\ controller'.gen = controller.gen
    BY <1>7 DEF Goto, TypeOK, Controllers
  <2> QED
    BY <1>1, <1>2, <1>3, <1>5, <2>1 DEF TruthfulNext, AllQuiet, Noisy, Reading
<1>8. CASE controller.operation = "resume" /\ Goto(controller.then)
  <2>1. /\ controller'.gen = controller.gen /\ controller'.sequence = controller.sequence
    BY <1>8 DEF Goto, TypeOK, Controllers
  <2> QED
    BY <1>1, <1>2, <1>3, <1>8, <2>1 DEF TruthfulNext
<1> QED
  BY <1>6, <1>7, <1>8 DEF BoundaryDecide

(* A worker that has acknowledged a pause works no more.                    *)
LEMMA ReportedTruth ==
  ASSUME Base, WorkersAreSane, LiveAreAwaited, Informed, ReportAttempt \/ ReportWindow
  PROVE  TruthfulNext(state')
<1> USE DEF Base
<1>1. /\ controller.alive /\ controller.pc \in {"report", "relay"} /\ controller.pc \in Reading
      /\ request' = request /\ attempts' = attempts /\ windows' = windows
  BY DEF ReportAttempt, ReportWindow, At, Reading
<1>2. controller'.pc \in {"poll", "watch"} /\ controller'.gen = controller.gen
  BY DEF ReportAttempt, ReportWindow, Goto, TypeOK, Controllers
<1>3. /\ controller.sequence <= request.sequence /\ 0 <= request.sequence
      /\ controller.sequence = request.sequence => controller.operation = request.operation
      /\ controller.sequence \in Int /\ request.sequence \in Int /\ controller.gen \in Nat
  BY <1>1 DEF Informed, TypeOK, Controllers
<1>4. \A w : /\ Reported(state, w).by = controller.gen
             /\ \/ Reported(state, w).ack = -1
                \/ Reported(state, w).ack = controller.sequence /\ w.ack >= w.sequence
  BY DEF Reported, Acknowledged, TypeOK, States
<1>5. CASE ReportAttempt
  <2>1. /\ state' = Reported(state, Attempt) /\ controller.pc = "report" /\ Site = "report"
    BY <1>5 DEF ReportAttempt, At, Site
  <2>2. Cell \in CellSet /\ Len(attempts[Cell]) \in 1..Len(attempts[Cell]) /\ Attempt \in Worker
    BY <1>1, <2>1, HereTypes DEF Launching
  <2>3. SaneAttempt(Attempt)
    BY <2>2 DEF WorkersAreSane, Attempt
  <2>4. ASSUME Attempt.ack >= Attempt.sequence, controller.operation = "pause"
        PROVE  WorkersAreQuiet'
    <3>1. Attempt.alive => Attempt.operation = "pause"
      BY <1>1, <2>1, <2>4 DEF Informed
    <3>2. Attempt.sequence \in Int /\ Attempt.ack \in Int /\ Attempt.at \in Places
      BY <2>2 DEF Worker
    <3>3. Quiet(Attempt)
      BY <2>3, <2>4, <3>1, <3>2 DEF SaneAttempt, Sane, Quiet, Places
    <3>4. \A c \in CellSet : \A i \in 1..Len(attempts[c]) : Quiet(attempts[c][i])
      BY <1>1, <3>3 DEF LiveAreAwaited, Attempt, Quiet
    <3>5. \A c \in CellSet, s \in SeedSet : Quiet(windows[c][s])
      BY <1>1, <2>1 DEF LiveAreAwaited, Quiet
    <3> QED
      BY <1>1, <3>4, <3>5 DEF WorkersAreQuiet
  <2> QED
    BY <1>1, <1>2, <1>3, <1>4, <2>1, <2>4 DEF TruthfulNext, AllQuiet, Noisy, Reading
<1>6. CASE ReportWindow
  <2>1. /\ state' = Reported(state, Window) /\ controller.pc = "relay" /\ Site = "relay"
    BY <1>6 DEF ReportWindow, At, Site
  <2>2. Cell \in CellSet /\ Seed \in SeedSet /\ Window \in Worker
    BY <1>1, <2>1, HereTypes DEF Observing
  <2>3. SaneWindow(Window)
    BY <2>2 DEF WorkersAreSane, Window
  <2>4. ASSUME Window.ack >= Window.sequence, controller.operation = "pause"
        PROVE  WorkersAreQuiet'
    <3>1. Window.operation = "pause"
      BY <1>1, <2>1, <2>4 DEF Informed
    <3>2. Window.sequence \in Int /\ Window.ack \in Int /\ Window.at \in Places
      BY <2>2 DEF Worker
    <3>3. Quiet(Window)
      BY <2>3, <2>4, <3>1, <3>2 DEF SaneWindow, Sane, Quiet, Places
    <3>4. \A c \in CellSet, s \in SeedSet : Quiet(windows[c][s])
      BY <1>1, <3>3 DEF LiveAreAwaited, Window, Quiet
    <3>5. \A c \in CellSet : \A i \in 1..Len(attempts[c]) : Quiet(attempts[c][i])
      BY <1>1, <2>1 DEF LiveAreAwaited, Quiet
    <3> QED
      BY <1>1, <3>4, <3>5 DEF WorkersAreQuiet
  <2> QED
    BY <1>1, <1>2, <1>3, <1>4, <2>1, <2>4 DEF TruthfulNext, AllQuiet, Noisy, Reading
<1> QED
  BY <1>5, <1>6

LEMMA PausesStep ==
  ASSUME Base, TypeOK', WorkersAreSane, LiveAreAwaited, PausesAreKept, [Next]_vars
  PROVE  PausesAreKept'
<1> USE DEF Base
<1>1. Informed /\ Truthful(state) /\ (frontend.pc = "registered" => Truthful(frontend.snapshot))
  BY DEF PausesAreKept
<1>2. Informed'
  BY <1>1, InformedStep
<1>3. \A s \in States : Truthful(s) => TruthfulNext(s)
  BY <1>1, TruthStays
<1>4. state \in States /\ (frontend.pc = "registered" => frontend.snapshot \in States)
  BY DEF TypeOK
<1>5. TruthfulNext(state')
  <2>1. ASSUME NEW s, TruthfulNext(s), state'.by = s.by, state'.ack = s.ack
        PROVE  TruthfulNext(state')
    BY <2>1 DEF TruthfulNext
  <2>2. TruthfulNext(state)
    BY <1>1, <1>3, <1>4
  <2>3. CASE state'.by = state.by /\ state'.ack = state.ack
    BY <2>1, <2>2, <2>3
  <2>4. CASE StartWrite
    <3>1. TruthfulNext(frontend.snapshot)
      BY <1>1, <1>3, <1>4, <2>4 DEF StartWrite
    <3>2. state'.by = frontend.snapshot.by /\ state'.ack = frontend.snapshot.ack
      BY <1>4, <2>4 DEF StartWrite, States
    <3> QED
      BY <2>1, <3>1, <3>2
  <2>5. CASE BoundaryDecide
    BY <1>1, <2>5, DecidedTruth
  <2>6. CASE ReportAttempt \/ ReportWindow
    BY <1>1, <2>6, ReportedTruth
  <2>7. CASE JudgeTraining
    <3>1. CASE state' = state
      BY <2>3, <3>1
    <3>2. CASE state' # state
      <4>1. Exits /\ state'.by = controller.gen /\ controller.gen \in Nat
        BY <2>7, <3>2 DEF JudgeTraining, Acknowledged, TypeOK, States, Controllers
      <4> QED
        BY <4>1 DEF Exits, Nobody, TruthfulNext
    <3> QED
      BY <3>1, <3>2
  <2>8. CASE WaitForResources \/ SelectCell \/ OpenCell \/ OpenWindow \/ ControllerFails
    <3>1. state'.by = state.by /\ state'.ack = state.ack
      BY Zenon, <1>4, <2>8
      DEF WaitForResources, SelectCell, OpenCell, OpenWindow, ControllerFails, States
    <3> QED
      BY <2>3, <3>1
  <2> QED
    BY Zenon, <2>3, <2>4, <2>5, <2>6, <2>7, <2>8
    DEF vars, Next, FrontendStep, ControllerStep, StartSpawn, StartRegister, CommandCheck,
        CommandWrite, BoundaryRead, PrepareAttempt, PointAttempt, SpawnAttempt, PollAttempt,
        ForwardToAttempt, RecordAttempt, ValidateAttempt, SealAttempt, NextSeed,
        SpawnWindow, WatchWindow, ForwardToWindow, RecordWindow, SealWindow, FinishSeed,
        LearnerStep, EvaluatorStep, ControllerKilled, FrontendKilled, LearnerKilled,
        EvaluatorKilled
<1>6. ASSUME frontend'.pc = "registered"
      PROVE  TruthfulNext(frontend'.snapshot)
  <2>1. CASE StartRegister
    <3>1. frontend' = [Idle EXCEPT !.pc = "registered", !.snapshot = state] \/ frontend' = Idle
      BY <2>1 DEF StartRegister
    <3>2. [Idle EXCEPT !.pc = "registered", !.snapshot = state].snapshot = state
      BY DEF Idle
    <3>3. Idle.pc = "idle"
      BY DEF Idle
    <3>4. frontend'.snapshot = state
      BY <1>6, <3>1, <3>2, <3>3
    <3> QED
      BY <1>1, <1>3, <1>4, <3>4
  <2>2. CASE frontend' = frontend
    BY <1>1, <1>3, <1>4, <1>6, <2>2
  <2>3. CASE FrontendStep \/ FrontendKilled
    <3>1. Idle.pc = "idle" /\ [Idle EXCEPT !.pc = "spawned"].pc = "spawned"
      BY DEF Idle
    <3>2. \A operation :
            [Idle EXCEPT !.pc = "commanding", !.operation = operation].pc = "commanding"
      BY DEF Idle
    <3>3. ~StartSpawn /\ ~CommandCheck
      BY Zenon, <1>6, <3>1, <3>2 DEF StartSpawn, CommandCheck
    <3>4. ~StartWrite /\ ~CommandWrite /\ ~FrontendKilled
      BY <1>6, <3>1 DEF StartWrite, CommandWrite, FrontendKilled
    <3> QED
      BY <2>1, <2>3, <3>3, <3>4 DEF FrontendStep
  <2> QED
    BY Zenon, <2>2, <2>3
    DEF vars, Next, ControllerStep, BoundaryRead, BoundaryDecide, WaitForResources, SelectCell,
        OpenCell, PrepareAttempt, PointAttempt, SpawnAttempt, PollAttempt, ForwardToAttempt,
        ReportAttempt, RecordAttempt, ValidateAttempt, SealAttempt, JudgeTraining, NextSeed,
        OpenWindow, SpawnWindow, WatchWindow, ForwardToWindow, ReportWindow, RecordWindow,
        SealWindow, FinishSeed, ControllerFails, LearnerStep, EvaluatorStep,
        ControllerKilled, LearnerKilled, EvaluatorKilled
<1>7. Truthful(state)' /\ (frontend.pc = "registered" => Truthful(frontend.snapshot))'
  BY <1>5, <1>6 DEF Truthful, TruthfulNext
<1> QED
  BY <1>2, <1>7 DEF PausesAreKept

------------------------------------------------------------------------------
(* The invariant, and what it says *)

Invariant ==
  /\ Base /\ WorkersAreSane /\ WorkerIsThere /\ LiveAreAwaited /\ LiveAreLone
  /\ SessionsAreLinked /\ Evidence /\ PausesAreKept

LEMMA InvariantInit == Init => Invariant
<1> SUFFICES ASSUME Init PROVE Invariant
  OBVIOUS
<1>1. TypeOK
  BY TypeInit
<1>2. \A c \in CellSet : Len(attempts[c]) = 0
  BY DEF Init
<1>3. \A c \in CellSet, s \in SeedSet : windows[c][s] = Absent
  BY DEF Init
<1>4. /\ Absent.at = "absent" /\ ~Absent.alive /\ Absent.update = 0 /\ Absent.from = 0
      /\ Absent.result = "none" /\ Absent.code = "none" /\ ~Absent.sealed /\ ~Absent.receipt
      /\ Absent.ack <= Absent.sequence
  BY DEF Absent, Unborn
<1>5. SaneWindow(Absent)
  BY <1>4, PlanType DEF SaneWindow, Sane
<1>6. ~controller.alive
  BY DEF Init, Nobody
<1>7. Situated /\ WorkerIsThere /\ LiveAreAwaited
  BY <1>6 DEF Situated, WorkerIsThere, LiveAreAwaited
<1>8. Pointers /\ WorkersAreSane /\ LiveAreLone
  BY <1>2, <1>3, <1>4, <1>5 DEF Pointers, Unpointed, WorkersAreSane, LiveAreLone
<1>9. SessionsAreLinked
  BY <1>2, SessionType, <1>1 DEF SessionsAreLinked, Linked, TailIsIdle, TypeOK, Sessions
<1>10. Evidence
  <2>1. \A c \in CellSet : /\ results[c].status = "not_started"
                           /\ \A s \in SeedSet : ~results[c].development[s]
    BY DEF Init
  <2> QED
    BY <1>6, <2>1 DEF Evidence, Backed, Followed
<1>11. PausesAreKept
  <2>1. state.by = 0 /\ controller.gen = 0 /\ frontend.pc = "idle"
    BY DEF Init, Nobody, Idle
  <2> QED
    BY <1>6, <2>1 DEF PausesAreKept, Truthful, Informed
<1> QED
  BY <1>1, <1>7, <1>8, <1>9, <1>10, <1>11 DEF Invariant, Base

LEMMA InvariantStep == Invariant /\ [Next]_vars => Invariant'
<1> SUFFICES ASSUME Invariant, [Next]_vars PROVE Invariant'
  OBVIOUS
<1>1. /\ Base /\ WorkersAreSane /\ WorkerIsThere /\ LiveAreAwaited /\ LiveAreLone
      /\ SessionsAreLinked /\ Evidence /\ PausesAreKept
  BY DEF Invariant
<1>2. TypeOK'
  BY <1>1, TypeStep
<1>3. Situated' /\ Pointers'
  BY <1>1, <1>2, SituatedStep, PointersStep
<1>4. WorkersAreSane' /\ WorkerIsThere' /\ LiveAreAwaited' /\ LiveAreLone'
  BY <1>1, SaneStep, ThereStep, AwaitedStep, LoneStep
<1>5. SessionsAreLinked' /\ PausesAreKept'
  BY <1>1, <1>2, LinkedStep, PausesStep
<1>6. Evidence'
  BY <1>1, <1>2, BackedStep, FollowedStep DEF Evidence
<1> QED
  BY <1>2, <1>3, <1>4, <1>5, <1>6 DEF Invariant, Base

LEMMA InvariantHolds == Spec => []Invariant
  BY InvariantInit, InvariantStep, PTL DEF Spec

(* Every file and every process of the queue keeps its type.                *)
THEOREM TypeCorrect == Spec => []TypeOK
<1>1. Invariant => TypeOK
  BY DEF Invariant, Base
<1> QED
  BY <1>1, InvariantHolds, PTL

LEMMA LoneWorker ==
  ASSUME Invariant
  PROVE  OneWorkerAtATime
<1> USE DEF Invariant, Base
<1>1. \A c \in CellSet : DOMAIN attempts[c] = 1..Len(attempts[c])
  BY SessionType DEF TypeOK, Sessions
<1>2. \A p \in LiveAttempts : \E c \in CellSet : \E i \in 1..Len(attempts[c]) :
        p = <<c, i>> /\ attempts[c][i].alive
  BY <1>1 DEF LiveAttempts
<1>3. \A p \in LiveWindows : \E c \in CellSet, s \in SeedSet :
        p = <<c, s>> /\ windows[c][s].alive
  BY DEF LiveWindows
<1>4. \A p, q \in LiveWorkers : p = q
  <2>1. \A p, q \in LiveAttempts : p = q
    BY <1>2 DEF LiveAreLone
  <2>2. \A p, q \in LiveWindows : p = q
    BY <1>3 DEF LiveAreLone
  <2>3. \A p \in LiveAttempts, q \in LiveWindows : FALSE
    BY <1>2, <1>3 DEF LiveAreLone
  <2> QED
    BY <2>1, <2>2, <2>3 DEF LiveWorkers
<1>5. Cardinality(LiveWorkers) <= 1
  <2>1. CASE LiveWorkers = {}
    BY <2>1, FS_EmptySet
  <2>2. ASSUME NEW p \in LiveWorkers
        PROVE  Cardinality(LiveWorkers) = 1
    <3>1. LiveWorkers = {p}
      BY <1>4, <2>2
    <3> QED
      BY <3>1, FS_Singleton
  <2> QED
    BY <2>1, <2>2
<1>6. ASSUME controller.alive, NEW w \in Attempts \cup Windows, w.alive
      PROVE  w.by = controller.gen
  <2>1. CASE w \in Attempts
    <3>1. PICK c \in CellSet : \E i \in 1..Len(attempts[c]) : w = attempts[c][i]
      BY <1>1, <2>1 DEF Attempts
    <3> QED
      BY <1>6, <3>1 DEF LiveAreAwaited
  <2>2. CASE w \in Windows
    BY <1>6, <2>2 DEF Windows, LiveAreAwaited
  <2> QED
    BY <1>6, <2>1, <2>2
<1> QED
  BY <1>5, <1>6 DEF OneWorkerAtATime

(* However many controllers are started and whatever is killed, at most one *)
(* worker of the queue is alive, and it is never older than the controller  *)
(* that runs: the lease the workers inherit is free only when all are gone. *)
THEOREM OneWorkerAtATimeHolds == Spec => []OneWorkerAtATime
<1>1. Invariant => OneWorkerAtATime
  BY LoneWorker
<1> QED
  BY <1>1, InvariantHolds, PTL

LEMMA RepeatsNothing ==
  ASSUME Invariant, Invariant', [Next]_vars
  PROVE  /\ \A c \in CellSet, s \in SeedSet :
              windows[c][s].at = "ended" => windows'[c][s].at = "ended"
         /\ \A c \in CellSet : \A i \in DOMAIN attempts'[c] :
              i \notin DOMAIN attempts[c] =>
                \A j \in DOMAIN attempts[c] :
                  /\ attempts[c][j].update <= attempts'[c][i].from
                  /\ attempts[c][j].update # Updates
<1>1. /\ Base /\ WorkersAreSane /\ WorkerIsThere /\ LiveAreAwaited /\ SessionsAreLinked
      /\ TypeOK /\ TypeOK'
  BY DEF Invariant, Base
<1>2. \A c \in CellSet : /\ DOMAIN attempts[c] = 1..Len(attempts[c])
                         /\ DOMAIN attempts'[c] = 1..Len(attempts'[c])
  BY <1>1, SessionType DEF TypeOK, Sessions
<1>3. ASSUME NEW c \in CellSet, NEW s \in SeedSet, windows[c][s].at = "ended"
      PROVE  windows'[c][s].at = "ended"
  BY <1>1, <1>3, WindowsStayEnded
<1>4. ASSUME NEW c \in CellSet, NEW i \in 1..Len(attempts'[c]), i \notin 1..Len(attempts[c]),
             NEW j \in 1..Len(attempts[c])
      PROVE  attempts[c][j].update <= attempts'[c][i].from /\ attempts[c][j].update # Updates
  BY <1>1, <1>4, AttemptsGoOn
<1> QED
  BY <1>2, <1>3, <1>4

(* No restart, kill or race makes the queue do work twice: a new attempt of *)
(* session.start begins where its stopped predecessor ended, a cell at its  *)
(* full updates gets none, and an evaluation directory is never run again.  *)
THEOREM NothingIsRepeatedHolds == Spec => NothingIsRepeated
<1>1. Invariant /\ Invariant' /\ [Next]_vars =>
        [ /\ \A c \in CellSet, s \in SeedSet :
               windows[c][s].at = "ended" => windows'[c][s].at = "ended"
          /\ \A c \in CellSet : \A i \in DOMAIN attempts'[c] :
               i \notin DOMAIN attempts[c] =>
                 \A j \in DOMAIN attempts[c] :
                   /\ attempts[c][j].update <= attempts'[c][i].from
                   /\ attempts[c][j].update # Updates ]_vars
  BY RepeatsNothing
<1> QED
  BY <1>1, InvariantHolds, PTL DEF Spec, NothingIsRepeated

LEMMA Evidenced ==
  ASSUME Invariant
  PROVE  ResultsAreEvidenced
<1> USE DEF Invariant, Base
<1>1. \A c \in CellSet : DOMAIN attempts[c] = 1..Len(attempts[c])
  BY SessionType DEF TypeOK, Sessions
<1>2. ASSUME NEW c \in CellSet, results[c].status \in {"evaluating", "completed"}
      PROVE  attempts[c] # <<>> /\ Chained(c)
  <2>1. Trained(c)
    BY <1>2 DEF Evidence, Backed
  <2>2. \A i \in 1..Len(attempts[c]) :
          /\ attempts[c][i].sealed /\ attempts[c][i].receipt
          /\ attempts[c][i].from = IF i = 1 THEN 0 ELSE attempts[c][i - 1].update
    BY <2>1 DEF Trained, WorkersAreSane, SaneAttempt, Sane, SessionsAreLinked, Linked
  <2> QED
    BY <1>1, <2>1, <2>2 DEF Trained, Chained
<1>3. ASSUME NEW c \in CellSet, NEW s \in SeedSet, results[c].development[s]
      PROVE  windows[c][s].sealed /\ windows[c][s].receipt /\ windows[c][s].update = Steps
  BY <1>3 DEF Evidence, Backed, WorkersAreSane, SaneWindow, Sane
<1> QED
  BY <1>2, <1>3 DEF ResultsAreEvidenced, Evidence, Backed

(* results.json never promises more than the evidence on disk, however      *)
(* often controllers are killed and started again between two writes.       *)
THEOREM ResultsAreEvidencedHolds == Spec => []ResultsAreEvidenced
<1>1. Invariant => ResultsAreEvidenced
  BY Evidenced
<1> QED
  BY <1>1, InvariantHolds, PTL

LEMMA Paused ==
  ASSUME Invariant
  PROVE  PauseHolds
<1> USE DEF Invariant, Base
<1> SUFFICES ASSUME controller.alive, state.by = controller.gen,
                    request.operation = "pause", state.ack >= request.sequence,
                    NEW w \in Attempts \cup Windows, w.alive
             PROVE  w.at # "work"
  BY DEF PauseHolds
<1>1. state.ack = request.sequence
  <2>1. state.ack <= request.sequence
    BY DEF PausesAreKept, Truthful
  <2>2. state.ack \in Int /\ request.sequence \in Int
    BY DEF TypeOK, States
  <2> QED
    BY <2>1, <2>2
<1>2. WorkersAreQuiet
  BY <1>1 DEF PausesAreKept, Truthful, AllQuiet
<1>3. \A c \in CellSet : DOMAIN attempts[c] = 1..Len(attempts[c])
  BY SessionType DEF TypeOK, Sessions
<1>4. Quiet(w)
  <2>1. CASE w \in Attempts
    BY <1>2, <1>3, <2>1 DEF Attempts, WorkersAreQuiet
  <2>2. CASE w \in Windows
    BY <1>2, <2>2 DEF Windows, WorkersAreQuiet
  <2> QED
    BY <2>1, <2>2
<1> QED
  BY <1>4 DEF Quiet

(* A pause that the running controller acknowledged stops all work until    *)
(* the request is changed, even though the acknowledgement is published by  *)
(* one process, the request written by another and the work done by a third.*)
THEOREM PauseHoldsAlways == Spec => []PauseHolds
<1>1. Invariant => PauseHolds
  BY Paused
<1> QED
  BY <1>1, InvariantHolds, PTL

=============================================================================
