----------------------- MODULE LearningCampaignProofs -----------------------
(***************************************************************************)
(* What LearningCampaign promises, proved for every grid, every number of  *)
(* seeds, updates and attempts, and any number of runs, kills and          *)
(* interrupts.                                                             *)
(*                                                                         *)
(* The inductive invariant says what the files of one job agree on, how    *)
(* the attempts of a cell form a chain of endpoints, when an evaluation is *)
(* due, and what the controller relies on where it stands.  Two facts      *)
(* carry the rest: every step changes the files of one job at most         *)
(* (StepIsJobStep), and an attempt that is sealed as an endpoint changes   *)
(* no more (EndpointIsFinal).  So only the last attempt of a chain moves,  *)
(* and each of its moves is one of the ledger.                             *)
(***************************************************************************)
EXTENDS LearningCampaign, FiniteSetTheorems, WellFoundedInduction, TLAPS

------------------------------------------------------------------------------
(* Sums over the first attempts *)

(* g[i] is the sum of f over the first i attempts, up to n.              *)
IsSum(g, f, n) == g = [i \in 0..n |-> IF i = 0 THEN 0 ELSE g[i - 1] + f[i]]

(* f and h have the same first n summands.                               *)
Same(f, h, n) == \A i \in 1..n : f[i] = h[i]

(* A sum is the value of its recursive function.                         *)
LEMMA SumToDef ==
  ASSUME NEW n, NEW f
  PROVE  SumTo(n, f) = (CHOOSE g : IsSum(g, f, n))[n]
  BY DEF SumTo, IsSum

(* A set of numbers has a least one.                                     *)
LEMMA LeastNat ==
  ASSUME NEW T \in SUBSET Nat, T # {}
  PROVE  \E n \in T : \A m \in T : n <= m
<1> DEFINE R == {ss \in Nat \X Nat : ss[1] < ss[2]}
<1>1. IsWellFoundedOn(R, Nat)
  BY NatLessThanWellFounded DEF OpToRel
<1> HIDE DEF R
<1>2. PICK n \in T : \A m \in T : ~(<<m, n>> \in R)
  BY <1>1, WFMin
<1>3. ASSUME NEW m \in T PROVE n <= m
  <2>1. <<m, n>> \notin R /\ <<m, n>> \in Nat \X Nat
    BY <1>2
  <2> QED BY <2>1 DEF R
<1> QED BY <1>3

(* There is a sum for any number of attempts.                            *)
LEMMA SumExists ==
  ASSUME NEW f, NEW n \in Nat
  PROVE  \E g : IsSum(g, f, n)
<1> DEFINE bad == {m \in Nat : ~\E g : IsSum(g, f, m)}
<1> SUFFICES ASSUME bad # {} PROVE FALSE
  OBVIOUS
<1>1. PICK m \in bad : \A k \in bad : m <= k
  BY LeastNat
<1>2. m \in Nat /\ ~\E g : IsSum(g, f, m)
  BY <1>1
<1>3. CASE m = 0
  <2> DEFINE h == [i \in 0..0 |-> 0]
  <2>1. IsSum(h, f, 0)
    BY DEF IsSum
  <2> QED BY <1>2, <1>3, <2>1
<1>4. CASE m # 0
  <2>1. m - 1 \in Nat /\ m - 1 \notin bad
    BY <1>1, <1>2, <1>4
  <2>2. PICK g : IsSum(g, f, m - 1)
    BY <2>1
  <2> DEFINE h == [i \in 0..m |-> IF i = m THEN g[m - 1] + f[m] ELSE g[i]]
  <2>3. \A i \in 0..m : h[i] = IF i = 0 THEN 0 ELSE h[i - 1] + f[i]
    <3>1. TAKE i \in 0..m
    <3>2. CASE i = m
      <4>1. h[i] = g[m - 1] + f[m] /\ h[i - 1] = g[i - 1]
        BY <1>2, <1>4, <3>2
      <4> QED BY <1>4, <3>2, <4>1
    <3>3. CASE i # m
      <4>1. i \in 0..m - 1 /\ h[i] = g[i]
        BY <1>2, <3>3
      <4>2. g[i] = IF i = 0 THEN 0 ELSE g[i - 1] + f[i]
        BY <2>2, <4>1 DEF IsSum
      <4>3. i # 0 => h[i - 1] = g[i - 1]
        BY <1>2, <3>3, <4>1
      <4> QED BY <4>1, <4>2, <4>3
    <3> QED BY <3>2, <3>3
  <2>4. h = [i \in 0..m |-> h[i]]
    OBVIOUS
  <2> HIDE DEF h
  <2>5. IsSum(h, f, m)
    BY <2>3, <2>4, Zenon DEF IsSum
  <2> QED BY <1>2, <2>5
<1> QED BY <1>3, <1>4

(* And one only, which depends on nothing but the summands.              *)
LEMMA SumsAgree ==
  ASSUME NEW f, NEW h, NEW g, NEW k, NEW n \in Nat, NEW m \in Nat,
         IsSum(g, f, n), IsSum(k, h, m),
         NEW a \in Nat, a <= n, a <= m, Same(f, h, a)
  PROVE  g[a] = k[a]
<1> DEFINE bad == {i \in 0..a : g[i] # k[i]}
<1> SUFFICES ASSUME bad # {} PROVE FALSE
  OBVIOUS
<1>1. bad \in SUBSET Nat
  OBVIOUS
<1>2. PICK i \in bad : \A j \in bad : i <= j
  <2> HIDE DEF bad
  <2> QED BY <1>1, LeastNat
<1>3. i \in 0..a /\ i \in 0..n /\ i \in 0..m /\ g[i] # k[i]
  BY <1>2
<1>4. /\ g[i] = IF i = 0 THEN 0 ELSE g[i - 1] + f[i]
      /\ k[i] = IF i = 0 THEN 0 ELSE k[i - 1] + h[i]
  BY <1>3 DEF IsSum
<1>5. i # 0 => g[i - 1] = k[i - 1]
  BY <1>2, <1>3
<1>6. i # 0 => f[i] = h[i]
  BY <1>3 DEF Same
<1> QED BY <1>3, <1>4, <1>5, <1>6

LEMMA SumIs ==
  ASSUME NEW f, NEW n \in Nat
  PROVE  \E g : IsSum(g, f, n) /\ SumTo(n, f) = g[n]
<1>1. IsSum(CHOOSE g : IsSum(g, f, n), f, n)
  BY SumExists
<1> QED BY <1>1, SumToDef

(* Sums of the same summands are the same.                               *)
LEMMA SumSame ==
  ASSUME NEW f, NEW h, NEW n \in Nat, Same(f, h, n)
  PROVE  SumTo(n, f) = SumTo(n, h)
<1>1. PICK g : IsSum(g, f, n) /\ SumTo(n, f) = g[n]
  BY SumIs
<1>2. PICK k : IsSum(k, h, n) /\ SumTo(n, h) = k[n]
  BY SumIs
<1>3. IsSum(g, f, n) /\ IsSum(k, h, n) /\ n \in Nat /\ n <= n
  BY <1>1, <1>2
<1>4. g[n] = k[n]
  BY <1>3, SumsAgree
<1> QED BY <1>1, <1>2, <1>4

(* The next attempt is added to the sum of those before it.              *)
LEMMA SumNext ==
  ASSUME NEW f, NEW n \in Nat
  PROVE  SumTo(0, f) = 0 /\ SumTo(n + 1, f) = SumTo(n, f) + f[n + 1]
<1>1. SumTo(0, f) = 0
  <2>1. PICK g : IsSum(g, f, 0) /\ SumTo(0, f) = g[0]
    BY SumIs
  <2> QED BY <2>1 DEF IsSum
<1>2. PICK g : IsSum(g, f, n + 1) /\ SumTo(n + 1, f) = g[n + 1]
  BY SumIs
<1>3. PICK k : IsSum(k, f, n) /\ SumTo(n, f) = k[n]
  BY SumIs
<1>4. g[n] = k[n]
  <2>1. n + 1 \in Nat /\ n <= n + 1 /\ n <= n /\ Same(f, f, n)
    BY DEF Same
  <2> QED BY <1>2, <1>3, <2>1, SumsAgree
<1>5. g[n + 1] = g[n] + f[n + 1]
  BY <1>2 DEF IsSum
<1> QED BY <1>1, <1>2, <1>3, <1>4, <1>5

(* The sum of numbers is a number.                                       *)
LEMMA SumType ==
  ASSUME NEW f, NEW n \in Nat, \A i \in 1..n : f[i] \in Nat
  PROVE  SumTo(n, f) \in Nat
<1> DEFINE bad == {m \in 0..n : SumTo(m, f) \notin Nat}
<1> SUFFICES ASSUME bad # {} PROVE FALSE
  OBVIOUS
<1>1. bad \in SUBSET Nat
  OBVIOUS
<1>2. PICK m \in bad : \A k \in bad : m <= k
  <2> HIDE DEF bad
  <2> QED BY <1>1, LeastNat
<1>3. m \in 0..n /\ SumTo(m, f) \notin Nat
  BY <1>2
<1>4. m # 0
  BY <1>3, SumNext
<1>5. m - 1 \in Nat /\ SumTo(m - 1, f) \in Nat
  BY <1>2, <1>3, <1>4
<1>6. SumTo(m - 1 + 1, f) = SumTo(m - 1, f) + f[m - 1 + 1]
  BY <1>5, SumNext
<1>7. m - 1 + 1 = m /\ f[m] \in Nat
  BY <1>3, <1>4
<1> QED BY <1>3, <1>5, <1>6, <1>7

(* Attempts that add nothing may be left out.                            *)
LEMMA SumEnds ==
  ASSUME NEW f, NEW n \in Nat, NEW m \in 0..n,
         \A i \in 1..n : f[i] \in Nat, \A i \in m + 1..n : f[i] = 0
  PROVE  SumTo(n, f) = SumTo(m, f)
<1> DEFINE bad == {k \in m..n : SumTo(k, f) # SumTo(m, f)}
<1> SUFFICES ASSUME bad # {} PROVE FALSE
  OBVIOUS
<1>1. bad \in SUBSET Nat
  OBVIOUS
<1>2. PICK k \in bad : \A j \in bad : k <= j
  <2> HIDE DEF bad
  <2> QED BY <1>1, LeastNat
<1>3. k \in m..n /\ k # m /\ SumTo(k, f) # SumTo(m, f)
  BY <1>2
<1>4. k - 1 \in Nat /\ SumTo(k - 1, f) = SumTo(m, f) /\ k - 1 \in 0..n
  BY <1>2, <1>3
<1>5. SumTo(k - 1 + 1, f) = SumTo(k - 1, f) + f[k - 1 + 1]
  BY <1>4, SumNext
<1>6. k - 1 + 1 = k /\ f[k] = 0
  BY <1>3
<1>7. SumTo(k - 1, f) \in Nat
  <2>1. \A i \in 1..k - 1 : f[i] \in Nat
    BY <1>4
  <2> QED BY <1>4, <2>1, SumType
<1> QED BY <1>3, <1>4, <1>5, <1>6, <1>7

------------------------------------------------------------------------------
(* The inductive invariant *)

(* What the files of one job agree on.  A job nobody has requested is    *)
(* untouched; a worker that lives has a record; a receipt charges an     *)
(* endpoint for its rows and everything else for all that was reserved.  *)
JobIsSane(j) ==
  LET f == job[j] IN
  /\ ~f.request => f = [Absent EXCEPT !.made = f.made]
  /\ f.request => f.made
  /\ f.alive => f.record \in {"launching", "running", "launch_failed"}
  /\ IsTraining(j) =>
       /\ f.start <= Updates /\ f.rows <= Reserved(j)
       /\ CASE f.receipt.status = "none" -> f.receipt.charged = 0
            [] f.receipt.status = "incomplete" ->
                 f.receipt.charged = Reserved(j) /\ f.receipt.actual <= f.rows
            [] OTHER ->
                 /\ Exact(j) /\ f.receipt.charged = f.rows
                 /\ f.receipt.status = "completed" <=> f.rows = Reserved(j)

JobsAreSane == \A j \in Jobs : JobIsSane(j)

Status(c, n) == job[Attempt(c, n)].receipt.status

(* An attempt is made only behind endpoints that leave something to do, and *)
(* asks for what they left.                                              *)
ChainsAreLinked ==
  \A c \in Cells : \A n \in 1..MaxRunAttempts :
    /\ job[Attempt(c, n)].made => \A i \in 1..n - 1 : Status(c, i) = "resumable"
    /\ job[Attempt(c, n)].request => job[Attempt(c, n)].start = WorkedBefore(c, n)

Trained(c) == \E n \in 1..MaxRunAttempts : Status(c, n) = "completed"

(* Only a trained cell is evaluated, in the first directory of a seed.   *)
EvaluationsAreDue ==
  \A c \in Cells, s \in 1..SeedCount, n \in 1..2 :
    job[Evaluation(c, s, n)].made => n = 1 /\ Trained(c)

Busy == {"request", "launch", "spawn", "register", "watch", "seal"}

(* The job a busy controller is at: the next attempt of its cell, or the *)
(* evaluation of its seed.                                               *)
JobIsCurrent ==
  /\ ctl.raised => ctl.pc = "seal" /\ IsTraining(ctl.job) /\ ~Sealed(ctl.job)
  /\ ctl.pc \in Busy =>
       /\ \/ ctl.n < MaxRunAttempts /\ ctl.job = NextAttempt
          \/ ctl.job = Evaluation(ctl.cell, ctl.seed, 1)
       /\ job[ctl.job].made
       /\ job[ctl.job].request <=> ctl.pc # "request"
       /\ ctl.pc # "seal" => ~Sealed(ctl.job)
  /\ ctl.pc = "launch" => job[ctl.job].record = "absent"
  /\ ctl.pc \in {"spawn", "register"} => job[ctl.job].record = "launching"
  /\ ctl.pc \in {"launch", "spawn"} => ~job[ctl.job].alive
  /\ ctl.pc = "watch" => job[ctl.job].record = "running"

(* While it trains a cell it has come past endpoints only, and what it   *)
(* counts is what they did; it evaluates trained cells.                  *)
TrainsHere == ctl.pc = "train" \/ (ctl.pc \in Busy /\ IsTraining(ctl.job))

PastIsCounted ==
  /\ \A i \in 1..ctl.n : Status(ctl.cell, i) \in {"resumable", "completed"}
  /\ ctl.completed = WorkedBefore(ctl.cell, ctl.n + 1)
  /\ ctl.completed <= Updates

ProgressIsReal ==
  /\ TrainsHere => PastIsCounted
  /\ ctl.pc \in Busy /\ IsTraining(ctl.job) =>
       /\ ctl.completed < Updates
       /\ ctl.pc # "request" => job[ctl.job].start = ctl.completed
  /\ ctl.pc = "eval" \/ (ctl.pc \in Busy /\ ~IsTraining(ctl.job)) => Trained(ctl.cell)

(* At most one launch is unresolved, and where the controller is about to   *)
(* start a worker or watches one it is no other.                         *)
LaunchIsLone ==
  /\ \A i, j \in Jobs : Unresolved(i) /\ Unresolved(j) => i = j
  /\ ctl.pc \in {"request", "launch"} => \A j \in Jobs : ~Unresolved(j)
  /\ ctl.pc \in {"spawn", "register", "watch"} =>
       \A j \in Jobs : Unresolved(j) => j = ctl.job

Inv ==
  /\ TypeOK
  /\ JobsAreSane
  /\ ChainsAreLinked
  /\ EvaluationsAreDue
  /\ JobIsCurrent
  /\ ProgressIsReal
  /\ LaunchIsLone

------------------------------------------------------------------------------
(* Jobs and types *)

LEMMA ConstantsAreNumbers ==
  /\ CellCount \in Nat /\ SeedCount \in Nat /\ Updates \in Nat /\ MaxRunAttempts \in Nat
  /\ CellCount > 0 /\ SeedCount > 0 /\ Updates > 0 /\ MaxRunAttempts > 0
  BY CampaignAssumption

(* Every job is an attempt of a cell or an evaluation of it, and tells   *)
(* which.                                                                *)
LEMMA AttemptsAreJobs ==
  ASSUME NEW c \in Cells, NEW n \in 1..MaxRunAttempts
  PROVE  /\ Attempt(c, n) \in Jobs /\ IsTraining(Attempt(c, n))
         /\ Attempt(c, n).cell = c /\ Attempt(c, n).n = n
<1>1. Attempt(c, n) \in Attempts(c)
  BY DEF Attempts
<1>2. Attempt(c, n) \in Jobs
  BY <1>1 DEF Jobs
<1> QED BY <1>2 DEF Attempt, IsTraining

LEMMA EvaluationsAreJobs ==
  ASSUME NEW c \in Cells, NEW s \in 1..SeedCount, NEW n \in 1..2
  PROVE  /\ Evaluation(c, s, n) \in Jobs /\ ~IsTraining(Evaluation(c, s, n))
         /\ Evaluation(c, s, n).cell = c /\ Evaluation(c, s, n).seed = s
         /\ Evaluation(c, s, n).n = n
<1>1. Evaluation(c, s, n) \in Evaluations(c, s)
  BY DEF Evaluations
<1>2. Evaluation(c, s, n) \in Jobs
  BY <1>1 DEF Jobs
<1> QED BY <1>2 DEF Evaluation, IsTraining

LEMMA JobsAreEither ==
  ASSUME NEW j \in Jobs
  PROVE  /\ IsTraining(j) => /\ j.cell \in Cells /\ j.n \in 1..MaxRunAttempts
                             /\ j = Attempt(j.cell, j.n)
         /\ ~IsTraining(j) => /\ j.cell \in Cells /\ j.seed \in 1..SeedCount /\ j.n \in 1..2
                              /\ j = Evaluation(j.cell, j.seed, j.n)
<1>1. \/ \E c \in Cells, n \in 1..MaxRunAttempts : j = Attempt(c, n)
      \/ \E c \in Cells, s \in 1..SeedCount, n \in 1..2 : j = Evaluation(c, s, n)
  BY DEF Jobs, Attempts, Evaluations
<1>2. ASSUME NEW c \in Cells, NEW n \in 1..MaxRunAttempts, j = Attempt(c, n)
      PROVE  IsTraining(j) /\ j.cell = c /\ j.n = n
  BY <1>2, AttemptsAreJobs
<1>3. ASSUME NEW c \in Cells, NEW s \in 1..SeedCount, NEW n \in 1..2, j = Evaluation(c, s, n)
      PROVE  ~IsTraining(j) /\ j.cell = c /\ j.seed = s /\ j.n = n
  BY <1>3, EvaluationsAreJobs
<1> QED BY <1>1, <1>2, <1>3

(* Where the controller may go next.                                     *)
LEMMA ToCellType ==
  ASSUME NEW c \in Nat \ {0}
  PROVE  /\ Off \in Controller
         /\ ToCell(c) \in Controller
         /\ ToCell(c).pc \in {"train", "audit"} /\ ToCell(c).n = 0
         /\ ToCell(c).completed = 0 /\ ToCell(c).raised = FALSE
<1>1. 1 \in Cells /\ CellCount \in Cells /\ 1 \in 1..SeedCount /\ 0 \in 0..MaxRunAttempts
      /\ 1 \in 1..MaxRunAttempts
  BY ConstantsAreNumbers DEF Cells
<1>2. Attempt(1, 1) \in Jobs
  BY <1>1, AttemptsAreJobs
<1>3. Off \in Controller
  BY <1>1, <1>2 DEF Off, Controller, Places
<1>4. c <= CellCount => c \in Cells
  BY ConstantsAreNumbers DEF Cells
<1>5. ToCell(c) \in Controller
  BY <1>1, <1>3, <1>4 DEF ToCell, Controller, Places
<1>6. /\ ToCell(c).pc \in {"train", "audit"} /\ ToCell(c).n = 0
      /\ ToCell(c).completed = 0 /\ ToCell(c).raised = FALSE
  BY <1>3 DEF ToCell, Off
<1> QED BY <1>3, <1>5, <1>6

LEMMA ToSeedType ==
  ASSUME ctl \in Controller
  PROVE  ToSeed(ctl.seed + 1) \in Controller
<1>1. ctl.seed \in 1..SeedCount /\ ctl.cell + 1 \in Nat \ {0}
  BY DEF Controller, Cells
<1>2. ToCell(ctl.cell + 1) \in Controller
  BY <1>1, ToCellType
<1>3. ctl.seed + 1 <= SeedCount => ctl.seed + 1 \in 1..SeedCount
  BY <1>1, ConstantsAreNumbers
<1> QED BY <1>1, <1>2, <1>3 DEF ToSeed, Controller, Places

------------------------------------------------------------------------------
(* What a step may do to the files of a job *)

(* A directory is made for the next attempt or evaluation of the cell.   *)
Opens(k, r) ==
  /\ \/ /\ ctl.pc = "train" /\ k = NextAttempt
        /\ ctl.completed < Updates /\ ctl.n < MaxRunAttempts
     \/ ctl.pc = "eval" /\ k = Evaluation(ctl.cell, ctl.seed, 1)
  /\ ~job[k].made
  /\ \A j \in Jobs : ~Unresolved(j)
  /\ r = [job[k] EXCEPT !.made = TRUE]

Requests(k, r) ==
  /\ ctl.pc = "request" /\ k = ctl.job
  /\ r = [job[k] EXCEPT !.request = TRUE,
                        !.start = IF IsTraining(k) THEN ctl.completed ELSE 0]

(* The record of the worker, and its process, while it is started.       *)
Starts(k, r) ==
  /\ k = ctl.job
  /\ \/ ctl.pc = "launch" /\ r = [job[k] EXCEPT !.record = "launching"]
     \/ ctl.pc = "spawn" /\ r = [job[k] EXCEPT !.alive = TRUE]
     \/ ctl.pc = "spawn" /\ r = [job[k] EXCEPT !.record = "launch_failed"]
     \/ /\ ctl.pc = "spawn"
        /\ \E forked \in BOOLEAN :
             r = [job[k] EXCEPT !.record = "launch_failed", !.alive = forked]
     \/ ctl.pc = "register" /\ r = [job[k] EXCEPT !.record = "running"]

(* The controller finds it ended, or ends it.                            *)
Stops(k, r) ==
  /\ k = ctl.job /\ ctl.pc \in {"register", "watch"}
  /\ \/ ~job[k].alive /\ r = [job[k] EXCEPT !.record = "finished"]
     \/ job[k].alive /\ r \in Stopped(k)

Seals(k, r) ==
  /\ k = ctl.job /\ ctl.pc = "seal"
  /\ \/ /\ IsTraining(k) /\ ~Unresolved(k) /\ ~Sealed(k)
        /\ \E probed \in BOOLEAN : r = [job[k] EXCEPT !.receipt = ReceiptOf(k, probed)]
     \/ /\ ~IsTraining(k)
        /\ \E status \in {"completed", "incomplete"} :
             r = [job[k] EXCEPT !.receipt.status = status]

(* What a worker does by itself.                                         *)
Works(k, r) ==
  /\ job[k].alive
  /\ \/ /\ IsTraining(k) /\ job[k].rows < Reserved(k)
        /\ r = [job[k] EXCEPT !.rows = @ + 1]
     \/ /\ IsTraining(k) /\ job[k].rows < Reserved(k)
        /\ r = [job[k] EXCEPT !.alive = FALSE, !.done = "stopped",
                              !.rows = @ + 1, !.short = TRUE]
     \/ \E end \in {"none", "stopped", "completed", "failed"} :
          r = [job[k] EXCEPT !.alive = FALSE, !.done = end]

JobStep(k, r) ==
  \/ Opens(k, r) \/ Requests(k, r) \/ Starts(k, r) \/ Stops(k, r)
  \/ Seals(k, r) \/ Works(k, r)

Becomes(k, r) == job' = [job EXCEPT ![k] = r]

(* A step of a worker is one of its ways to work or to end.              *)
LEMMA WorkerWorks ==
  ASSUME TypeOK, NEW j \in Jobs, Work(j) \/ LearnerEnds(j) \/ EvaluatorEnds(j)
  PROVE  \E r : Works(j, r) /\ Becomes(j, r)
<1> job \in [Jobs -> Job]
  BY DEF TypeOK
<1>1. CASE Work(j)
  <2>1. Becomes(j, [job[j] EXCEPT !.rows = @ + 1])
    BY <1>1, Zenon DEF Work, Becomes
  <2>2. Works(j, [job[j] EXCEPT !.rows = @ + 1])
    BY <1>1 DEF Work, Works
  <2> QED BY <2>1, <2>2
<1>2. ASSUME NEW end \in {"none", "stopped", "completed", "failed"}, job[j].alive,
             job' = [job EXCEPT ![j].alive = FALSE, ![j].done = end]
      PROVE  \E r : Works(j, r) /\ Becomes(j, r)
  <2>1. Becomes(j, [job[j] EXCEPT !.alive = FALSE, !.done = end])
    BY <1>2, Zenon DEF Becomes
  <2>2. Works(j, [job[j] EXCEPT !.alive = FALSE, !.done = end])
    BY <1>2 DEF Works
  <2> QED BY <2>1, <2>2
<1>3. CASE LearnerEnds(j)
  <2>1. CASE /\ job[j].rows < Reserved(j)
             /\ job' = [job EXCEPT ![j].alive = FALSE, ![j].done = "stopped",
                                   ![j].rows = @ + 1, ![j].short = TRUE]
    <3> DEFINE r == [job[j] EXCEPT !.alive = FALSE, !.done = "stopped",
                                   !.rows = @ + 1, !.short = TRUE]
    <3>1. Becomes(j, r)
      BY <2>1, Zenon DEF Becomes
    <3>2. Works(j, r)
      BY <1>3, <2>1 DEF LearnerEnds, Works
    <3> QED BY <3>1, <3>2
  <2>2. ASSUME NEW end \in {"stopped", "none"},
               job' = [job EXCEPT ![j].alive = FALSE,
                                  ![j].done = IF end = "none" THEN end
                                              ELSE IF job[j].rows = Reserved(j)
                                                     THEN "completed" ELSE end]
        PROVE  \E r : Works(j, r) /\ Becomes(j, r)
    <3> DEFINE e == IF end = "none" THEN end
                    ELSE IF job[j].rows = Reserved(j) THEN "completed" ELSE end
    <3>1. e \in {"none", "stopped", "completed", "failed"} /\ job[j].alive
          /\ job' = [job EXCEPT ![j].alive = FALSE, ![j].done = e]
      BY <1>3, <2>2 DEF LearnerEnds
    <3> HIDE DEF e
    <3> QED BY <1>2, <3>1
  <2> QED BY <1>3, <2>1, <2>2 DEF LearnerEnds
<1>4. CASE EvaluatorEnds(j)
  BY <1>2, <1>4 DEF EvaluatorEnds
<1> QED BY <1>1, <1>3, <1>4

(* Every step changes the files of one job at most, in one of these ways.   *)
LEMMA StepIsJobStep ==
  ASSUME TypeOK, Next
  PROVE  UNCHANGED job \/ \E k \in Jobs : \E r : JobStep(k, r) /\ Becomes(k, r)
<1>0. job \in [Jobs -> Job] /\ ctl \in Controller /\ ctl.job \in Jobs
  BY DEF TypeOK, Controller
<1>1. ASSUME NEW j \in Jobs, Open(j), job' # job,
             \/ /\ ctl.pc = "train" /\ j = NextAttempt
                /\ ctl.completed < Updates /\ ctl.n < MaxRunAttempts
             \/ ctl.pc = "eval" /\ j = Evaluation(ctl.cell, ctl.seed, 1),
             ~job[j].made
      PROVE  \E r : JobStep(j, r) /\ Becomes(j, r)
  <2> DEFINE r == [job[j] EXCEPT !.made = TRUE]
  <2>1. job' = [job EXCEPT ![j].made = TRUE] /\ WorkersIn(Jobs) = {}
    BY <1>1 DEF Open
  <2>2. Becomes(j, r)
    BY <1>0, <2>1, Zenon DEF Becomes
  <2>3. \A i \in Jobs : ~Unresolved(i)
    BY <2>1 DEF WorkersIn
  <2>4. Opens(j, r)
    BY <1>1, <2>3 DEF Opens
  <2> QED BY <2>2, <2>4 DEF JobStep
<1>2. CASE OpenAttempt /\ job' # job
  <2>1. NextAttempt \in Jobs
    <3>1. ctl.cell \in Cells /\ ctl.n + 1 \in 1..MaxRunAttempts
      BY <1>0, <1>2, ConstantsAreNumbers DEF OpenAttempt, Controller
    <3> QED BY <3>1, AttemptsAreJobs DEF NextAttempt
  <2> QED BY <1>1, <1>2, <2>1 DEF OpenAttempt, At
<1>3. CASE OpenEvaluation /\ job' # job
  <2>1. PICK j \in NewEvaluation : Open(j)
    BY <1>3 DEF OpenEvaluation
  <2>2. j \in Evaluations(ctl.cell, ctl.seed) /\ j.n = 1 /\ EvaluationsMade = {}
    BY <2>1 DEF NewEvaluation
  <2>3. ctl.cell \in Cells /\ ctl.seed \in 1..SeedCount
    BY <1>0 DEF Controller
  <2>4. j = Evaluation(ctl.cell, ctl.seed, 1) /\ j \in Jobs
    <3>1. PICK n \in 1..2 : j = Evaluation(ctl.cell, ctl.seed, n)
      BY <2>2 DEF Evaluations
    <3>2. j \in Jobs /\ j.n = n
      BY <2>3, <3>1, EvaluationsAreJobs
    <3> QED BY <2>2, <3>1, <3>2
  <2>5. ~job[j].made
    BY <2>2 DEF EvaluationsMade, Made
  <2> QED BY <1>1, <1>3, <2>1, <2>4, <2>5 DEF OpenEvaluation, At
<1> DEFINE k == ctl.job
<1>4. CASE WriteRequest
  <2> DEFINE r == [job[k] EXCEPT !.request = TRUE,
                                 !.start = IF IsTraining(k) THEN ctl.completed ELSE 0]
  <2>1. Becomes(k, r)
    BY <1>0, <1>4, Zenon DEF WriteRequest, Becomes
  <2>2. Requests(k, r)
    BY <1>4 DEF WriteRequest, Requests, At
  <2> QED BY <1>0, <2>1, <2>2 DEF JobStep
<1>5. CASE WriteLaunch \/ Spawn \/ SpawnFails \/ Register \/ InterruptSpawn
  <2>1. ASSUME NEW status, Record(status), \/ status = "launching" /\ ctl.pc = "launch"
                                           \/ status = "launch_failed" /\ ctl.pc = "spawn"
                                           \/ status = "running" /\ ctl.pc = "register"
        PROVE  \E r : Starts(k, r) /\ Becomes(k, r)
    <3>1. Becomes(k, [job[k] EXCEPT !.record = status])
      BY <1>0, <2>1, Zenon DEF Record, Becomes
    <3>2. Starts(k, [job[k] EXCEPT !.record = status])
      BY <2>1 DEF Starts
    <3> QED BY <3>1, <3>2
  <2>2. CASE Spawn
    <3>1. Becomes(k, [job[k] EXCEPT !.alive = TRUE])
      BY <1>0, <2>2, Zenon DEF Spawn, Becomes
    <3>2. Starts(k, [job[k] EXCEPT !.alive = TRUE])
      BY <2>2 DEF Spawn, Starts, At
    <3> QED BY <1>0, <3>1, <3>2 DEF JobStep
  <2>3. CASE InterruptSpawn
    <3>1. PICK forked \in BOOLEAN :
            job' = [job EXCEPT ![k].record = "launch_failed", ![k].alive = forked]
      BY <2>3 DEF InterruptSpawn
    <3> DEFINE r == [job[k] EXCEPT !.record = "launch_failed", !.alive = forked]
    <3>2. Becomes(k, r)
      BY <1>0, <3>1, Zenon DEF Becomes
    <3>3. Starts(k, r)
      BY <2>3 DEF InterruptSpawn, Starts, At
    <3> QED BY <1>0, <3>2, <3>3 DEF JobStep
  <2> QED BY <1>0, <1>5, <2>1, <2>2, <2>3
          DEF WriteLaunch, SpawnFails, Register, At, JobStep
<1>6. CASE Reap \/ Timeout \/ InterruptWatch
  <2>1. ASSUME ~job[k].alive, Record("finished"), ctl.pc \in {"register", "watch"}
        PROVE  \E r : Stops(k, r) /\ Becomes(k, r)
    <3>1. Becomes(k, [job[k] EXCEPT !.record = "finished"])
      BY <1>0, <2>1, Zenon DEF Record, Becomes
    <3>2. Stops(k, [job[k] EXCEPT !.record = "finished"])
      BY <2>1 DEF Stops
    <3> QED BY <3>1, <3>2
  <2>2. ASSUME job[k].alive, NEW r \in Stopped(k), job' = [job EXCEPT ![k] = r],
               ctl.pc \in {"register", "watch"}
        PROVE  Stops(k, r) /\ Becomes(k, r)
    BY <2>2 DEF Stops, Becomes
  <2> QED BY <1>0, <1>6, <2>1, <2>2 DEF Reap, Timeout, InterruptWatch, At, JobStep
<1>7. CASE SealAttempt
  <2>1. PICK probed \in BOOLEAN : job' = [job EXCEPT ![k].receipt = ReceiptOf(k, probed)]
    BY <1>7 DEF SealAttempt
  <2> DEFINE r == [job[k] EXCEPT !.receipt = ReceiptOf(k, probed)]
  <2>2. Becomes(k, r)
    BY <1>0, <2>1, Zenon DEF Becomes
  <2>3. Seals(k, r)
    BY <1>7 DEF SealAttempt, Seals, At
  <2> QED BY <1>0, <2>2, <2>3 DEF JobStep
<1>8. CASE SealEvaluation
  <2> DEFINE proved == job[k].record = "finished" /\ job[k].done = "completed"
             status == IF proved THEN "completed" ELSE "incomplete"
             r == [job[k] EXCEPT !.receipt.status = status]
  <2>1. job' = [job EXCEPT ![k].receipt.status = status]
    BY <1>8 DEF SealEvaluation
  <2>2. status \in {"completed", "incomplete"}
    OBVIOUS
  <2> HIDE DEF status
  <2>3. Becomes(k, r)
    BY <1>0, <2>1, Zenon DEF Becomes
  <2>4. Seals(k, r)
    BY <1>8, <2>2 DEF SealEvaluation, Seals, At
  <2> QED BY <1>0, <2>3, <2>4 DEF JobStep
<1>9. ASSUME NEW j \in Jobs, Work(j) \/ LearnerEnds(j) \/ EvaluatorEnds(j)
      PROVE  \E r : JobStep(j, r) /\ Becomes(j, r)
  BY <1>9, WorkerWorks DEF JobStep
<1>10. CASE UNCHANGED job
  BY <1>10
<1>11. CASE Start \/ Acquire \/ GiveUp \/ TrainDone \/ OutOfAttempts \/ TakeUpAttempt
            \/ SealLater \/ CheckReceipt \/ TakeUpEvaluation \/ Audit
            \/ Kill \/ InterruptIdle \/ InterruptLaunch \/ InterruptRegister
  BY <1>11 DEF Start, Acquire, GiveUp, TrainDone, OutOfAttempts, TakeUpAttempt,
       SealLater, CheckReceipt, TakeUpEvaluation, Audit, Kill, InterruptIdle,
       InterruptLaunch, InterruptRegister
<1> HIDE DEF k
<1> QED BY <1>2, <1>3, <1>4, <1>5, <1>6, <1>7, <1>8, <1>9, <1>10, <1>11
        DEF Next, ControllerStep, WorkerStep, Fault

(* How a learner that is terminated may end.                             *)
LEMMA TerminatedIs ==
  ASSUME NEW j, NEW r \in Terminated(j)
  PROVE  \E cut \in {0, 1}, end \in {"none", "stopped"} :
           j.rows + cut <= Updates - j.start /\ r = Cut(j, cut, end)
  BY DEF Terminated

(* Such a step gives a job with the fields of one.                       *)
LEMMA JobStepType ==
  ASSUME TypeOK, NEW k \in Jobs, JobIsSane(k), NEW r, JobStep(k, r)
  PROVE  r \in Job
<1>0. job[k] \in Job /\ ctl.completed \in Nat /\ Updates \in Nat
  BY ConstantsAreNumbers DEF TypeOK, Controller
<1>1. CASE Opens(k, r)
  BY <1>0, <1>1 DEF Opens, Job
<1>2. CASE Requests(k, r)
  <2>1. (IF IsTraining(k) THEN ctl.completed ELSE 0) \in Nat
    BY <1>0
  <2> QED BY <1>0, <1>2, <2>1 DEF Requests, Job
<1>3. CASE Starts(k, r)
  <2>1. ASSUME NEW record \in {"launching", "launch_failed", "running"},
               r = [job[k] EXCEPT !.record = record]
        PROVE  r \in Job
    BY <1>0, <2>1 DEF Job
  <2>2. ASSUME r = [job[k] EXCEPT !.alive = TRUE]
        PROVE  r \in Job
    BY <1>0, <2>2 DEF Job
  <2>3. ASSUME NEW forked \in BOOLEAN,
               r = [job[k] EXCEPT !.record = "launch_failed", !.alive = forked]
        PROVE  r \in Job
    BY <1>0, <2>3 DEF Job
  <2> QED BY <1>3, <2>1, <2>2, <2>3 DEF Starts
<1>4. CASE Stops(k, r)
  <2>1. CASE r = [job[k] EXCEPT !.record = "finished"]
    BY <1>0, <2>1 DEF Job
  <2>2. CASE IsTraining(k) /\ r \in Terminated(job[k])
    <3>1. PICK cut \in {0, 1}, end \in {"none", "stopped"} : r = Cut(job[k], cut, end)
      BY <2>2, TerminatedIs
    <3>2. job[k].rows + cut \in Nat /\ (cut = 1) \in BOOLEAN
      BY <1>0 DEF Job
    <3> QED BY <1>0, <3>1, <3>2 DEF Job, Cut
  <2>3. CASE r = [job[k] EXCEPT !.alive = FALSE, !.record = "finished", !.done = "failed"]
    BY <1>0, <2>3 DEF Job
  <2> QED BY <1>4, <2>1, <2>2, <2>3 DEF Stops, Stopped
<1>5. CASE Seals(k, r)
  <2>1. ASSUME NEW probed \in BOOLEAN, IsTraining(k),
               r = [job[k] EXCEPT !.receipt = ReceiptOf(k, probed)]
        PROVE  r \in Job
    <3>1. Reserved(k) \in Nat /\ job[k].rows \in Nat
      BY <1>0, <2>1 DEF JobIsSane, Reserved, Job
    <3>2. ReceiptOf(k, probed) \in [status : {"none", "incomplete", "resumable", "completed"},
                                    charged : Nat, actual : Nat]
      BY <3>1 DEF ReceiptOf
    <3> HIDE DEF ReceiptOf
    <3> QED BY <1>0, <2>1, <3>2 DEF Job
  <2>2. ASSUME NEW status \in {"completed", "incomplete"},
               r = [job[k] EXCEPT !.receipt.status = status]
        PROVE  r \in Job
    BY <1>0, <2>2 DEF Job
  <2> QED BY <1>5, <2>1, <2>2 DEF Seals
<1>6. CASE Works(k, r)
  <2>1. job[k].rows + 1 \in Nat
    BY <1>0 DEF Job
  <2>2. ASSUME r = [job[k] EXCEPT !.rows = @ + 1]
        PROVE  r \in Job
    BY <1>0, <2>1, <2>2 DEF Job
  <2>3. ASSUME r = [job[k] EXCEPT !.alive = FALSE, !.done = "stopped",
                                  !.rows = @ + 1, !.short = TRUE]
        PROVE  r \in Job
    BY <1>0, <2>1, <2>3 DEF Job
  <2>4. ASSUME NEW end \in {"none", "stopped", "completed", "failed"},
               r = [job[k] EXCEPT !.alive = FALSE, !.done = end]
        PROVE  r \in Job
    BY <1>0, <2>4 DEF Job
  <2> QED BY <1>6, <2>2, <2>3, <2>4 DEF Works
<1> QED BY <1>1, <1>2, <1>3, <1>4, <1>5, <1>6 DEF JobStep

(* An attempt that is sealed as an endpoint is final.                    *)
LEMMA EndpointIsFinal ==
  ASSUME TypeOK, JobIsCurrent, NEW k \in Jobs, JobIsSane(k), IsTraining(k),
         job[k].receipt.status \in {"resumable", "completed"}
  PROVE  \A r : ~JobStep(k, r)
<1>0. job[k] \in Job /\ Sealed(k) /\ job[k].request /\ job[k].made /\ ~job[k].alive
  BY DEF TypeOK, JobIsSane, Exact, Sealed, Absent, NoReceipt
<1> SUFFICES ASSUME NEW r, JobStep(k, r) PROVE FALSE
  OBVIOUS
<1> QED BY <1>0 DEF JobStep, Opens, Requests, Starts, Stops, Seals, Works, JobIsCurrent, Busy

(* What every such step keeps and what only some may change.             *)
LEMMA JobStepKeeps ==
  ASSUME TypeOK, JobIsCurrent, NEW k \in Jobs, JobIsSane(k), NEW r, JobStep(k, r)
  PROVE  /\ job[k].made => r.made
         /\ r.made /\ ~job[k].made => Opens(k, r)
         /\ job[k].request => r.request /\ r.start = job[k].start
         /\ r.request /\ ~job[k].request => Requests(k, r)
         /\ r.receipt # job[k].receipt => Seals(k, r)
<1>0. job[k] \in Job
  BY DEF TypeOK
<1> DEFINE Kept == /\ r.made = job[k].made /\ r.request = job[k].request
                   /\ r.start = job[k].start /\ r.receipt = job[k].receipt
<1>1. CASE Opens(k, r)
  BY <1>0, <1>1 DEF Opens, Job
<1>2. CASE Requests(k, r)
  BY <1>0, <1>2 DEF Requests, Job, JobIsCurrent, Busy
<1>3. CASE Starts(k, r)
  <2>1. ASSUME NEW record \in {"launching", "launch_failed", "running"},
               r = [job[k] EXCEPT !.record = record]
        PROVE  Kept
    BY <1>0, <2>1 DEF Job
  <2>2. ASSUME r = [job[k] EXCEPT !.alive = TRUE]
        PROVE  Kept
    BY <1>0, <2>2 DEF Job
  <2>3. ASSUME NEW forked \in BOOLEAN,
               r = [job[k] EXCEPT !.record = "launch_failed", !.alive = forked]
        PROVE  Kept
    BY <1>0, <2>3 DEF Job
  <2> QED BY <1>3, <2>1, <2>2, <2>3 DEF Starts
<1>4. CASE Stops(k, r)
  <2>1. CASE r = [job[k] EXCEPT !.record = "finished"]
    BY <1>0, <2>1 DEF Job
  <2>2. CASE IsTraining(k) /\ r \in Terminated(job[k])
    <3>1. PICK cut \in {0, 1}, end \in {"none", "stopped"} : r = Cut(job[k], cut, end)
      BY <2>2, TerminatedIs
    <3> QED BY <1>0, <3>1 DEF Job, Cut
  <2>3. CASE r = [job[k] EXCEPT !.alive = FALSE, !.record = "finished", !.done = "failed"]
    BY <1>0, <2>3 DEF Job
  <2> QED BY <1>4, <2>1, <2>2, <2>3 DEF Stops, Stopped
<1>5. CASE Seals(k, r)
  BY <1>0, <1>5 DEF Seals, Job
<1>6. CASE Works(k, r)
  <2>2. ASSUME r = [job[k] EXCEPT !.rows = @ + 1]
        PROVE  Kept
    BY <1>0, <2>2 DEF Job
  <2>3. ASSUME r = [job[k] EXCEPT !.alive = FALSE, !.done = "stopped",
                                  !.rows = @ + 1, !.short = TRUE]
        PROVE  Kept
    BY <1>0, <2>3 DEF Job
  <2>4. ASSUME NEW end \in {"none", "stopped", "completed", "failed"},
               r = [job[k] EXCEPT !.alive = FALSE, !.done = end]
        PROVE  Kept
    BY <1>0, <2>4 DEF Job
  <2> QED BY <1>6, <2>2, <2>3, <2>4 DEF Works
<1> QED BY <1>1, <1>2, <1>3, <1>4, <1>5, <1>6 DEF JobStep

------------------------------------------------------------------------------
(* The files of a job stay sane *)

LEMMA OthersStay ==
  ASSUME TypeOK, NEW k \in Jobs, NEW r, Becomes(k, r)
  PROVE  job'[k] = r /\ \A j \in Jobs : j # k => job'[j] = job[j]
  BY DEF TypeOK, Becomes

LEMMA JobStepIsSane ==
  ASSUME Inv, NEW k \in Jobs, NEW r, JobStep(k, r), job'[k] = r
  PROVE  JobIsSane(k)'
<1>0. job[k] \in Job /\ r \in Job /\ JobIsSane(k) /\ Updates \in Nat
  BY JobStepType, ConstantsAreNumbers DEF Inv, TypeOK, JobsAreSane
<1> USE DEF JobIsSane, Exact, Reserved
<1>1. CASE Opens(k, r)
  <2>1. ~job[k].request /\ r = [job[k] EXCEPT !.made = TRUE]
    BY <1>0, <1>1 DEF Opens
  <2>2. job[k] = [Absent EXCEPT !.made = job[k].made]
    BY <1>0, <2>1
  <2>3. /\ ~r.request /\ r.made /\ ~r.alive /\ r.start = 0 /\ r.rows = 0
        /\ r.receipt.status = "none" /\ r.receipt.charged = 0
    BY <1>0, <2>1, <2>2 DEF Absent, NoReceipt, Job
  <2>4. r = [Absent EXCEPT !.made = TRUE]
    BY <2>1, <2>2 DEF Absent
  <2> QED BY <1>0, <2>3, <2>4
<1>2. CASE Requests(k, r)
  <2>1. ctl.pc = "request" /\ k = ctl.job /\ job[k].made /\ ~job[k].request
    BY <1>2 DEF Requests, Inv, JobIsCurrent, Busy
  <2>2. job[k] = [Absent EXCEPT !.made = job[k].made]
    BY <1>0, <2>1
  <2>3. /\ r.request /\ r.made /\ ~r.alive /\ r.rows = 0
        /\ r.receipt.status = "none" /\ r.receipt.charged = 0
        /\ IsTraining(k) => r.start = ctl.completed
    BY <1>0, <1>2, <2>1, <2>2 DEF Requests, Absent, NoReceipt, Job
  <2>4. IsTraining(k) => ctl.completed <= Updates /\ ctl.completed \in Nat
    BY <2>1 DEF Inv, ProgressIsReal, PastIsCounted, TrainsHere, Busy, TypeOK, Controller
  <2> QED BY <1>0, <2>3, <2>4
<1>3. CASE Starts(k, r)
  <2>1. /\ k = ctl.job /\ ctl.pc \in {"launch", "spawn", "register"}
        /\ job[k].request /\ ~Sealed(k) /\ job[k].made
        /\ ctl.pc = "spawn" => job[k].record = "launching"
        /\ ctl.pc = "launch" => ~job[k].alive
    BY <1>3 DEF Starts, Inv, JobIsCurrent, Busy
  <2>2. /\ r.request /\ r.made /\ r.start = job[k].start /\ r.rows = job[k].rows
        /\ r.receipt = job[k].receipt
        /\ r.alive => r.record \in {"launching", "running", "launch_failed"}
    <3>1. ASSUME NEW record \in {"launching", "running", "launch_failed"},
                 r = [job[k] EXCEPT !.record = record]
          PROVE  /\ r.request /\ r.made /\ r.start = job[k].start /\ r.rows = job[k].rows
                 /\ r.receipt = job[k].receipt /\ r.record = record
      BY <1>0, <2>1, <3>1 DEF Job
    <3>2. CASE ctl.pc = "spawn" /\ r = [job[k] EXCEPT !.alive = TRUE]
      BY <1>0, <2>1, <3>2 DEF Job
    <3>3. ASSUME NEW forked \in BOOLEAN,
                 r = [job[k] EXCEPT !.record = "launch_failed", !.alive = forked]
          PROVE  /\ r.request /\ r.made /\ r.start = job[k].start /\ r.rows = job[k].rows
                 /\ r.receipt = job[k].receipt /\ r.record = "launch_failed"
      BY <1>0, <2>1, <3>3 DEF Job
    <3> QED BY <1>3, <3>1, <3>2, <3>3 DEF Starts
  <2> QED BY <1>0, <2>1, <2>2 DEF Sealed
<1>4. CASE Stops(k, r)
  <2>1. k = ctl.job /\ job[k].request /\ ~Sealed(k) /\ job[k].made
    BY <1>4 DEF Stops, Inv, JobIsCurrent, Busy
  <2>2. /\ r.request /\ r.made /\ r.start = job[k].start /\ ~r.alive
        /\ r.receipt = job[k].receipt
        /\ IsTraining(k) => r.rows <= Updates - r.start
    <3>1. CASE r = [job[k] EXCEPT !.record = "finished"] /\ ~job[k].alive
      BY <1>0, <2>1, <3>1 DEF Job
    <3>2. CASE IsTraining(k) /\ r \in Terminated(job[k])
      <4>1. PICK cut \in {0, 1}, end \in {"none", "stopped"} :
              job[k].rows + cut <= Updates - job[k].start /\ r = Cut(job[k], cut, end)
        BY <3>2, TerminatedIs
      <4> QED BY <1>0, <2>1, <4>1 DEF Job, Cut
    <3>3. CASE ~IsTraining(k) /\ r = [job[k] EXCEPT !.alive = FALSE, !.record = "finished",
                                                    !.done = "failed"]
      BY <1>0, <2>1, <3>3 DEF Job
    <3> QED BY <1>4, <3>1, <3>2, <3>3 DEF Stops, Stopped
  <2> QED BY <1>0, <2>1, <2>2 DEF Sealed
<1>5. CASE Seals(k, r)
  <2>1. k = ctl.job /\ job[k].request /\ job[k].made
    BY <1>5 DEF Seals, Inv, JobIsCurrent, Busy
  <2>2. CASE ~IsTraining(k)
    <3>1. r.request /\ r.made /\ r.alive = job[k].alive /\ r.record = job[k].record
      BY <1>0, <1>5, <2>1, <2>2 DEF Seals, Job
    <3> QED BY <1>0, <2>2, <3>1
  <2>3. CASE IsTraining(k)
    <3>1. PICK probed \in BOOLEAN : r = [job[k] EXCEPT !.receipt = ReceiptOf(k, probed)]
      BY <1>5, <2>3 DEF Seals
    <3>2. /\ r.request /\ r.made /\ r.alive = job[k].alive /\ r.record = job[k].record
          /\ r.start = job[k].start /\ r.rows = job[k].rows /\ r.done = job[k].done
          /\ r.short = job[k].short /\ r.receipt = ReceiptOf(k, probed)
      BY <1>0, <2>1, <3>1 DEF Job
    <3>3. Exact(k)' = Exact(k) /\ Reserved(k)' = Reserved(k)
      BY <3>2
    <3>4. /\ r.receipt.status \in {"incomplete", "resumable", "completed"}
          /\ r.receipt.status = "incomplete" =>
               r.receipt.charged = Reserved(k) /\ r.receipt.actual = job[k].rows
          /\ r.receipt.status # "incomplete" =>
               /\ Exact(k) /\ r.receipt.charged = job[k].rows
               /\ r.receipt.status = "completed" <=> job[k].rows = Reserved(k)
      BY <3>2 DEF ReceiptOf
    <3> HIDE DEF Exact, Reserved
    <3>5. job[k].start <= Updates /\ job[k].rows <= Reserved(k) /\ job[k].rows \in Nat
      BY <1>0, <2>3 DEF Job
    <3> QED BY <1>0, <2>3, <3>2, <3>3, <3>4, <3>5
  <2> QED BY <2>2, <2>3
<1>6. CASE Works(k, r)
  <2>1. job[k].alive /\ job[k].request /\ job[k].made
    BY <1>0, <1>6 DEF Works, Absent
  <2>2. /\ r.request /\ r.made /\ r.start = job[k].start /\ r.record = job[k].record
        /\ r.receipt = job[k].receipt
        /\ r.rows \in {job[k].rows, job[k].rows + 1}
        /\ IsTraining(k) => r.rows <= Reserved(k)
    <3>1. CASE /\ IsTraining(k) /\ job[k].rows < Reserved(k)
               /\ r = [job[k] EXCEPT !.rows = @ + 1]
      BY <1>0, <2>1, <3>1 DEF Job
    <3>2. CASE /\ IsTraining(k) /\ job[k].rows < Reserved(k)
               /\ r = [job[k] EXCEPT !.alive = FALSE, !.done = "stopped",
                                     !.rows = @ + 1, !.short = TRUE]
      BY <1>0, <2>1, <3>2 DEF Job
    <3>3. ASSUME NEW end \in {"none", "stopped", "completed", "failed"},
                 r = [job[k] EXCEPT !.alive = FALSE, !.done = end]
          PROVE  /\ r.request /\ r.made /\ r.start = job[k].start
                 /\ r.record = job[k].record /\ r.receipt = job[k].receipt
                 /\ r.rows = job[k].rows
      BY <1>0, <2>1, <3>3 DEF Job
    <3>4. IsTraining(k) => job[k].rows <= Reserved(k)
      BY <1>0
    <3> QED BY <1>6, <3>1, <3>2, <3>3, <3>4 DEF Works
  <2>3. IsTraining(k) => job[k].receipt.status \in {"none", "incomplete"}
    BY <1>0, <2>1 DEF Job
  <2>4. job[k].rows \in Nat /\ job[k].receipt.actual \in Nat /\ job[k].start \in Nat
    BY <1>0 DEF Job
  <2> QED BY <1>0, <2>1, <2>2, <2>3, <2>4
<1> QED BY <1>1, <1>2, <1>3, <1>4, <1>5, <1>6 DEF JobStep

LEMMA JobsStaySane ==
  ASSUME Inv, Next
  PROVE  JobsAreSane' /\ job' \in [Jobs -> Job]
<1>1. JobsAreSane /\ TypeOK /\ job \in [Jobs -> Job]
  BY DEF Inv, TypeOK
<1>2. CASE UNCHANGED job
  BY <1>1, <1>2 DEF JobsAreSane, JobIsSane, Reserved, Exact
<1>3. ASSUME NEW k \in Jobs, NEW r, JobStep(k, r), Becomes(k, r)
      PROVE  JobsAreSane' /\ job' \in [Jobs -> Job]
  <2>1. job'[k] = r /\ \A j \in Jobs : j # k => job'[j] = job[j]
    BY <1>1, <1>3, OthersStay
  <2>2. JobIsSane(k)'
    BY <1>3, <2>1, JobStepIsSane
  <2>3. ASSUME NEW j \in Jobs, j # k PROVE JobIsSane(j)'
    <3>1. JobIsSane(j) /\ job'[j] = job[j]
      BY <1>1, <2>1, <2>3 DEF JobsAreSane
    <3> QED BY <3>1 DEF JobIsSane, Reserved, Exact
  <2>4. r \in Job
    BY <1>1, <1>3, JobStepType DEF JobsAreSane
  <2> QED BY <1>1, <1>3, <2>2, <2>3, <2>4 DEF JobsAreSane, Becomes
<1> QED BY <1>1, <1>2, <1>3, StepIsJobStep

------------------------------------------------------------------------------
(* Chains stay linked and evaluations due *)

Endpoint(c, n) == Status(c, n) \in {"resumable", "completed"}

(* What a step keeps of a job, and how a directory or request comes about.  *)
LEMMA FilesStay ==
  ASSUME Inv, Next, NEW j \in Jobs
  PROVE  /\ job[j].made => job'[j].made
         /\ job[j].request => job'[j].request /\ job'[j].start = job[j].start
         /\ ~job[j].made /\ job'[j].made => Opens(j, job'[j])
         /\ ~job[j].request /\ job'[j].request => Requests(j, job'[j])
<1>1. TypeOK /\ JobIsCurrent /\ JobIsSane(j)
  BY DEF Inv, JobsAreSane
<1>2. CASE job'[j] = job[j]
  BY <1>2
<1>3. CASE job'[j] # job[j]
  <2>1. PICK k \in Jobs : \E r : JobStep(k, r) /\ Becomes(k, r)
    BY <1>1, <1>3, StepIsJobStep
  <2>2. PICK r : JobStep(k, r) /\ Becomes(k, r)
    BY <2>1
  <2>3. k = j /\ job'[j] = r
    BY <1>1, <1>3, <2>2, OthersStay
  <2> QED BY <1>1, <2>2, <2>3, JobStepKeeps
<1> QED BY <1>2, <1>3

(* An endpoint stays what it is.                                         *)
LEMMA EndpointsStay ==
  ASSUME Inv, Next, NEW c \in Cells, NEW n \in 1..MaxRunAttempts, Endpoint(c, n)
  PROVE  job'[Attempt(c, n)] = job[Attempt(c, n)] /\ Status(c, n)' = Status(c, n)
<1> DEFINE j == Attempt(c, n)
<1>1. j \in Jobs /\ IsTraining(j)
  BY AttemptsAreJobs
<1>2. TypeOK /\ JobIsCurrent /\ JobIsSane(j)
  BY <1>1 DEF Inv, JobsAreSane
<1>3. \A r : ~JobStep(j, r)
  BY <1>1, <1>2, EndpointIsFinal DEF Endpoint, Status
<1>4. job'[j] = job[j]
  <2>1. ASSUME NEW k \in Jobs, NEW r, JobStep(k, r), Becomes(k, r)
        PROVE  job'[j] = job[j]
    BY <1>1, <1>2, <1>3, <2>1, OthersStay
  <2> QED BY <1>2, <2>1, StepIsJobStep
<1> QED BY <1>4 DEF Status

(* A sealed attempt was requested, and what is requested is made.        *)
LEMMA SealedIsMade ==
  ASSUME JobsAreSane, NEW c \in Cells, NEW n \in 1..MaxRunAttempts, Status(c, n) # "none"
  PROVE  job[Attempt(c, n)].request /\ job[Attempt(c, n)].made
<1>1. JobIsSane(Attempt(c, n))
  BY AttemptsAreJobs DEF JobsAreSane
<1> QED BY <1>1 DEF JobIsSane, Status, Absent, NoReceipt

(* The work before an attempt is that of the one before it and of what was  *)
(* before that.                                                          *)
LEMMA WorkedNext ==
  ASSUME NEW c
  PROVE  /\ WorkedBefore(c, 1) = 0
         /\ \A n \in 1..MaxRunAttempts :
              WorkedBefore(c, n + 1) = WorkedBefore(c, n) + job[Attempt(c, n)].rows
<1>1. WorkedBefore(c, 1) = 0
  BY SumNext DEF WorkedBefore
<1>2. ASSUME NEW n \in 1..MaxRunAttempts
      PROVE  WorkedBefore(c, n + 1) = WorkedBefore(c, n) + job[Attempt(c, n)].rows
  <2> DEFINE f == Rows(c)
  <2>1. f[n] = job[Attempt(c, n)].rows
    BY DEF Rows
  <2>2. PICK m \in Nat : m = n - 1
    BY ConstantsAreNumbers
  <2>3. n = m + 1 /\ n + 1 - 1 = m + 1
    BY <2>2
  <2> HIDE DEF f
  <2>4. SumTo(m + 1, f) = SumTo(m, f) + f[m + 1]
    BY SumNext
  <2> QED BY <2>1, <2>2, <2>3, <2>4 DEF WorkedBefore, f
<1> QED BY <1>1, <1>2

LEMMA WorkedNextAfter ==
  ASSUME NEW c
  PROVE  /\ WorkedBefore(c, 1)' = 0
         /\ \A n \in 1..MaxRunAttempts :
              WorkedBefore(c, n + 1)' = WorkedBefore(c, n)' + job'[Attempt(c, n)].rows
<1>1. WorkedBefore(c, 1)' = 0
  <2>1. SumTo(0, Rows(c)') = 0
    BY SumNext
  <2> QED BY <2>1 DEF WorkedBefore
<1>2. ASSUME NEW n \in 1..MaxRunAttempts
      PROVE  WorkedBefore(c, n + 1)' = WorkedBefore(c, n)' + job'[Attempt(c, n)].rows
  <2>1. Rows(c)'[n] = job'[Attempt(c, n)].rows
    BY DEF Rows
  <2>2. PICK m \in Nat : m = n - 1
    BY ConstantsAreNumbers
  <2>3. n = m + 1 /\ n + 1 - 1 = m + 1
    BY <2>2
  <2>4. SumTo(m + 1, Rows(c)') = SumTo(m, Rows(c)') + Rows(c)'[m + 1]
    BY SumNext
  <2> QED BY <2>1, <2>2, <2>3, <2>4 DEF WorkedBefore
<1> QED BY <1>1, <1>2

(* Behind endpoints nothing is added any more.                           *)
LEMMA WorkedBeforeStays ==
  ASSUME Inv, Next, NEW c \in Cells, NEW n \in 1..MaxRunAttempts + 1,
         \A i \in 1..n - 1 : Endpoint(c, i)
  PROVE  WorkedBefore(c, n)' = WorkedBefore(c, n)
<1>1. ASSUME NEW i \in 1..n - 1
      PROVE  Rows(c)[i] = Rows(c)'[i]
  <2>1. i \in 1..MaxRunAttempts
    BY ConstantsAreNumbers
  <2> QED BY <2>1, EndpointsStay DEF Rows
<1>2. Same(Rows(c), Rows(c)', n - 1) /\ n - 1 \in Nat
  BY <1>1, ConstantsAreNumbers DEF Same
<1>3. SumTo(n - 1, Rows(c)) = SumTo(n - 1, Rows(c)')
  BY <1>2, SumSame
<1> QED BY <1>3 DEF WorkedBefore

(* Attempts up to an endpoint end in resumable ones.                     *)
LEMMA EndpointsAreLinked ==
  ASSUME Inv, NEW c \in Cells, NEW n \in 1..MaxRunAttempts, Status(c, n) # "none"
  PROVE  /\ \A i \in 1..n - 1 : Status(c, i) = "resumable"
         /\ job[Attempt(c, n)].start = WorkedBefore(c, n)
         /\ Status(c, n) = "completed" => WorkedBefore(c, n + 1) = Updates
         /\ Status(c, n) = "resumable" => WorkedBefore(c, n + 1) # Updates
<1> DEFINE j == Attempt(c, n)
<1>1. job[j].request /\ job[j].made
  BY SealedIsMade DEF Inv
<1>2. /\ \A i \in 1..n - 1 : Status(c, i) = "resumable"
      /\ job[j].start = WorkedBefore(c, n)
  BY <1>1 DEF Inv, ChainsAreLinked
<1>3. WorkedBefore(c, n + 1) = job[j].start + job[j].rows
  BY <1>2, WorkedNext
<1>4. j \in Jobs /\ IsTraining(j)
  BY AttemptsAreJobs
<1>5. JobIsSane(j) /\ job[j] \in Job
  BY <1>4 DEF Inv, JobsAreSane, TypeOK
<1>6. job[j].start \in Nat /\ job[j].rows \in Nat /\ Updates \in Nat
  BY <1>5, ConstantsAreNumbers DEF Job
<1>7. Endpoint(c, n) => (Status(c, n) = "completed" <=> job[j].rows = Updates - job[j].start)
  BY <1>4, <1>5 DEF JobIsSane, Endpoint, Status, Reserved
<1> HIDE DEF j
<1> QED BY <1>2, <1>3, <1>6, <1>7 DEF Endpoint, j

(* A controller that still trains has only resumable attempts behind it. *)
LEMMA PastIsResumable ==
  ASSUME Inv, TrainsHere, ctl.completed < Updates
  PROVE  \A i \in 1..ctl.n : Status(ctl.cell, i) = "resumable"
<1>1. /\ ctl.cell \in Cells /\ ctl.n \in 0..MaxRunAttempts
      /\ \A i \in 1..ctl.n : Status(ctl.cell, i) \in {"resumable", "completed"}
      /\ ctl.completed = WorkedBefore(ctl.cell, ctl.n + 1)
  BY DEF Inv, TypeOK, Controller, ProgressIsReal, PastIsCounted
<1> SUFFICES ASSUME NEW i \in 1..ctl.n PROVE Status(ctl.cell, i) = "resumable"
  OBVIOUS
<1>2. ctl.n \in 1..MaxRunAttempts /\ Updates \in Nat
  BY <1>1, ConstantsAreNumbers
<1>3. Status(ctl.cell, ctl.n) \in {"resumable", "completed"}
  BY <1>1, <1>2
<1>4. Status(ctl.cell, ctl.n) # "completed"
  BY <1>1, <1>2, <1>3, EndpointsAreLinked
<1>5. \A k \in 1..ctl.n - 1 : Status(ctl.cell, k) = "resumable"
  BY <1>1, <1>2, <1>3, EndpointsAreLinked
<1>6. i = ctl.n \/ i \in 1..ctl.n - 1
  BY <1>2
<1> QED BY <1>3, <1>4, <1>5, <1>6

(* A cell with its whole budget is trained.                              *)
LEMMA DoneIsTrained ==
  ASSUME Inv, TrainsHere, ctl.completed = Updates
  PROVE  Trained(ctl.cell)
<1>1. /\ ctl.cell \in Cells /\ ctl.n \in 0..MaxRunAttempts
      /\ \A i \in 1..ctl.n : Status(ctl.cell, i) \in {"resumable", "completed"}
      /\ ctl.completed = WorkedBefore(ctl.cell, ctl.n + 1)
  BY DEF Inv, TypeOK, Controller, ProgressIsReal, PastIsCounted
<1>2. ctl.n # 0
  <2> SUFFICES ASSUME ctl.n = 0 PROVE FALSE
    OBVIOUS
  <2>1. WorkedBefore(ctl.cell, ctl.n + 1) = 0
    BY WorkedNext
  <2> QED BY <1>1, <2>1, ConstantsAreNumbers
<1>3. ctl.n \in 1..MaxRunAttempts
  BY <1>1, <1>2, ConstantsAreNumbers
<1>4. Status(ctl.cell, ctl.n) \in {"resumable", "completed"}
  BY <1>1, <1>3
<1>5. Status(ctl.cell, ctl.n) = "completed"
  BY <1>1, <1>3, <1>4, EndpointsAreLinked
<1> QED BY <1>3, <1>5 DEF Trained

LEMMA TrainedStays ==
  ASSUME Inv, Next, NEW c \in Cells, Trained(c)
  PROVE  Trained(c)'
<1>1. PICK n \in 1..MaxRunAttempts : Status(c, n) = "completed"
  BY DEF Trained
<1>2. Status(c, n)' = Status(c, n)
  BY <1>1, EndpointsStay DEF Endpoint
<1> QED BY <1>1, <1>2 DEF Trained

(* The job of a busy controller.                                         *)
LEMMA BusyJob ==
  ASSUME Inv, ctl.pc \in Busy
  PROVE  /\ IsTraining(ctl.job) => /\ ctl.n + 1 \in 1..MaxRunAttempts /\ ctl.n \in Nat
                                   /\ ctl.job = Attempt(ctl.cell, ctl.n + 1)
         /\ ~IsTraining(ctl.job) => ctl.job = Evaluation(ctl.cell, ctl.seed, 1)
         /\ ctl.cell \in Cells /\ ctl.seed \in 1..SeedCount
<1>1. /\ ctl.cell \in Cells /\ ctl.seed \in 1..SeedCount /\ ctl.n \in 0..MaxRunAttempts
      /\ \/ ctl.n < MaxRunAttempts /\ ctl.job = Attempt(ctl.cell, ctl.n + 1)
         \/ ctl.job = Evaluation(ctl.cell, ctl.seed, 1)
  BY DEF Inv, TypeOK, Controller, JobIsCurrent, NextAttempt
<1>2. ctl.n < MaxRunAttempts => ctl.n + 1 \in 1..MaxRunAttempts /\ ctl.n \in Nat
  BY <1>1, ConstantsAreNumbers
<1>3. ~IsTraining(Evaluation(ctl.cell, ctl.seed, 1))
  BY <1>1, EvaluationsAreJobs
<1>4. ctl.n < MaxRunAttempts => IsTraining(Attempt(ctl.cell, ctl.n + 1))
  BY <1>1, <1>2, AttemptsAreJobs
<1> QED BY <1>1, <1>2, <1>3, <1>4

LEMMA SameAttempt ==
  ASSUME NEW c, NEW n, NEW d, NEW m, Attempt(c, n) = Attempt(d, m)
  PROVE  c = d /\ n = m
  BY DEF Attempt

LEMMA SameEvaluation ==
  ASSUME NEW c, NEW s, NEW n, NEW d, NEW t, NEW m, Evaluation(c, s, n) = Evaluation(d, t, m)
  PROVE  c = d /\ s = t /\ n = m
  BY DEF Evaluation

LEMMA ChainsStayLinked ==
  ASSUME Inv, Next
  PROVE  ChainsAreLinked'
<1> SUFFICES ASSUME NEW c \in Cells, NEW n \in 1..MaxRunAttempts
             PROVE  /\ job'[Attempt(c, n)].made =>
                         \A i \in 1..n - 1 : Status(c, i)' = "resumable"
                    /\ job'[Attempt(c, n)].request =>
                         job'[Attempt(c, n)].start = WorkedBefore(c, n)'
  BY DEF ChainsAreLinked
<1> DEFINE j == Attempt(c, n)
<1>0. j \in Jobs /\ IsTraining(j) /\ \A i \in 1..n - 1 : i \in 1..MaxRunAttempts
  BY AttemptsAreJobs, ConstantsAreNumbers
<1>1. ASSUME \A i \in 1..n - 1 : Status(c, i) = "resumable"
      PROVE  /\ \A i \in 1..n - 1 : Status(c, i)' = "resumable"
             /\ WorkedBefore(c, n)' = WorkedBefore(c, n)
  <2>1. \A i \in 1..n - 1 : Endpoint(c, i)
    BY <1>1 DEF Endpoint
  <2>2. \A i \in 1..n - 1 : Status(c, i)' = "resumable"
    BY <1>0, <1>1, <2>1, EndpointsStay
  <2>3. n \in 1..MaxRunAttempts + 1
    BY ConstantsAreNumbers
  <2> QED BY <2>1, <2>2, <2>3, WorkedBeforeStays
<1>2. CASE job[j].made
  <2>1. \A i \in 1..n - 1 : Status(c, i) = "resumable"
    BY <1>2 DEF Inv, ChainsAreLinked
  <2>2. CASE job[j].request
    <3>1. job[j].start = WorkedBefore(c, n)
      BY <2>2 DEF Inv, ChainsAreLinked
    <3> QED BY <1>0, <1>1, <2>1, <2>2, <3>1, FilesStay
  <2>3. CASE ~job[j].request /\ job'[j].request
    <3>1. Requests(j, job'[j])
      BY <1>0, <2>3, FilesStay
    <3>2. ctl.pc = "request" /\ j = ctl.job
      BY <3>1 DEF Requests
    <3>3. j = Attempt(ctl.cell, ctl.n + 1) /\ TrainsHere /\ ctl.n \in Nat
      BY <1>0, <3>2, BusyJob DEF Busy, TrainsHere
    <3>4. c = ctl.cell /\ n = ctl.n + 1
      BY <3>3, SameAttempt DEF j
    <3>5. job'[j].start = ctl.completed
      <4>1. job[j] \in Job
        BY <1>0 DEF Inv, TypeOK
      <4>2. job'[j] = [job[j] EXCEPT !.request = TRUE, !.start = ctl.completed]
        BY <1>0, <3>1 DEF Requests
      <4> QED BY <4>1, <4>2 DEF Job
    <3>6. ctl.completed = WorkedBefore(ctl.cell, ctl.n + 1)
      BY <3>3 DEF Inv, ProgressIsReal, PastIsCounted
    <3> QED BY <1>1, <2>1, <3>4, <3>5, <3>6
  <2> QED BY <1>1, <2>1, <2>2, <2>3
<1>3. CASE ~job[j].made /\ job'[j].made
  <2>1. Opens(j, job'[j])
    BY <1>0, <1>3, FilesStay
  <2>2. ~(\E s : j = Evaluation(ctl.cell, s, 1))
    BY <1>0 DEF Evaluation, IsTraining
  <2>3. ctl.pc = "train" /\ j = Attempt(ctl.cell, ctl.n + 1) /\ ctl.completed < Updates
    BY <2>1, <2>2 DEF Opens, NextAttempt
  <2>4. c = ctl.cell /\ n = ctl.n + 1 /\ ctl.n \in Nat
    BY <2>3, SameAttempt DEF j, Inv, TypeOK, Controller
  <2>5. \A i \in 1..ctl.n : Status(ctl.cell, i) = "resumable"
    BY <2>3, PastIsResumable DEF TrainsHere
  <2>6. \A i \in 1..n - 1 : Status(c, i) = "resumable"
    BY <2>4, <2>5
  <2>7. ~job'[j].request
    <3>1. ~job[j].request
      BY <1>0, <1>3 DEF Inv, JobsAreSane, JobIsSane
    <3>2. job'[j] = [job[j] EXCEPT !.made = TRUE] /\ job[j] \in Job
      BY <1>0, <2>1 DEF Opens, Inv, TypeOK
    <3> QED BY <3>1, <3>2 DEF Job
  <2> QED BY <1>1, <2>6, <2>7
<1>4. CASE ~job[j].made /\ ~job'[j].made
  <2>1. JobIsSane(j)'
    BY <1>0, JobsStaySane DEF JobsAreSane
  <2> QED BY <1>4, <2>1 DEF JobIsSane
<1> QED BY <1>2, <1>3, <1>4

LEMMA EvaluationsStayDue ==
  ASSUME Inv, Next
  PROVE  EvaluationsAreDue'
<1> SUFFICES ASSUME NEW c \in Cells, NEW s \in 1..SeedCount, NEW n \in 1..2,
                    job'[Evaluation(c, s, n)].made
             PROVE  n = 1 /\ Trained(c)'
  BY DEF EvaluationsAreDue
<1> DEFINE j == Evaluation(c, s, n)
<1>0. j \in Jobs /\ ~IsTraining(j)
  BY EvaluationsAreJobs
<1>1. CASE job[j].made
  <2>1. n = 1 /\ Trained(c)
    BY <1>1 DEF Inv, EvaluationsAreDue
  <2> QED BY <2>1, TrainedStays
<1>2. CASE ~job[j].made
  <2>1. Opens(j, job'[j])
    BY <1>0, <1>2, FilesStay
  <2>2. j # NextAttempt
    BY <1>0 DEF NextAttempt, Attempt, IsTraining
  <2>3. ctl.pc = "eval" /\ j = Evaluation(ctl.cell, ctl.seed, 1)
    BY <2>1, <2>2 DEF Opens
  <2>4. c = ctl.cell /\ n = 1
    BY <2>3, SameEvaluation DEF j
  <2>5. Trained(ctl.cell)
    BY <2>3 DEF Inv, ProgressIsReal, PastIsCounted
  <2> QED BY <2>4, <2>5, TrainedStays
<1> QED BY <1>1, <1>2

------------------------------------------------------------------------------
(* How the controller moves *)

(* It has nothing to do with a job any more.                             *)
Rests ==
  /\ ctl' \in Controller /\ ~ctl'.raised
  /\ \/ ctl'.pc \in {"off", "wait", "audit"}
     \/ ctl'.pc = "train" /\ ctl'.n = 0 /\ ctl'.completed = 0

Evaluates ==
  /\ ctl' \in Controller /\ ~ctl'.raised
  /\ ctl'.pc = "eval" /\ ctl'.cell = ctl.cell /\ Trained(ctl.cell)

Opening ==
  \E k \in Jobs : /\ Opens(k, [job[k] EXCEPT !.made = TRUE])
                  /\ Becomes(k, [job[k] EXCEPT !.made = TRUE])
                  /\ ctl' = [ctl EXCEPT !.pc = "request", !.job = k]

(* It takes up what an earlier run left.                                 *)
TakesUp ==
  /\ UNCHANGED job
  /\ \/ /\ ctl.pc = "train" /\ ctl.completed < Updates /\ ctl.n < MaxRunAttempts
        /\ job[NextAttempt].made /\ job[NextAttempt].request
        /\ job[NextAttempt].start = ctl.completed
        /\ ctl' = [ctl EXCEPT !.pc = "seal", !.job = NextAttempt]
     \/ /\ ctl.pc = "eval"
        /\ \E j \in Jobs :
             /\ j = Evaluation(ctl.cell, ctl.seed, 1)
             /\ job[j].made /\ job[j].request
             /\ ctl' = [ctl EXCEPT !.pc = "seal", !.job = j]

Advances(p, q) == ctl.pc = p /\ ctl' = [ctl EXCEPT !.pc = q]

Starting ==
  LET k == ctl.job IN
  \/ Advances("request", "launch") /\ Requests(k, job'[k]) /\ Becomes(k, job'[k])
  \/ Advances("launch", "spawn") /\ Becomes(k, [job[k] EXCEPT !.record = "launching"])
  \/ Advances("spawn", "register") /\ Becomes(k, [job[k] EXCEPT !.alive = TRUE])
  \/ Advances("register", "watch") /\ Becomes(k, [job[k] EXCEPT !.record = "running"])

(* A worker has ended, or a launch or a watch was cut short.             *)
Ending ==
  /\ \/ Advances("watch", "seal")
     \/ /\ ctl.pc \in {"launch", "spawn", "register", "watch"} /\ IsTraining(ctl.job)
        /\ ctl' = [ctl EXCEPT !.pc = "seal", !.raised = TRUE]
  /\ job'[ctl.job].receipt = job[ctl.job].receipt

(* It goes on behind an endpoint.                                        *)
Passes ==
  /\ ctl.pc = "seal" /\ IsTraining(ctl.job) /\ ~ctl.raised
  /\ job'[ctl.job].receipt.status \in {"resumable", "completed"}
  /\ ctl' = [ctl EXCEPT !.pc = "train", !.n = @ + 1,
                        !.completed = @ + job'[ctl.job].receipt.charged]

Watching ==
  /\ ctl' = ctl
  /\ \A j \in Jobs : job'[j] = job[j] \/ Works(j, job'[j])

Move ==
  Rests \/ Evaluates \/ Opening \/ TakesUp \/ Starting \/ Ending \/ Passes \/ Watching

LEMMA Resting ==
  ASSUME Inv
  PROVE  /\ ctl' = Off => Rests
         /\ ctl' = ToCell(1) => Rests
         /\ ctl' = ToCell(ctl.cell + 1) => Rests
         /\ \A status : Exit(status) => Rests
         /\ Fail => Rests
<1>1. ctl.cell + 1 \in Nat \ {0} /\ 1 \in Nat \ {0}
  BY ConstantsAreNumbers DEF Inv, TypeOK, Controller, Cells
<1>2. Off \in Controller /\ Off.pc = "off" /\ Off.raised = FALSE
  BY <1>1, ToCellType DEF Off
<1>3. ASSUME NEW c \in Nat \ {0}, ctl' = ToCell(c) PROVE Rests
  BY <1>3, ToCellType DEF Rests
<1>4. ctl' = Off => Rests
  BY <1>2 DEF Rests
<1> QED BY <1>1, <1>3, <1>4 DEF Exit, Fail

LEMMA SeedsFollow ==
  ASSUME Inv, ctl' = ToSeed(ctl.seed + 1), ~ctl.raised, Trained(ctl.cell)
  PROVE  Rests \/ Evaluates
<1>1. ctl \in Controller /\ ctl.seed \in 1..SeedCount
  BY DEF Inv, TypeOK, Controller
<1>2. CASE ctl.seed + 1 <= SeedCount
  <2>1. ctl' = [ctl EXCEPT !.pc = "eval", !.seed = ctl.seed + 1]
    BY <1>2 DEF ToSeed
  <2>2. ctl' \in Controller
    BY <1>1, ToSeedType
  <2> QED BY <1>1, <2>1, <2>2 DEF Evaluates, Controller
<1>3. CASE ~(ctl.seed + 1 <= SeedCount)
  BY <1>3, Resting DEF ToSeed
<1> QED BY <1>2, <1>3

(* Every step is one of these moves.                                     *)
LEMMA NextIsMove ==
  ASSUME Inv, Next
  PROVE  Move
<1>0. /\ job \in [Jobs -> Job] /\ ctl \in Controller /\ ctl.job \in Jobs /\ TypeOK
      /\ ctl.raised => ctl.pc = "seal" /\ IsTraining(ctl.job) /\ ~Sealed(ctl.job)
      /\ ctl.raised \in BOOLEAN
  BY DEF Inv, TypeOK, Controller, JobIsCurrent
<1>1. CASE Start
  <2>1. ctl' = [ctl EXCEPT !.pc = "wait"] /\ ctl.pc = "off"
    BY <1>1 DEF Start, GoTo, At
  <2>2. Rests
    BY <1>0, <2>1 DEF Rests, Controller, Places
  <2> QED BY <2>2 DEF Move
<1>2. CASE \/ Acquire \/ GiveUp \/ OutOfAttempts \/ SealLater \/ Audit \/ Kill \/ InterruptIdle
  BY <1>2, Resting DEF Acquire, GiveUp, OutOfAttempts, SealLater, Audit, Kill, InterruptIdle, Move
<1>3. CASE TrainDone
  <2>1. Trained(ctl.cell) /\ ctl.pc = "train"
    BY <1>3, DoneIsTrained DEF TrainDone, At, TrainsHere
  <2>2. ctl' = [ctl EXCEPT !.pc = "eval", !.seed = 1] /\ 1 \in 1..SeedCount
    BY <1>3, ConstantsAreNumbers DEF TrainDone
  <2>3. Evaluates
    BY <1>0, <2>1, <2>2 DEF Evaluates, Controller, Places
  <2> QED BY <2>3 DEF Move
<1>4. CASE TakeUpAttempt
  BY <1>4, Resting DEF TakeUpAttempt, TakesUp, Move, At
<1>5. ASSUME NEW k \in Jobs, Open(k), ~job[k].made,
             \/ /\ ctl.pc = "train" /\ k = NextAttempt
                /\ ctl.completed < Updates /\ ctl.n < MaxRunAttempts
             \/ ctl.pc = "eval" /\ k = Evaluation(ctl.cell, ctl.seed, 1)
      PROVE  Move
  <2>1. CASE WorkersIn(Jobs) = {}
    <3>1. /\ job' = [job EXCEPT ![k].made = TRUE]
          /\ ctl' = [ctl EXCEPT !.pc = "request", !.job = k]
      BY <1>5, <2>1 DEF Open
    <3>2. Becomes(k, [job[k] EXCEPT !.made = TRUE])
      BY <1>0, <3>1, Zenon DEF Becomes
    <3>3. \A i \in Jobs : ~Unresolved(i)
      BY <2>1 DEF WorkersIn
    <3>4. Opens(k, [job[k] EXCEPT !.made = TRUE])
      BY <1>5, <3>3 DEF Opens
    <3>5. Opening
      BY <3>1, <3>2, <3>4 DEF Opening
    <3> QED BY <3>5 DEF Move
  <2>2. CASE WorkersIn(Jobs) # {}
    BY <1>5, <2>2, Resting DEF Open, Move
  <2> QED BY <2>1, <2>2
<1>6. CASE OpenAttempt
  <2>1. ctl.cell \in Cells /\ ctl.n + 1 \in 1..MaxRunAttempts
    BY <1>0, <1>6, ConstantsAreNumbers DEF OpenAttempt, Controller
  <2>2. NextAttempt \in Jobs
    BY <2>1, AttemptsAreJobs DEF NextAttempt
  <2> QED BY <1>5, <1>6, <2>2 DEF OpenAttempt, At
<1> DEFINE k == ctl.job
<1>7. CASE WriteRequest
  <2> DEFINE r == [job[k] EXCEPT !.request = TRUE,
                                 !.start = IF IsTraining(k) THEN ctl.completed ELSE 0]
  <2>1. Becomes(k, r)
    BY <1>0, <1>7, Zenon DEF WriteRequest, Becomes
  <2>2. Requests(k, r)
    BY <1>7 DEF WriteRequest, Requests, At
  <2> HIDE DEF r
  <2>3. job'[k] = r
    BY <1>0, <2>1, OthersStay
  <2>4. Advances("request", "launch")
    BY <1>7 DEF WriteRequest, At, GoTo, Advances
  <2>5. Starting
    BY <2>1, <2>2, <2>3, <2>4 DEF Starting
  <2> QED BY <2>5 DEF Move
<1>8. CASE WriteLaunch
  <2>1. Becomes(k, [job[k] EXCEPT !.record = "launching"])
    BY <1>0, <1>8, Zenon DEF WriteLaunch, Record, Becomes
  <2>2. Advances("launch", "spawn")
    BY <1>8 DEF WriteLaunch, At, GoTo, Advances
  <2> QED BY <2>1, <2>2 DEF Starting, Move
<1>9. CASE Spawn
  <2>1. Becomes(k, [job[k] EXCEPT !.alive = TRUE])
    BY <1>0, <1>9, Zenon DEF Spawn, Becomes
  <2>2. Advances("spawn", "register")
    BY <1>9 DEF Spawn, At, GoTo, Advances
  <2> QED BY <2>1, <2>2 DEF Starting, Move
<1>10. CASE Register
  <2>1. Becomes(k, [job[k] EXCEPT !.record = "running"])
    BY <1>0, <1>10, Zenon DEF Register, Record, Becomes
  <2>2. Advances("register", "watch")
    BY <1>10 DEF Register, At, GoTo, Advances
  <2> QED BY <2>1, <2>2 DEF Starting, Move
<1>11. ASSUME job'[k].receipt = job[k].receipt, ctl.pc \in {"launch", "spawn", "register", "watch"},
              \/ ctl.pc = "watch" /\ GoTo("seal")
              \/ ctl' = IF IsTraining(k)
                          THEN [ctl EXCEPT !.pc = "seal", !.raised = TRUE] ELSE Off
              \/ Raise
       PROVE  Move
  BY <1>11, Resting DEF Ending, Advances, GoTo, Raise, Move
<1>12. ASSUME NEW r, Stops(k, r) \/ Starts(k, r), Becomes(k, r)
       PROVE  job'[k].receipt = job[k].receipt
  <2>1. job'[k] = r /\ JobIsSane(k) /\ JobIsCurrent /\ JobStep(k, r)
    BY <1>0, <1>12, OthersStay DEF Inv, JobsAreSane, JobStep
  <2>2. ~Seals(k, r)
    BY <1>12 DEF Seals, Starts, Stops
  <2> QED BY <1>0, <2>1, <2>2, JobStepKeeps
<1>13. CASE SpawnFails
  <2>1. Becomes(k, [job[k] EXCEPT !.record = "launch_failed"])
    BY <1>0, <1>13, Zenon DEF SpawnFails, Record, Becomes
  <2>2. Starts(k, [job[k] EXCEPT !.record = "launch_failed"]) /\ ctl.pc = "spawn" /\ Raise
    BY <1>13 DEF SpawnFails, Starts, At
  <2> QED BY <1>11, <1>12, <2>1, <2>2
<1>14. CASE Reap \/ Timeout \/ InterruptWatch
  <2>1. \E r : Stops(k, r) /\ Becomes(k, r)
    <3>1. CASE Record("finished") /\ ~job[k].alive
      <4>1. Becomes(k, [job[k] EXCEPT !.record = "finished"])
        BY <1>0, <3>1, Zenon DEF Record, Becomes
      <4>2. Stops(k, [job[k] EXCEPT !.record = "finished"])
        BY <1>14, <3>1 DEF Stops, Reap, Timeout, InterruptWatch, At
      <4> QED BY <4>1, <4>2
    <3>2. ASSUME job[k].alive, NEW r \in Stopped(k), job' = [job EXCEPT ![k] = r]
          PROVE  Stops(k, r) /\ Becomes(k, r)
      BY <1>14, <3>2 DEF Stops, Becomes, Reap, Timeout, InterruptWatch, At
    <3> QED BY <1>14, <3>1, <3>2 DEF Reap, Timeout, InterruptWatch
  <2>2. job'[k].receipt = job[k].receipt
    BY <1>12, <2>1
  <2> QED BY <1>11, <1>14, <2>2 DEF Reap, Timeout, InterruptWatch, At
<1>15. CASE InterruptSpawn
  <2>1. PICK forked \in BOOLEAN :
          job' = [job EXCEPT ![k].record = "launch_failed", ![k].alive = forked]
    BY <1>15 DEF InterruptSpawn
  <2> DEFINE r == [job[k] EXCEPT !.record = "launch_failed", !.alive = forked]
  <2>2. Becomes(k, r)
    BY <1>0, <2>1, Zenon DEF Becomes
  <2>3. Starts(k, r)
    BY <1>15 DEF InterruptSpawn, Starts, At
  <2>4. job'[k].receipt = job[k].receipt
    BY <1>12, <2>2, <2>3
  <2> QED BY <1>11, <1>15, <2>4 DEF InterruptSpawn, At
<1>16. CASE InterruptLaunch \/ InterruptRegister
  BY <1>11, <1>16 DEF InterruptLaunch, InterruptRegister, At
<1>17. ASSUME NEW receipt, ctl' = AfterReceipt(receipt), ctl.pc = "seal", IsTraining(k),
              ~ctl.raised, job'[k].receipt = receipt,
              receipt.status \in {"incomplete", "resumable", "completed"}
       PROVE  Move
  BY <1>17, Resting DEF AfterReceipt, Passes, Move
<1>18. CASE SealAttempt
  <2>1. PICK probed \in BOOLEAN :
          /\ job' = [job EXCEPT ![k].receipt = ReceiptOf(k, probed)]
          /\ ctl' = IF ctl.raised THEN Off ELSE AfterReceipt(ReceiptOf(k, probed))
    BY <1>18 DEF SealAttempt
  <2>2. job'[k].receipt = ReceiptOf(k, probed)
    BY <1>0, <2>1 DEF Job
  <2>3. ReceiptOf(k, probed).status \in {"incomplete", "resumable", "completed"}
    BY DEF ReceiptOf
  <2>4. ctl.pc = "seal" /\ IsTraining(k)
    BY <1>18 DEF SealAttempt, At
  <2> HIDE DEF ReceiptOf
  <2>5. CASE ctl.raised
    BY <2>1, <2>5, Resting DEF Move
  <2> QED BY <1>17, <2>1, <2>2, <2>3, <2>4, <2>5
<1>19. CASE CheckReceipt
  <2>1. ctl.pc = "seal" /\ IsTraining(k) /\ Sealed(k) /\ job' = job
    BY <1>19 DEF CheckReceipt, At
  <2>2. job[k].receipt.status \in {"incomplete", "resumable", "completed"}
    BY <1>0, <2>1 DEF Sealed, Job
  <2>3. ctl' = AfterReceipt(job[k].receipt) \/ Fail
    BY <1>19 DEF CheckReceipt
  <2> QED BY <1>0, <1>17, <2>1, <2>2, <2>3, Resting DEF Move
<1>20. CASE OpenEvaluation
  <2>1. PICK j \in NewEvaluation : Open(j)
    BY <1>20 DEF OpenEvaluation
  <2>2. j \in Evaluations(ctl.cell, ctl.seed) /\ j.n = 1 /\ EvaluationsMade = {}
    BY <2>1 DEF NewEvaluation
  <2>3. ctl.cell \in Cells /\ ctl.seed \in 1..SeedCount
    BY <1>0 DEF Controller
  <2>4. j = Evaluation(ctl.cell, ctl.seed, 1) /\ j \in Jobs
    <3>1. PICK n \in 1..2 : j = Evaluation(ctl.cell, ctl.seed, n)
      BY <2>2 DEF Evaluations
    <3>2. j \in Jobs /\ j.n = n
      BY <2>3, <3>1, EvaluationsAreJobs
    <3> QED BY <2>2, <3>1, <3>2
  <2>5. ~job[j].made
    BY <2>2 DEF EvaluationsMade, Made
  <2> QED BY <1>5, <1>20, <2>1, <2>4, <2>5 DEF OpenEvaluation, At
<1>21. CASE TakeUpEvaluation
  <2>1. PICK j \in EvaluationsMade :
          \/ Exit("waiting") \/ Fail
          \/ ctl' = ToSeed(ctl.seed + 1)
          \/ job[j].request /\ ctl' = [ctl EXCEPT !.pc = "seal", !.job = j]
    BY <1>21 DEF TakeUpEvaluation
  <2>2. ctl.pc = "eval" /\ job' = job
    BY <1>21 DEF TakeUpEvaluation, At
  <2>3. Trained(ctl.cell) /\ ~ctl.raised
    BY <1>0, <2>2 DEF Inv, ProgressIsReal, PastIsCounted
  <2>4. ctl.cell \in Cells /\ ctl.seed \in 1..SeedCount
    BY <1>0 DEF Controller
  <2>5. PICK n \in 1..2 : j = Evaluation(ctl.cell, ctl.seed, n) /\ job[j].made
    BY <2>1 DEF EvaluationsMade, Made, Evaluations
  <2>6. n = 1
    BY <2>4, <2>5 DEF Inv, EvaluationsAreDue
  <2>7. j \in Jobs
    BY <2>4, <2>5, EvaluationsAreJobs
  <2>8. CASE job[j].request /\ ctl' = [ctl EXCEPT !.pc = "seal", !.job = j]
    BY <2>2, <2>5, <2>6, <2>7, <2>8 DEF TakesUp, Move
  <2> QED BY <2>1, <2>3, <2>8, Resting, SeedsFollow DEF Move
<1>22. CASE SealEvaluation
  <2>1. ctl' = ToSeed(ctl.seed + 1) /\ ctl.pc = "seal" /\ ~IsTraining(k)
    BY <1>22 DEF SealEvaluation, At
  <2>2. Trained(ctl.cell) /\ ~ctl.raised
    BY <1>0, <2>1 DEF Inv, ProgressIsReal, PastIsCounted, Busy
  <2> QED BY <2>1, <2>2, SeedsFollow DEF Move
<1>23. CASE WorkerStep
  <2>1. PICK j \in Jobs : Work(j) \/ LearnerEnds(j) \/ EvaluatorEnds(j)
    BY <1>23 DEF WorkerStep
  <2>2. ctl' = ctl
    BY <2>1 DEF Work, LearnerEnds, EvaluatorEnds
  <2>3. \E r : Works(j, r) /\ Becomes(j, r)
    BY <1>0, <2>1, WorkerWorks
  <2>4. \A i \in Jobs : job'[i] = job[i] \/ Works(i, job'[i])
    BY <1>0, <2>3, OthersStay
  <2> QED BY <2>2, <2>4 DEF Watching, Move
<1> HIDE DEF k
<1> QED BY <1>1, <1>2, <1>3, <1>4, <1>6, <1>7, <1>8, <1>9, <1>10, <1>13, <1>14, <1>15,
           <1>16, <1>18, <1>19, <1>20, <1>21, <1>22, <1>23
        DEF Next, ControllerStep, Fault

------------------------------------------------------------------------------
(* The invariant is kept *)

LEMMA MoveType ==
  ASSUME Inv, Next
  PROVE  ctl' \in Controller
<1>0. Move /\ ctl \in Controller /\ ctl.job \in Jobs /\ job' \in [Jobs -> Job]
  BY NextIsMove, JobsStaySane DEF Inv, TypeOK, Controller
<1>1. CASE Rests \/ Evaluates
  BY <1>1 DEF Rests, Evaluates
<1>2. CASE Opening
  BY <1>0, <1>2 DEF Opening, Controller, Places
<1>3. CASE TakesUp
  <2>1. CASE /\ ctl.pc = "train" /\ ctl.n < MaxRunAttempts
             /\ ctl' = [ctl EXCEPT !.pc = "seal", !.job = NextAttempt]
    <3>1. ctl.cell \in Cells /\ ctl.n + 1 \in 1..MaxRunAttempts
      BY <1>0, <2>1, ConstantsAreNumbers DEF Controller
    <3>2. NextAttempt \in Jobs
      BY <3>1, AttemptsAreJobs DEF NextAttempt
    <3> QED BY <1>0, <2>1, <3>2 DEF Controller, Places
  <2>2. ASSUME NEW j \in Jobs, ctl' = [ctl EXCEPT !.pc = "seal", !.job = j]
        PROVE  ctl' \in Controller
    BY <1>0, <2>2 DEF Controller, Places
  <2> QED BY <1>3, <2>1, <2>2 DEF TakesUp
<1>4. CASE Starting \/ Ending
  BY <1>0, <1>4 DEF Starting, Ending, Advances, Controller, Places
<1>5. CASE Passes
  <2>1. ctl.n + 1 \in 0..MaxRunAttempts
    BY <1>5, BusyJob, ConstantsAreNumbers DEF Passes, Busy
  <2>2. ctl.completed + job'[ctl.job].receipt.charged \in Nat
    <3>1. job'[ctl.job] \in Job
      BY <1>0
    <3> QED BY <1>0, <3>1 DEF Job, Controller
  <2>3. ctl' = [ctl EXCEPT !.pc = "train", !.n = ctl.n + 1,
                           !.completed = ctl.completed + job'[ctl.job].receipt.charged]
    BY <1>5 DEF Passes
  <2> DEFINE charged == ctl.completed + job'[ctl.job].receipt.charged
  <2> HIDE DEF charged
  <2> QED BY <1>0, <2>1, <2>2, <2>3 DEF Controller, Places, charged
<1>6. CASE Watching
  BY <1>0, <1>6 DEF Watching
<1> QED BY <1>0, <1>1, <1>2, <1>3, <1>4, <1>5, <1>6 DEF Move

(* What a worker leaves alone.                                           *)
LEMMA WorksKeeps ==
  ASSUME NEW k, job[k] \in Job, NEW r, Works(k, r)
  PROVE  /\ job[k].alive
         /\ r.made = job[k].made /\ r.request = job[k].request /\ r.start = job[k].start
         /\ r.record = job[k].record /\ r.receipt = job[k].receipt
<1>1. ASSUME NEW end, r = [job[k] EXCEPT !.alive = FALSE, !.done = end]
      PROVE  /\ r.made = job[k].made /\ r.request = job[k].request /\ r.start = job[k].start
             /\ r.record = job[k].record /\ r.receipt = job[k].receipt
  BY <1>1 DEF Job
<1>2. ASSUME \/ r = [job[k] EXCEPT !.rows = @ + 1]
             \/ r = [job[k] EXCEPT !.alive = FALSE, !.done = "stopped", !.rows = @ + 1,
                                   !.short = TRUE]
      PROVE  /\ r.made = job[k].made /\ r.request = job[k].request /\ r.start = job[k].start
             /\ r.record = job[k].record /\ r.receipt = job[k].receipt
  BY <1>2 DEF Job
<1> QED BY <1>1, <1>2 DEF Works

(* A launch is the only step behind which a worker is unresolved that was   *)
(* not before.                                                           *)
LEMMA LaunchesAreUnresolved ==
  ASSUME Inv, Next, NEW j \in Jobs, Unresolved(j)'
  PROVE  \/ Unresolved(j)
         \/ ctl.pc = "launch" /\ j = ctl.job /\ ~Watching
<1>0. job[j] \in Job /\ TypeOK
  BY DEF Inv, TypeOK
<1>1. ASSUME NEW r, job'[j] = r, Works(j, r) PROVE Unresolved(j)
  <2>1. job[j].alive /\ r.record = job[j].record
    BY <1>0, <1>1, WorksKeeps
  <2> QED BY <1>1, <2>1 DEF Unresolved
<1>2. ASSUME NEW r, job'[j] = r, JobStep(j, r), ~Works(j, r)
      PROVE  Unresolved(j) \/ (ctl.pc = "launch" /\ j = ctl.job)
  <2>1. CASE Opens(j, r) \/ Requests(j, r) \/ Seals(j, r)
    BY <1>0, <1>2, <2>1 DEF Opens, Requests, Seals, Unresolved, Job
  <2>2. CASE Starts(j, r)
    <3>1. ctl.pc = "register" => job[j].record = "launching"
      BY <2>2 DEF Starts, Inv, JobIsCurrent
    <3>2. CASE ctl.pc = "launch"
      BY <2>2, <3>2 DEF Starts
    <3>3. CASE ctl.pc = "register"
      BY <3>1, <3>3 DEF Unresolved
    <3>4. CASE ctl.pc = "spawn"
      <4>1. job[j].record = "launching"
        BY <2>2, <3>4 DEF Starts, Inv, JobIsCurrent
      <4> QED BY <4>1 DEF Unresolved
    <3> QED BY <2>2, <3>2, <3>3, <3>4 DEF Starts
  <2>3. CASE Stops(j, r)
    <3>1. CASE r = [job[j] EXCEPT !.record = "finished"]
      BY <1>0, <1>2, <3>1 DEF Unresolved, Job
    <3>2. CASE IsTraining(j) /\ r \in Terminated(job[j])
      <4>1. PICK cut \in {0, 1}, end \in {"none", "stopped"} : r = Cut(job[j], cut, end)
        BY <3>2, TerminatedIs
      <4> QED BY <1>0, <1>2, <4>1 DEF Unresolved, Job, Cut
    <3>3. CASE r = [job[j] EXCEPT !.alive = FALSE, !.record = "finished", !.done = "failed"]
      BY <1>0, <1>2, <3>3 DEF Unresolved, Job
    <3> QED BY <2>3, <3>1, <3>2, <3>3 DEF Stops, Stopped
  <2> QED BY <1>2, <2>1, <2>2, <2>3 DEF JobStep
<1>3. CASE job'[j] = job[j]
  BY <1>3 DEF Unresolved
<1>4. CASE job'[j] # job[j]
  <2>1. PICK k \in Jobs : \E r : JobStep(k, r) /\ Becomes(k, r)
    BY <1>0, <1>4, StepIsJobStep
  <2>2. JobStep(j, job'[j])
    BY <1>0, <1>4, <2>1, OthersStay
  <2>3. Watching => Works(j, job'[j])
    BY <1>4 DEF Watching
  <2> QED BY <1>1, <1>2, <2>2, <2>3
<1> QED BY <1>3, <1>4

(* Which moves lead where.                                               *)
LEMMA WherePcGoes ==
  ASSUME ctl \in Controller
  PROVE  /\ Rests => ctl'.pc \in {"off", "wait", "audit", "train"}
         /\ Evaluates => ctl'.pc = "eval"
         /\ Opening => ctl'.pc = "request"
         /\ TakesUp \/ Ending => ctl'.pc = "seal"
         /\ Passes => ctl'.pc = "train"
<1>1. /\ Rests => ctl'.pc \in {"off", "wait", "audit", "train"}
      /\ Evaluates => ctl'.pc = "eval"
  BY DEF Rests, Evaluates
<1>2. Opening => ctl'.pc = "request"
  BY DEF Opening, Controller
<1>3. TakesUp => ctl'.pc = "seal"
  BY DEF TakesUp, Controller
<1>4. Ending => ctl'.pc = "seal"
  BY DEF Ending, Advances, Controller
<1>5. Passes => ctl'.pc = "train"
  BY DEF Passes, Controller
<1> QED BY <1>1, <1>2, <1>3, <1>4, <1>5

LEMMA LaunchStaysLone ==
  ASSUME Inv, Next
  PROVE  LaunchIsLone'
<1>0. Move /\ LaunchIsLone /\ ctl \in Controller
  BY NextIsMove DEF Inv, TypeOK
<1>1. ASSUME NEW i \in Jobs, NEW j \in Jobs, Unresolved(i)', Unresolved(j)'
      PROVE  i = j
  <2>1. ctl.pc = "launch" => ~Unresolved(i) /\ ~Unresolved(j)
    BY <1>0 DEF LaunchIsLone
  <2> QED BY <1>0, <1>1, <2>1, LaunchesAreUnresolved DEF LaunchIsLone
<1>2. ASSUME ctl'.pc \in {"request", "launch"}, NEW j \in Jobs, Unresolved(j)'
      PROVE  FALSE
  <2>1. Opening \/ Starting \/ Watching
    BY <1>0, <1>2, WherePcGoes DEF Move
  <2>2. CASE Opening
    BY <1>2, <2>2, LaunchesAreUnresolved DEF Opening, Opens
  <2>3. CASE Starting
    <3>1. ctl.pc = "request"
      BY <1>2, <2>3 DEF Starting, Advances, Inv, TypeOK, Controller
    <3> QED BY <1>0, <1>2, <3>1, LaunchesAreUnresolved DEF LaunchIsLone
  <2>4. CASE Watching
    <3>1. Unresolved(j)
      BY <1>2, <2>4, LaunchesAreUnresolved
    <3> QED BY <1>0, <1>2, <2>4, <3>1 DEF LaunchIsLone, Watching
  <2> QED BY <2>1, <2>2, <2>3, <2>4
<1>3. ASSUME ctl'.pc \in {"spawn", "register", "watch"}, NEW j \in Jobs, Unresolved(j)'
      PROVE  j = ctl'.job
  <2>1. Starting \/ Watching
    BY <1>0, <1>3, WherePcGoes DEF Move
  <2>2. CASE Starting
    <3>1. ctl'.job = ctl.job /\ ctl.pc \in {"launch", "spawn", "register"}
      BY <1>3, <2>2 DEF Starting, Advances, Inv, TypeOK, Controller
    <3> QED BY <1>0, <1>3, <3>1, LaunchesAreUnresolved DEF LaunchIsLone
  <2>3. CASE Watching
    <3>1. Unresolved(j)
      BY <1>3, <2>3, LaunchesAreUnresolved
    <3> QED BY <1>0, <1>3, <2>3, <3>1 DEF LaunchIsLone, Watching
  <2> QED BY <2>1, <2>2, <2>3
<1> QED BY <1>1, <1>2, <1>3 DEF LaunchIsLone

LEMMA JobStaysCurrent ==
  ASSUME Inv, Next
  PROVE  JobIsCurrent'
<1>0. /\ Move /\ JobIsCurrent /\ ctl \in Controller /\ ctl' \in Controller
      /\ ctl.job \in Jobs /\ job \in [Jobs -> Job]
  BY NextIsMove, MoveType DEF Inv, TypeOK, Controller
<1> DEFINE k == ctl.job
<1>1. CASE Rests \/ Evaluates
  BY <1>1 DEF Rests, Evaluates, JobIsCurrent, Busy
<1>2. CASE Opening
  <2>1. PICK j \in Jobs : /\ Opens(j, [job[j] EXCEPT !.made = TRUE])
                          /\ Becomes(j, [job[j] EXCEPT !.made = TRUE])
                          /\ ctl' = [ctl EXCEPT !.pc = "request", !.job = j]
    BY <1>2 DEF Opening
  <2>2. /\ ~job[j].made /\ ctl.pc \in {"train", "eval"}
        /\ \/ ctl.n < MaxRunAttempts /\ j = Attempt(ctl.cell, ctl.n + 1)
           \/ j = Evaluation(ctl.cell, ctl.seed, 1)
    BY <2>1 DEF Opens, NextAttempt
  <2>3. JobIsSane(j) /\ job[j] \in Job
    BY <1>0 DEF Inv, JobsAreSane
  <2>4. job'[j] = [job[j] EXCEPT !.made = TRUE]
    BY <1>0, <2>1 DEF Becomes
  <2>5. job'[j].made /\ ~job'[j].request /\ job'[j].receipt.status = "none"
    BY <2>2, <2>3, <2>4 DEF JobIsSane, Absent, NoReceipt, Job
  <2>6. /\ ctl'.pc = "request" /\ ctl'.job = j /\ ctl'.cell = ctl.cell /\ ctl'.n = ctl.n
        /\ ctl'.seed = ctl.seed /\ ~ctl'.raised
    BY <1>0, <2>1, <2>2 DEF Controller, JobIsCurrent
  <2> QED BY <2>2, <2>5, <2>6 DEF JobIsCurrent, Busy, Sealed, NextAttempt
<1>3. CASE TakesUp
  <2>1. PICK j \in Jobs : /\ \/ ctl.n < MaxRunAttempts /\ j = Attempt(ctl.cell, ctl.n + 1)
                             \/ j = Evaluation(ctl.cell, ctl.seed, 1)
                          /\ job[j].made /\ job[j].request
                          /\ ctl' = [ctl EXCEPT !.pc = "seal", !.job = j]
    <3>1. ctl.n < MaxRunAttempts => NextAttempt \in Jobs
      <4>1. ctl.n < MaxRunAttempts => ctl.n + 1 \in 1..MaxRunAttempts
        BY <1>0, ConstantsAreNumbers DEF Controller
      <4> QED BY <1>0, <4>1, AttemptsAreJobs DEF NextAttempt, Controller
    <3> QED BY <1>3, <3>1 DEF TakesUp, NextAttempt
  <2>2. job' = job /\ ctl.pc \in {"train", "eval"}
    BY <1>3 DEF TakesUp
  <2>3. /\ ctl'.pc = "seal" /\ ctl'.job = j /\ ctl'.cell = ctl.cell /\ ctl'.n = ctl.n
        /\ ctl'.seed = ctl.seed /\ ~ctl'.raised
    BY <1>0, <2>1, <2>2 DEF Controller, JobIsCurrent
  <2> QED BY <2>1, <2>2, <2>3 DEF JobIsCurrent, Busy, NextAttempt
<1>4. ASSUME ctl.pc \in Busy, ctl'.job = k, ctl'.cell = ctl.cell, ctl'.n = ctl.n,
             ctl'.seed = ctl.seed
      PROVE  /\ \/ ctl'.n < MaxRunAttempts /\ ctl'.job = NextAttempt'
                \/ ctl'.job = Evaluation(ctl'.cell, ctl'.seed, 1)
             /\ job'[ctl'.job].made
             /\ job[k].request => job'[ctl'.job].request
  BY <1>0, <1>4, FilesStay DEF JobIsCurrent, NextAttempt
<1>5. CASE Starting
  <2>1. /\ ctl.pc \in {"request", "launch", "spawn", "register"}
        /\ ctl'.pc \in {"launch", "spawn", "register", "watch"}
        /\ ctl'.pc = CASE ctl.pc = "request" -> "launch" [] ctl.pc = "launch" -> "spawn"
                       [] ctl.pc = "spawn" -> "register" [] OTHER -> "watch"
        /\ ctl'.job = k /\ ctl'.cell = ctl.cell /\ ctl'.n = ctl.n /\ ctl'.seed = ctl.seed
        /\ ~ctl'.raised
    BY <1>0, <1>5 DEF Starting, Advances, Controller, JobIsCurrent
  <2>2. job[k] \in Job /\ ~Sealed(k) /\ (job[k].request <=> ctl.pc # "request")
    BY <1>0, <2>1 DEF JobIsCurrent, Busy
  <2>3. CASE ctl.pc = "request"
    <3>1. job'[k] = [job[k] EXCEPT !.request = TRUE,
                                   !.start = IF IsTraining(k) THEN ctl.completed ELSE 0]
      BY <1>5, <2>3 DEF Starting, Advances, Requests
    <3>2. JobIsSane(k) /\ ~job[k].request
      BY <1>0, <2>2, <2>3 DEF Inv, JobsAreSane
    <3>3. job[k].record = "absent" /\ ~job[k].alive
      BY <3>2 DEF JobIsSane, Absent
    <3>4. /\ job'[k].request /\ job'[k].record = "absent" /\ ~job'[k].alive
          /\ job'[k].receipt = job[k].receipt
      BY <2>2, <3>1, <3>3 DEF Job
    <3> QED BY <1>4, <2>1, <2>2, <2>3, <3>4 DEF JobIsCurrent, Busy, Sealed
  <2>4. CASE ctl.pc = "launch"
    <3>1. job'[k] = [job[k] EXCEPT !.record = "launching"]
      BY <1>0, <1>5, <2>4 DEF Starting, Advances, Becomes
    <3>2. /\ job'[k].record = "launching" /\ ~job'[k].alive
          /\ job'[k].receipt = job[k].receipt
      BY <1>0, <2>2, <2>4, <3>1 DEF Job, JobIsCurrent
    <3> QED BY <1>4, <2>1, <2>2, <2>4, <3>2 DEF JobIsCurrent, Busy, Sealed
  <2>5. CASE ctl.pc = "spawn"
    <3>1. job'[k] = [job[k] EXCEPT !.alive = TRUE]
      BY <1>0, <1>5, <2>5 DEF Starting, Advances, Becomes
    <3>2. job'[k].record = "launching" /\ job'[k].receipt = job[k].receipt
      BY <1>0, <2>2, <2>5, <3>1 DEF Job, JobIsCurrent
    <3> QED BY <1>4, <2>1, <2>2, <2>5, <3>2 DEF JobIsCurrent, Busy, Sealed
  <2>6. CASE ctl.pc = "register"
    <3>1. job'[k] = [job[k] EXCEPT !.record = "running"]
      BY <1>0, <1>5, <2>6 DEF Starting, Advances, Becomes
    <3>2. job'[k].record = "running" /\ job'[k].receipt = job[k].receipt
      BY <2>2, <3>1 DEF Job
    <3> QED BY <1>4, <2>1, <2>2, <2>6, <3>2 DEF JobIsCurrent, Busy, Sealed
  <2> QED BY <2>1, <2>3, <2>4, <2>5, <2>6
<1>6. CASE Ending
  <2>1. /\ ctl.pc \in {"launch", "spawn", "register", "watch"} /\ ctl'.pc = "seal"
        /\ ctl'.job = k /\ ctl'.cell = ctl.cell /\ ctl'.n = ctl.n /\ ctl'.seed = ctl.seed
        /\ ctl'.raised => IsTraining(k)
        /\ job'[k].receipt = job[k].receipt
    BY <1>0, <1>6 DEF Ending, Advances, Controller, JobIsCurrent
  <2>2. ~Sealed(k) /\ job[k].request
    BY <1>0, <2>1 DEF JobIsCurrent, Busy
  <2> QED BY <1>4, <2>1, <2>2 DEF JobIsCurrent, Busy, Sealed
<1>7. CASE Passes
  <2>1. ctl'.pc = "train" /\ ~ctl'.raised
    BY <1>0, <1>7 DEF Passes, Controller
  <2> QED BY <2>1 DEF JobIsCurrent, Busy
<1>8. CASE Watching
  <2>1. ctl' = ctl /\ job[k] \in Job
    BY <1>0, <1>8 DEF Watching
  <2>2. /\ job'[k].record = job[k].record /\ job'[k].receipt = job[k].receipt
        /\ ~job[k].alive => ~job'[k].alive
        /\ job'[k].request = job[k].request
    <3>1. CASE job'[k] = job[k]
      BY <3>1
    <3>2. CASE Works(k, job'[k])
      BY <2>1, <3>2, WorksKeeps
    <3> QED BY <1>0, <1>8, <3>1, <3>2 DEF Watching
  <2> QED BY <1>0, <1>4, <2>1, <2>2 DEF JobIsCurrent, Busy, Sealed
<1> QED BY <1>0, <1>1, <1>2, <1>3, <1>5, <1>6, <1>7, <1>8 DEF Move

(* Where cell and counters stay, so does what they say.                  *)
LEMMA TrainingGoesOn ==
  ASSUME Inv, Next, TrainsHere,
         ctl'.cell = ctl.cell, ctl'.n = ctl.n, ctl'.completed = ctl.completed
  PROVE  PastIsCounted'
<1>1. /\ ctl.cell \in Cells /\ ctl.n \in 0..MaxRunAttempts
      /\ \A i \in 1..ctl.n : Status(ctl.cell, i) \in {"resumable", "completed"}
      /\ ctl.completed = WorkedBefore(ctl.cell, ctl.n + 1)
      /\ ctl.completed <= Updates
  BY DEF Inv, TypeOK, Controller, ProgressIsReal, PastIsCounted
<1>2. ctl.n + 1 \in 1..MaxRunAttempts + 1 /\ \A i \in 1..ctl.n : i \in 1..MaxRunAttempts
  BY <1>1, ConstantsAreNumbers
<1>3. \A i \in 1..ctl.n : Endpoint(ctl.cell, i)
  BY <1>1 DEF Endpoint
<1>4. \A i \in 1..ctl.n + 1 - 1 : Endpoint(ctl.cell, i)
  BY <1>1, <1>3
<1>5. \A c \in {ctl.cell}, m \in {ctl.n} :
        /\ \A i \in 1..m : Status(c, i)' \in {"resumable", "completed"}
        /\ WorkedBefore(c, m + 1)' = WorkedBefore(c, m + 1)
  <2> SUFFICES ASSUME NEW c \in Cells, NEW m \in 0..MaxRunAttempts, c = ctl.cell, m = ctl.n
               PROVE  /\ \A i \in 1..m : Status(c, i)' \in {"resumable", "completed"}
                      /\ WorkedBefore(c, m + 1)' = WorkedBefore(c, m + 1)
    BY <1>1
  <2>1. \A i \in 1..m : i \in 1..MaxRunAttempts /\ Endpoint(c, i)
    BY <1>2, <1>3
  <2>2. \A i \in 1..m : Status(c, i)' = Status(c, i)
    BY <2>1, EndpointsStay
  <2>3. WorkedBefore(c, m + 1)' = WorkedBefore(c, m + 1)
    BY <1>2, <1>4, WorkedBeforeStays
  <2> QED BY <2>1, <2>2, <2>3 DEF Endpoint
<1> QED BY <1>1, <1>5 DEF PastIsCounted, Status, WorkedBefore, Rows

LEMMA ProgressStaysReal ==
  ASSUME Inv, Next
  PROVE  ProgressIsReal'
<1>0. /\ Move /\ ctl \in Controller /\ ctl' \in Controller
      /\ ctl.job \in Jobs /\ ctl.cell \in Cells /\ job \in [Jobs -> Job]
      /\ JobIsCurrent /\ ProgressIsReal
  BY NextIsMove, MoveType DEF Inv, TypeOK, Controller
<1> DEFINE k == ctl.job
<1>a. ASSUME TrainsHere' => PastIsCounted',
             ctl'.pc \in Busy /\ IsTraining(ctl'.job) =>
               /\ ctl'.completed < Updates
               /\ ctl'.pc # "request" => job'[ctl'.job].start = ctl'.completed,
             ctl'.pc = "eval" \/ (ctl'.pc \in Busy /\ ~IsTraining(ctl'.job)) => Trained(ctl.cell)'
      PROVE  ProgressIsReal'
  BY <1>a DEF ProgressIsReal
<1>1. CASE Rests
  <2>1. /\ ctl'.pc \in {"off", "wait", "audit", "train"}
        /\ ctl'.pc = "train" => ctl'.n = 0 /\ ctl'.completed = 0
    BY <1>1 DEF Rests
  <2>2. ctl'.pc = "train" => PastIsCounted'
    <3>1. \A c : SumTo(0 + 1 - 1, Rows(c)') = 0
      BY SumNext
    <3>2. SumTo(0 + 1 - 1, Rows(ctl.cell)') = 0
      BY <3>1, Zenon DEF Rows
    <3> QED BY <2>1, <3>2, ConstantsAreNumbers DEF PastIsCounted, WorkedBefore
  <2>3. TrainsHere' => PastIsCounted'
    BY <2>1, <2>2 DEF TrainsHere, Busy
  <2> QED BY <1>a, <2>1, <2>3 DEF Busy
<1>2. CASE Evaluates
  <2>1. ctl'.pc = "eval" /\ ctl'.cell = ctl.cell /\ Trained(ctl.cell)
    BY <1>2 DEF Evaluates
  <2>2. Trained(ctl.cell)'
    <3>1. \A c \in Cells : Trained(c) => Trained(c)'
      BY TrainedStays
    <3> QED BY <1>0, <2>1, <3>1 DEF Trained, Status
  <2>3. ~TrainsHere'
    BY <2>1 DEF TrainsHere, Busy
  <2> QED BY <1>a, <2>1, <2>2, <2>3 DEF Busy
<1>3. ASSUME ctl'.cell = ctl.cell, ctl'.n = ctl.n, ctl'.completed = ctl.completed,
             ctl'.pc \in Busy,
             IsTraining(ctl'.job) => TrainsHere /\ ctl.completed < Updates,
             ~IsTraining(ctl'.job) => Trained(ctl.cell),
             IsTraining(ctl'.job) /\ ctl'.pc # "request" =>
               job'[ctl'.job].start = ctl.completed
      PROVE  ProgressIsReal'
  <2>1. Trained(ctl.cell) => Trained(ctl.cell)'
    <3>1. \A c \in Cells : Trained(c) => Trained(c)'
      BY TrainedStays
    <3> QED BY <1>0, <1>3, <3>1 DEF Trained, Status
  <2>2. ctl'.pc \notin {"train", "eval"}
    BY <1>3 DEF Busy
  <2>3. TrainsHere' => PastIsCounted'
    BY <1>3, <2>2, TrainingGoesOn DEF TrainsHere
  <2> QED BY <1>3, <1>a, <2>1, <2>2, <2>3
<1>4. CASE Opening
  <2>1. PICK j \in Jobs : /\ Opens(j, [job[j] EXCEPT !.made = TRUE])
                          /\ ctl' = [ctl EXCEPT !.pc = "request", !.job = j]
    BY <1>4 DEF Opening
  <2>2. /\ ctl'.pc = "request" /\ ctl'.job = j /\ ctl'.cell = ctl.cell
        /\ ctl'.n = ctl.n /\ ctl'.completed = ctl.completed
    BY <1>0, <2>1 DEF Controller
  <2>3. \/ ctl.pc = "train" /\ j = Attempt(ctl.cell, ctl.n + 1) /\ ctl.completed < Updates
        \/ ctl.pc = "eval" /\ j = Evaluation(ctl.cell, ctl.seed, 1)
    BY <2>1 DEF Opens, NextAttempt
  <2>4. IsTraining(j) <=> ctl.pc = "train"
    BY <2>3 DEF IsTraining, Attempt, Evaluation
  <2> QED BY <1>0, <1>3, <2>2, <2>3, <2>4 DEF Busy, TrainsHere, ProgressIsReal
<1>5. CASE TakesUp
  <2>1. PICK j : /\ ctl' = [ctl EXCEPT !.pc = "seal", !.job = j]
                 /\ \/ /\ ctl.pc = "train" /\ j = Attempt(ctl.cell, ctl.n + 1)
                       /\ ctl.completed < Updates /\ job'[j].start = ctl.completed
                    \/ ctl.pc = "eval" /\ j = Evaluation(ctl.cell, ctl.seed, 1)
    BY <1>5 DEF TakesUp, NextAttempt
  <2>2. /\ ctl'.pc = "seal" /\ ctl'.job = j /\ ctl'.cell = ctl.cell
        /\ ctl'.n = ctl.n /\ ctl'.completed = ctl.completed
    BY <1>0, <2>1 DEF Controller
  <2>3. IsTraining(j) <=> ctl.pc = "train"
    BY <2>1 DEF IsTraining, Attempt, Evaluation
  <2> QED BY <1>0, <1>3, <2>1, <2>2, <2>3 DEF Busy, TrainsHere, ProgressIsReal
<1>6. CASE Starting
  <2>1. /\ ctl.pc \in {"request", "launch", "spawn", "register"}
        /\ ctl'.pc \in {"launch", "spawn", "register", "watch"}
        /\ ctl'.job = k /\ ctl'.cell = ctl.cell
        /\ ctl'.n = ctl.n /\ ctl'.completed = ctl.completed
    BY <1>0, <1>6 DEF Starting, Advances, Controller
  <2>2. IsTraining(k) => job'[k].start = ctl.completed
    <3>1. CASE ctl.pc = "request"
      <4>1. job'[k] = [job[k] EXCEPT !.request = TRUE,
                                     !.start = IF IsTraining(k) THEN ctl.completed ELSE 0]
        BY <1>6, <3>1 DEF Starting, Advances, Requests
      <4>2. job[k] \in Job
        BY <1>0
      <4> QED BY <4>1, <4>2 DEF Job
    <3>2. CASE ctl.pc # "request"
      <4>1. job[k].request
        BY <1>0, <2>1, <3>2 DEF JobIsCurrent, Busy
      <4>2. IsTraining(k) => job[k].start = ctl.completed
        BY <1>0, <2>1, <3>2 DEF ProgressIsReal, Busy
      <4> QED BY <1>0, <4>1, <4>2, FilesStay
    <3> QED BY <3>1, <3>2
  <2> QED BY <1>0, <1>3, <2>1, <2>2 DEF Busy, TrainsHere, ProgressIsReal
<1>7. ASSUME ctl'.cell = ctl.cell, ctl'.n = ctl.n, ctl'.completed = ctl.completed,
             ctl'.job = k, ctl.pc \in Busy, ctl'.pc \in Busy,
             ctl'.pc = "request" \/ ctl.pc # "request"
      PROVE  ProgressIsReal'
  <2>1. ctl'.pc # "request" => job[k].request
    BY <1>0, <1>7 DEF JobIsCurrent
  <2>2. IsTraining(k) /\ ctl'.pc # "request" => job'[k].start = ctl.completed
    BY <1>0, <1>7, <2>1, FilesStay DEF ProgressIsReal
  <2> QED BY <1>0, <1>3, <1>7, <2>2 DEF TrainsHere, ProgressIsReal
<1>8. CASE Ending
  <2>1. /\ ctl.pc \in {"launch", "spawn", "register", "watch"} /\ ctl'.pc = "seal"
        /\ ctl'.job = k /\ ctl'.cell = ctl.cell
        /\ ctl'.n = ctl.n /\ ctl'.completed = ctl.completed
    BY <1>0, <1>8 DEF Ending, Advances, Controller
  <2> QED BY <1>7, <2>1 DEF Busy
<1>9. CASE Watching
  <2>1. ctl' = ctl
    BY <1>9 DEF Watching
  <2>2. CASE ctl.pc \in Busy
    BY <1>7, <2>1, <2>2
  <2>3. CASE ctl.pc \notin Busy
    <3>1. TrainsHere' => PastIsCounted'
      BY <2>1, <2>3, TrainingGoesOn DEF TrainsHere
    <3>2. ctl.pc = "eval" => Trained(ctl.cell)'
      <4>1. \A c \in Cells : Trained(c) => Trained(c)'
        BY TrainedStays
      <4> QED BY <1>0, <2>1, <4>1 DEF Trained, Status, ProgressIsReal
    <3> QED BY <1>a, <2>1, <2>3, <3>1, <3>2
  <2> QED BY <2>2, <2>3
<1>10. CASE Passes
  <2>1. /\ ctl'.pc = "train" /\ ctl'.cell = ctl.cell /\ ctl'.n = ctl.n + 1
        /\ ctl'.completed = ctl.completed + job'[k].receipt.charged
    BY <1>0, <1>10 DEF Passes, Controller
  <2>2. /\ k = Attempt(ctl.cell, ctl.n + 1) /\ IsTraining(k)
        /\ ctl.n \in 0..MaxRunAttempts /\ ctl.n + 1 \in 1..MaxRunAttempts /\ ctl.n \in Nat
    BY <1>0, <1>10, BusyJob DEF Passes, Busy, Controller
  <2>3. JobIsSane(k)' /\ job'[k] \in Job
    <3>1. \A j \in Jobs : JobIsSane(j)' /\ job'[j] \in Job
      BY JobsStaySane DEF JobsAreSane
    <3>2. ctl'.job = ctl.job
      BY <1>0, <1>10 DEF Passes, Controller
    <3> QED BY <1>0, <3>1, <3>2 DEF JobIsSane, Exact, Reserved
  <2>4. /\ job'[k].receipt.charged = job'[k].rows /\ job'[k].rows <= Updates - job'[k].start
        /\ job'[k].receipt.status \in {"resumable", "completed"}
    BY <1>10, <2>2, <2>3 DEF JobIsSane, Passes, Reserved
  <2>5. job'[k].start = ctl.completed
    <3>1. job[k].request /\ job[k].start = ctl.completed
      BY <1>0, <1>10, <2>2 DEF Passes, JobIsCurrent, ProgressIsReal, Busy
    <3> QED BY <1>0, <3>1, FilesStay
  <2>6. /\ TrainsHere
        /\ \A i \in 1..ctl.n : Status(ctl.cell, i) \in {"resumable", "completed"}
        /\ ctl.completed = WorkedBefore(ctl.cell, ctl.n + 1)
    BY <1>0, <1>10, <2>2 DEF TrainsHere, Passes, Busy, ProgressIsReal, PastIsCounted
  <2>7. PICK c \in Cells, n \in Nat :
          c = ctl.cell /\ n = ctl.n + 1 /\ n - 1 = ctl.n
    BY <1>0, <2>2
  <2>8. \A i \in 1..n - 1 : i \in 1..MaxRunAttempts /\ Endpoint(c, i)
    BY <2>2, <2>6, <2>7, ConstantsAreNumbers DEF Endpoint
  <2>9. n \in 1..MaxRunAttempts /\ n \in 1..MaxRunAttempts + 1 /\ k = Attempt(c, n)
    BY <2>2, <2>7, ConstantsAreNumbers
  <2>10. \A i \in 1..n - 1 : Status(c, i)' \in {"resumable", "completed"}
    BY <2>8, EndpointsStay DEF Endpoint
  <2>11. WorkedBefore(c, n)' = ctl.completed
    BY <2>6, <2>7, <2>8, <2>9, WorkedBeforeStays
  <2>12. WorkedBefore(c, n + 1)' = WorkedBefore(c, n)' + job'[k].rows
    BY <2>9, WorkedNextAfter
  <2>13. \A i \in 1..n : Status(c, i)' \in {"resumable", "completed"}
    <3>1. Status(c, n)' = job'[k].receipt.status
      BY <2>9 DEF Status
    <3>2. \A i \in 1..n : i = n \/ i \in 1..n - 1
      BY <2>7
    <3> QED BY <2>4, <2>10, <3>1, <3>2
  <2>14. ctl'.completed = WorkedBefore(c, n + 1)' /\ ctl'.completed <= Updates
    BY <1>0, <2>1, <2>3, <2>4, <2>5, <2>11, <2>12, ConstantsAreNumbers DEF Job, Controller
  <2>15. PastIsCounted'
    BY <2>1, <2>7, <2>13, <2>14 DEF PastIsCounted, Status, WorkedBefore, Rows
  <2> QED BY <1>a, <2>1, <2>15 DEF Busy
<1> QED BY <1>0, <1>1, <1>2, <1>4, <1>5, <1>6, <1>8, <1>9, <1>10 DEF Move

LEMMA NextType ==
  ASSUME Inv, Next
  PROVE  TypeOK'
<1>0. /\ summary \in Summaries /\ used \in [runs : Nat, faults : Nat]
      /\ \A f \in BOOLEAN, r \in BOOLEAN :
           [used EXCEPT !.faults = @ + 1] \in [runs : Nat, faults : Nat]
      /\ [used EXCEPT !.runs = @ + 1] \in [runs : Nat, faults : Nat]
  BY DEF Inv, TypeOK
<1>1. used' \in [runs : Nat, faults : Nat]
  <2>1. used' \in {used, [used EXCEPT !.faults = @ + 1], [used EXCEPT !.runs = @ + 1]}
    <3>1. CASE Start
      BY <3>1 DEF Start
    <3>2. CASE ControllerStep
      BY <3>2 DEF ControllerStep, Acquire, GiveUp, TrainDone, OutOfAttempts, TakeUpAttempt,
         OpenAttempt, Open, WriteRequest, WriteLaunch, Spawn, SpawnFails, Register, Reap,
         Timeout, SealLater, SealAttempt, CheckReceipt, OpenEvaluation, TakeUpEvaluation,
         SealEvaluation, Audit
    <3>3. CASE WorkerStep
      BY <3>3 DEF WorkerStep, Work, LearnerEnds, EvaluatorEnds
    <3>4. CASE Fault
      BY <3>4 DEF Fault, Kill, InterruptIdle, InterruptLaunch, InterruptSpawn,
         InterruptRegister, InterruptWatch, Faulted
    <3> QED BY <3>1, <3>2, <3>3, <3>4 DEF Next
  <2> QED BY <1>0, <2>1
<1>2. summary' \in Summaries
  <2>1. CASE Start \/ WorkerStep
    BY <1>0, <2>1 DEF Start, WorkerStep, Work, LearnerEnds, EvaluatorEnds
  <2>2. CASE \/ Acquire \/ GiveUp \/ TrainDone \/ OutOfAttempts \/ TakeUpAttempt
    BY <1>0, <2>2 DEF Acquire, GiveUp, TrainDone, OutOfAttempts, TakeUpAttempt, Exit, Fail,
       Summaries
  <2>3. CASE OpenAttempt \/ OpenEvaluation \/ WriteRequest \/ WriteLaunch \/ Spawn
    BY <1>0, <2>3 DEF OpenAttempt, OpenEvaluation, Open, WriteRequest, WriteLaunch, Spawn, Exit,
       Summaries
  <2>4. CASE SpawnFails \/ Register \/ Reap \/ Timeout
    BY <1>0, <2>4 DEF SpawnFails, Raise, Register, Reap, Timeout, Fail
  <2>5. CASE SealLater \/ SealAttempt \/ CheckReceipt
    BY <1>0, <2>5 DEF SealLater, SealAttempt, CheckReceipt, Exit, Fail, Summaries
  <2>6. CASE TakeUpEvaluation \/ SealEvaluation \/ Audit
    BY <1>0, <2>6 DEF TakeUpEvaluation, SealEvaluation, Audit, Exit, Fail, Summaries
  <2>7. CASE Fault
    BY <1>0, <2>7 DEF Fault, Kill, InterruptIdle, InterruptLaunch, InterruptSpawn,
       InterruptRegister, InterruptWatch, Exit, Fail, Summaries
  <2> QED BY <2>1, <2>2, <2>3, <2>4, <2>5, <2>6, <2>7 DEF Next, ControllerStep
<1> QED BY <1>1, <1>2, JobsStaySane, MoveType DEF TypeOK

LEMMA InvInitially ==
  ASSUME Init
  PROVE  Inv
<1>1. /\ job \in [Jobs -> Job] /\ \A j \in Jobs : job[j] = Absent
      /\ ctl = Off /\ ctl \in Controller /\ ctl.pc = "off" /\ ctl.raised = FALSE
  <2>1. Absent \in Job
    BY DEF Absent, NoReceipt, Job
  <2>2. Off \in Controller
    <3>1. 1 \in Nat \ {0}
      OBVIOUS
    <3> QED BY <3>1, ToCellType
  <2> QED BY <2>1, <2>2 DEF Init, Off
<1>2. TypeOK
  BY <1>1 DEF Init, TypeOK, Summaries
<1>3. JobsAreSane
  <2> SUFFICES ASSUME NEW j \in Jobs PROVE JobIsSane(j)
    BY DEF JobsAreSane
  <2>1. job[j] = Absent
    BY <1>1
  <2>2. /\ Absent = [Absent EXCEPT !.made = Absent.made]
        /\ Absent.request = FALSE /\ Absent.alive = FALSE /\ Absent.start = 0
        /\ Absent.rows = 0 /\ Absent.receipt.status = "none" /\ Absent.receipt.charged = 0
    BY DEF Absent, NoReceipt
  <2> QED BY <2>1, <2>2, ConstantsAreNumbers DEF JobIsSane, Reserved
<1>4. ChainsAreLinked
  BY <1>1, AttemptsAreJobs DEF ChainsAreLinked, Absent
<1>5. EvaluationsAreDue
  BY <1>1, EvaluationsAreJobs DEF EvaluationsAreDue, Absent
<1>6. JobIsCurrent
  BY <1>1 DEF JobIsCurrent, Busy
<1>7. ProgressIsReal
  BY <1>1 DEF ProgressIsReal, TrainsHere, Busy
<1>8. LaunchIsLone
  BY <1>1 DEF LaunchIsLone, Unresolved, Absent
<1> QED BY <1>2, <1>3, <1>4, <1>5, <1>6, <1>7, <1>8 DEF Inv

LEMMA InvIsKept ==
  ASSUME Inv, [Next]_vars
  PROVE  Inv'
<1>1. CASE Next
  BY <1>1, NextType, JobsStaySane, ChainsStayLinked, EvaluationsStayDue, JobStaysCurrent,
     ProgressStaysReal, LaunchStaysLone DEF Inv
<1>2. CASE UNCHANGED vars
  <2>1. job' = job /\ ctl' = ctl /\ summary' = summary /\ used' = used
    BY <1>2 DEF vars
  <2>2. TypeOK' /\ JobsAreSane'
    BY <2>1 DEF Inv, TypeOK, JobsAreSane, JobIsSane, Exact, Reserved
  <2>3. ChainsAreLinked' /\ EvaluationsAreDue'
    BY <2>1 DEF Inv, ChainsAreLinked, EvaluationsAreDue, Trained, Status, WorkedBefore, Rows
  <2>4. JobIsCurrent' /\ LaunchIsLone'
    BY <2>1 DEF Inv, JobIsCurrent, LaunchIsLone, Unresolved, Sealed, NextAttempt
  <2>5. ProgressIsReal'
    BY <2>1 DEF Inv, ProgressIsReal, PastIsCounted, TrainsHere, Trained, Status, WorkedBefore, Rows
  <2> QED BY <2>2, <2>3, <2>4, <2>5 DEF Inv
<1> QED BY <1>1, <1>2

(* The invariant holds in every state a campaign can reach.              *)
LEMMA InvAlways ==
  Spec => []Inv
BY InvInitially, InvIsKept, PTL DEF Spec

------------------------------------------------------------------------------
(* What it is for *)

(* The files and the controller keep their types.                        *)
THEOREM TypeCorrect == Spec => []TypeOK
<1>1. Inv => TypeOK
  BY DEF Inv
<1> QED BY <1>1, InvAlways, PTL

(* Whatever controllers were killed before, at most one worker runs that *)
(* was launched to its end (spawn_worker and workers_in).                *)
THEOREM WorkersAreAlone == Spec => []OneWorkerAtATime
<1>1. Inv => OneWorkerAtATime
  <2> SUFFICES ASSUME Inv PROVE OneWorkerAtATime
    OBVIOUS
  <2> DEFINE S == {j \in Jobs : job[j].alive /\ job[j].record # "launch_failed"}
  <2>1. \A j \in S : Unresolved(j)
    BY DEF Inv, JobsAreSane, JobIsSane, Unresolved
  <2>2. \A i, j \in S : i = j
    BY <2>1 DEF Inv, LaunchIsLone
  <2> HIDE DEF S
  <2>3. S = {} \/ \E j : S = {j}
    BY <2>2
  <2>4. Cardinality(S) <= 1
    <3>1. CASE S = {}
      <4>1. Cardinality(S) = 0
        BY <3>1, FS_EmptySet, Zenon
      <4> QED BY <4>1
    <3>2. ASSUME NEW j, S = {j} PROVE Cardinality(S) <= 1
      <4>1. Cardinality(S) = 1
        BY <3>2, FS_Singleton, Zenon
      <4> QED BY <4>1
    <3> QED BY <2>3, <3>1, <3>2
  <2> QED BY <2>4 DEF OneWorkerAtATime, S
<1> QED BY <1>1, InvAlways, PTL

(* An endpoint has no process and no rollout cut short.                  *)
LEMMA EndpointsAreExact ==
  ASSUME Inv, NEW c \in Cells, NEW n \in 1..MaxRunAttempts, Endpoint(c, n)
  PROVE  /\ ~job[Attempt(c, n)].alive /\ ~job[Attempt(c, n)].short
         /\ ~Unresolved(Attempt(c, n))
         /\ job[Attempt(c, n)].receipt.charged = job[Attempt(c, n)].rows
<1>1. JobIsSane(Attempt(c, n)) /\ IsTraining(Attempt(c, n))
  BY AttemptsAreJobs DEF Inv, JobsAreSane
<1> QED BY <1>1 DEF JobIsSane, Exact, Endpoint, Status, Unresolved

(* An attempt begins at a sealed endpoint, where all before it ended, with  *)
(* what they really did (train_cell).                                    *)
THEOREM AttemptsResume == Spec => []ResumesAtEndpoint
<1>1. Inv => ResumesAtEndpoint
  <2> SUFFICES ASSUME Inv, NEW c \in Cells, NEW n \in 1..MaxRunAttempts,
                      job[Attempt(c, n)].request
               PROVE  /\ \A i \in 1..(n - 1) :
                           /\ job[Attempt(c, i)].receipt.status = "resumable"
                           /\ ~job[Attempt(c, i)].alive /\ ~job[Attempt(c, i)].short
                      /\ job[Attempt(c, n)].start = WorkedBefore(c, n)
    BY DEF ResumesAtEndpoint
  <2>1. job[Attempt(c, n)].made
    BY AttemptsAreJobs DEF Inv, JobsAreSane, JobIsSane
  <2>2. /\ \A i \in 1..n - 1 : Status(c, i) = "resumable"
        /\ job[Attempt(c, n)].start = WorkedBefore(c, n)
    BY <2>1 DEF Inv, ChainsAreLinked
  <2>3. \A i \in 1..n - 1 : i \in 1..MaxRunAttempts /\ Endpoint(c, i)
    BY <2>2, ConstantsAreNumbers DEF Endpoint
  <2> QED BY <2>2, <2>3, EndpointsAreExact DEF Status
<1> QED BY <1>1, InvAlways, PTL

(* What nobody has requested has done nothing and is charged nothing.    *)
LEMMA UnrequestedIsEmpty ==
  ASSUME Inv, NEW c \in Cells, NEW n \in 1..MaxRunAttempts, ~job[Attempt(c, n)].request
  PROVE  /\ job[Attempt(c, n)].rows = 0 /\ ~job[Attempt(c, n)].alive
         /\ Status(c, n) = "none" /\ job[Attempt(c, n)].receipt.charged = 0
<1>1. JobIsSane(Attempt(c, n))
  BY AttemptsAreJobs DEF Inv, JobsAreSane
<1> QED BY <1>1 DEF JobIsSane, Absent, NoReceipt, Status

(* Behind an attempt that is not a resumable endpoint there is nothing.  *)
LEMMA NothingFollows ==
  ASSUME Inv, NEW c \in Cells, NEW n \in 1..MaxRunAttempts, Status(c, n) # "resumable"
  PROVE  \A m \in n + 1..MaxRunAttempts :
           /\ m \in 1..MaxRunAttempts
           /\ ~job[Attempt(c, m)].made /\ ~job[Attempt(c, m)].request
<1> SUFFICES ASSUME NEW m \in n + 1..MaxRunAttempts
             PROVE  /\ m \in 1..MaxRunAttempts
                    /\ ~job[Attempt(c, m)].made /\ ~job[Attempt(c, m)].request
  OBVIOUS
<1>1. m \in 1..MaxRunAttempts /\ n \in 1..m - 1
  BY ConstantsAreNumbers
<1>2. ~job[Attempt(c, m)].made
  BY <1>1 DEF Inv, ChainsAreLinked
<1>3. JobIsSane(Attempt(c, m))
  BY <1>1, AttemptsAreJobs DEF Inv, JobsAreSane
<1> QED BY <1>1, <1>2, <1>3 DEF JobIsSane

(* Then all the work of the cell is done before the next one, and all that  *)
(* is charged is charged up to it.                                       *)
LEMMA WorkEnds ==
  ASSUME Inv, NEW c \in Cells, NEW n \in 0..MaxRunAttempts,
         \A m \in n + 1..MaxRunAttempts : m \in 1..MaxRunAttempts /\ ~job[Attempt(c, m)].request
  PROVE  Worked(c) = WorkedBefore(c, n + 1) /\ Charged(c) = ChargedBefore(c, n + 1)
<1>0. MaxRunAttempts \in Nat /\ n \in Nat /\ n + 1 - 1 = n
      /\ MaxRunAttempts + 1 - 1 = MaxRunAttempts
  BY ConstantsAreNumbers
<1>1. \A i \in 1..MaxRunAttempts : Rows(c)[i] \in Nat /\ Charges(c)[i] \in Nat
  <2> SUFFICES ASSUME NEW i \in 1..MaxRunAttempts
               PROVE  Rows(c)[i] \in Nat /\ Charges(c)[i] \in Nat
    OBVIOUS
  <2>1. job[Attempt(c, i)] \in Job
    BY AttemptsAreJobs DEF Inv, TypeOK
  <2> QED BY <2>1 DEF Rows, Charges, Job
<1>2. \A i \in n + 1..MaxRunAttempts : Rows(c)[i] = 0 /\ Charges(c)[i] = 0
  BY UnrequestedIsEmpty DEF Rows, Charges
<1>3. SumTo(MaxRunAttempts, Rows(c)) = SumTo(n, Rows(c))
  BY <1>0, <1>1, <1>2, SumEnds
<1>4. SumTo(MaxRunAttempts, Charges(c)) = SumTo(n, Charges(c))
  BY <1>0, <1>1, <1>2, SumEnds
<1> QED BY <1>0, <1>3, <1>4 DEF Worked, WorkedBefore, Charged, ChargedBefore

(* Every seed of a cell is evaluated once at most, and only when the cell   *)
(* has its whole budget and no worker (evaluate_cell).                   *)
THEOREM EvaluationsAreFinal == Spec => []EvaluatedOnce
<1>1. Inv => EvaluatedOnce
  <2> SUFFICES ASSUME Inv, NEW c \in Cells, NEW s \in 1..SeedCount,
                      Made(Evaluations(c, s)) # {}
               PROVE  /\ Cardinality(Made(Evaluations(c, s))) = 1
                      /\ Worked(c) = Updates
                      /\ \A j \in Attempts(c) : ~job[j].alive
    BY DEF EvaluatedOnce
  <2>1. \A j \in Made(Evaluations(c, s)) : j = Evaluation(c, s, 1) /\ Trained(c)
    BY DEF Made, Evaluations, Inv, EvaluationsAreDue
  <2>2. Made(Evaluations(c, s)) = {Evaluation(c, s, 1)}
    BY <2>1
  <2>3. Cardinality(Made(Evaluations(c, s))) = 1
    BY <2>2, FS_Singleton, Zenon
  <2>4. PICK n \in 1..MaxRunAttempts : Status(c, n) = "completed"
    BY <2>1 DEF Trained
  <2>5. /\ \A i \in 1..n - 1 : Status(c, i) = "resumable"
        /\ WorkedBefore(c, n + 1) = Updates
    BY <2>4, EndpointsAreLinked
  <2>6. \A m \in n + 1..MaxRunAttempts :
          m \in 1..MaxRunAttempts /\ ~job[Attempt(c, m)].request
    BY <2>4, NothingFollows
  <2>7. Worked(c) = Updates
    <3>1. n \in 0..MaxRunAttempts
      BY ConstantsAreNumbers
    <3> QED BY <2>5, <2>6, <3>1, WorkEnds
  <2>8. ASSUME NEW j \in Attempts(c) PROVE ~job[j].alive
    <3>1. PICK i \in 1..MaxRunAttempts : j = Attempt(c, i)
      BY DEF Attempts
    <3>2. i \in 1..n - 1 \/ i = n \/ i \in n + 1..MaxRunAttempts
      BY ConstantsAreNumbers
    <3>3. i \in n + 1..MaxRunAttempts => ~job[j].alive
      BY <2>6, <3>1, UnrequestedIsEmpty
    <3>4. i \notin n + 1..MaxRunAttempts => Endpoint(c, i)
      BY <2>4, <2>5, <3>2 DEF Endpoint
    <3> QED BY <3>1, <3>3, <3>4, EndpointsAreExact
  <2> QED BY <2>3, <2>7, <2>8
<1> QED BY <1>1, InvAlways, PTL

------------------------------------------------------------------------------
(* The audit *)

(* The attempts of a cell are made in order.                             *)
LEMMA MadeInOrder ==
  ASSUME Inv, NEW c \in Cells
  PROVE  /\ MadeAttempts(c) \in 0..MaxRunAttempts
         /\ \A i \in 1..MaxRunAttempts : job[Attempt(c, i)].made <=> i <= MadeAttempts(c)
<1> DEFINE free == {i \in 1..MaxRunAttempts + 1 :
                      i \in 1..MaxRunAttempts => ~job[Attempt(c, i)].made}
<1>1. free \in SUBSET Nat /\ MaxRunAttempts + 1 \in free
  BY ConstantsAreNumbers
<1>2. PICK m \in free : \A i \in free : m <= i
  BY <1>1, LeastNat
<1>3. m \in 1..MaxRunAttempts + 1 /\ m - 1 \in 0..MaxRunAttempts
  BY <1>2, ConstantsAreNumbers
<1>4. \A i \in 1..MaxRunAttempts : i <= m - 1 => job[Attempt(c, i)].made
  <2> SUFFICES ASSUME NEW i \in 1..MaxRunAttempts, i <= m - 1, ~job[Attempt(c, i)].made
               PROVE  FALSE
    OBVIOUS
  <2>1. i \in free
    BY ConstantsAreNumbers
  <2>2. m <= i
    BY <1>2, <2>1
  <2> QED BY <1>3, <2>2, ConstantsAreNumbers
<1>5. \A i \in 1..MaxRunAttempts : job[Attempt(c, i)].made => i <= m - 1
  <2> SUFFICES ASSUME NEW i \in 1..MaxRunAttempts, i > m - 1, job[Attempt(c, i)].made
               PROVE  FALSE
    BY <1>3, ConstantsAreNumbers
  <2>1. m \in 1..MaxRunAttempts /\ (m = i \/ m \in 1..i - 1)
    BY <1>3, ConstantsAreNumbers
  <2>2. ~job[Attempt(c, m)].made
    BY <1>2, <2>1
  <2>3. m \in 1..i - 1
    BY <2>1, <2>2
  <2>4. Status(c, m) = "resumable"
    BY <2>3 DEF Inv, ChainsAreLinked
  <2> QED BY <2>1, <2>2, <2>4, SealedIsMade DEF Inv
<1> HIDE DEF free
<1> DEFINE S == 1..m - 1
           T == Made(Attempts(c))
           f == [i \in S |-> Attempt(c, i)]
<1>6. T = {Attempt(c, i) : i \in S}
  <2>1. \A i \in S : i \in 1..MaxRunAttempts /\ i <= m - 1
    BY <1>3, ConstantsAreNumbers
  <2>2. \A i \in 1..MaxRunAttempts : i <= m - 1 => i \in S
    BY <1>3, ConstantsAreNumbers
  <2> HIDE DEF S
  <2> QED BY <1>4, <1>5, <2>1, <2>2 DEF Made, Attempts
<1>7. f \in Bijection(S, T)
  <2>1. f \in [S -> T] /\ \A x \in T : \E i \in S : f[i] = x
    BY <1>6
  <2>2. \A i, k \in S : f[i] = f[k] => i = k
    BY SameAttempt
  <2> HIDE DEF f, S, T
  <2> QED BY <2>1, <2>2 DEF Bijection, Injection, Surjection, IsInjective
<1>8. ExistsBijection(S, T)
  BY <1>7 DEF ExistsBijection
<1>9. IsFiniteSet(S) /\ Cardinality(S) = m - 1
  BY <1>3, FS_Interval
<1>10. Cardinality(T) = m - 1
  <2> HIDE DEF S, T
  <2> QED BY <1>8, <1>9, FS_Bijection
<1>11. MadeAttempts(c) = m - 1
  BY <1>10 DEF MadeAttempts
<1> HIDE DEF S, T, f
<1> QED BY <1>3, <1>4, <1>5, <1>11

(* The attempt that decides is the last one that was made.               *)
LEMMA LastDecides ==
  ASSUME Inv, NEW c \in Cells, MadeAttempts(c) # 0
  PROVE  /\ Deciding(c) = MadeAttempts(c) /\ MadeAttempts(c) \in 1..MaxRunAttempts
         /\ \A i \in 1..MadeAttempts(c) - 1 :
              i \in 1..MaxRunAttempts /\ Status(c, i) = "resumable"
         /\ \A i \in MadeAttempts(c) + 1..MaxRunAttempts :
              i \in 1..MaxRunAttempts /\ ~job[Attempt(c, i)].request
<1>1. PICK n \in 1..MaxRunAttempts : n = MadeAttempts(c)
  BY MadeInOrder, ConstantsAreNumbers
<1>2. job[Attempt(c, n)].made
  BY <1>1, MadeInOrder
<1>3. \A i \in 1..n - 1 : i \in 1..MaxRunAttempts /\ Status(c, i) = "resumable"
  BY <1>2, ConstantsAreNumbers DEF Inv, ChainsAreLinked
<1>4. \A i \in 1..n - 1 : Settled(c, i)
  <2>1. \A i \in 1..n - 1 : Endpoint(c, i) /\ i \in 1..MaxRunAttempts
    BY <1>3 DEF Endpoint
  <2> QED BY <2>1, EndpointsAreExact DEF Settled, Endpoint, Status
<1>5. {i \in 1..n : ~Settled(c, i)} \cup {n} = {n}
  <2>1. \A i \in 1..n : i = n \/ i \in 1..n - 1
    OBVIOUS
  <2> QED BY <1>4, <2>1
<1>6. Min({n}) = n
  BY DEF Min
<1>7. Deciding(c) = n
  BY <1>1, <1>5, <1>6 DEF Deciding
<1>8. ASSUME NEW i \in n + 1..MaxRunAttempts
      PROVE  i \in 1..MaxRunAttempts /\ ~job[Attempt(c, i)].request
  <2>1. i \in 1..MaxRunAttempts /\ ~(i <= n)
    BY ConstantsAreNumbers
  <2>2. ~job[Attempt(c, i)].made
    BY <1>1, <2>1, MadeInOrder
  <2>3. JobIsSane(Attempt(c, i))
    BY <2>1, AttemptsAreJobs DEF Inv, JobsAreSane
  <2> QED BY <2>1, <2>2, <2>3 DEF JobIsSane
<1> QED BY <1>1, <1>3, <1>7, <1>8

(* Behind endpoints the charges are the work.                            *)
LEMMA ChargesAreWork ==
  ASSUME Inv, NEW c \in Cells, NEW n \in 1..MaxRunAttempts,
         \A i \in 1..n - 1 : i \in 1..MaxRunAttempts /\ Status(c, i) = "resumable"
  PROVE  /\ ChargedBefore(c, n) = WorkedBefore(c, n)
         /\ WorkedBefore(c, n) \in Nat
         /\ ChargedBefore(c, n + 1) = ChargedBefore(c, n) + job[Attempt(c, n)].receipt.charged
         /\ WorkedBefore(c, n + 1) = WorkedBefore(c, n) + job[Attempt(c, n)].rows
<1>1. PICK m \in Nat : m = n - 1
  BY ConstantsAreNumbers
<1>2. n = m + 1 /\ n + 1 - 1 = m + 1
  BY <1>1
<1>3. \A i \in 1..m : /\ Charges(c)[i] = Rows(c)[i] /\ Rows(c)[i] \in Nat
  <2> SUFFICES ASSUME NEW i \in 1..m
               PROVE  Charges(c)[i] = Rows(c)[i] /\ Rows(c)[i] \in Nat
    OBVIOUS
  <2>1. i \in 1..MaxRunAttempts /\ Endpoint(c, i)
    BY <1>1 DEF Endpoint
  <2>2. job[Attempt(c, i)] \in Job
    BY <2>1, AttemptsAreJobs DEF Inv, TypeOK
  <2>3. job[Attempt(c, i)].receipt.charged = job[Attempt(c, i)].rows
    BY <2>1, EndpointsAreExact
  <2> QED BY <2>1, <2>2, <2>3 DEF Charges, Rows, Job
<1>4. Same(Charges(c), Rows(c), m)
  BY <1>3 DEF Same
<1>5. SumTo(m, Charges(c)) = SumTo(m, Rows(c))
  BY <1>4, SumSame
<1>6. SumTo(m, Rows(c)) \in Nat
  BY <1>3, SumType
<1>7. SumTo(m + 1, Charges(c)) = SumTo(m, Charges(c)) + Charges(c)[m + 1]
  BY SumNext
<1>8. Charges(c)[n] = job[Attempt(c, n)].receipt.charged
  BY DEF Charges
<1>9. ChargedBefore(c, n + 1) = ChargedBefore(c, n) + job[Attempt(c, n)].receipt.charged
  BY <1>1, <1>2, <1>7, <1>8 DEF ChargedBefore
<1> QED BY <1>1, <1>5, <1>6, <1>9, WorkedNext DEF ChargedBefore, WorkedBefore

(* An audit at any moment, of a cell that can be judged, charges it at   *)
(* least for its work and for what sealing may come to charge, and proves   *)
(* no more than was done (audit).                                        *)
THEOREM AuditsAreConservative == Spec => []AuditIsConservative
<1>1. Inv => AuditIsConservative
  <2> SUFFICES ASSUME Inv, NEW c \in Cells,
                      AuditedTraining(c).status \notin {"refused", "running", "not_started"}
               PROVE  /\ AuditedTraining(c).completed <= Worked(c)
                      /\ Worked(c) <= AuditedTraining(c).charged
                      /\ \A charge \in MayBeCharged(c) : charge <= AuditedTraining(c).charged
    BY DEF AuditIsConservative
  <2> DEFINE n == MadeAttempts(c)
             j == Attempt(c, n)
             before == ChargedBefore(c, n)
  <2>1. n # 0
    BY DEF AuditedTraining, Audited
  <2>2. /\ Deciding(c) = n /\ n \in 1..MaxRunAttempts
        /\ \A i \in 1..n - 1 : i \in 1..MaxRunAttempts /\ Status(c, i) = "resumable"
        /\ \A i \in n + 1..MaxRunAttempts :
             i \in 1..MaxRunAttempts /\ ~job[Attempt(c, i)].request
    BY <2>1, LastDecides
  <2>3. /\ before \in Nat
        /\ ChargedBefore(c, n + 1) = before + job[j].receipt.charged
        /\ WorkedBefore(c, n + 1) = before + job[j].rows
    BY <2>2, ChargesAreWork
  <2>4. Worked(c) = before + job[j].rows /\ Charged(c) = before + job[j].receipt.charged
    <3>1. n \in 0..MaxRunAttempts
      BY <2>2, ConstantsAreNumbers
    <3> QED BY <2>2, <2>3, <3>1, WorkEnds
  <2>5. j \in Jobs /\ IsTraining(j)
    BY <2>2, AttemptsAreJobs
  <2>6. job[j] \in Job /\ JobIsSane(j)
    BY <2>5 DEF Inv, TypeOK, JobsAreSane
  <2>7. /\ job[j].rows \in Nat /\ job[j].start \in Nat /\ Reserved(j) \in Nat
        /\ job[j].receipt.charged \in Nat /\ job[j].rows <= Reserved(j)
    BY <2>5, <2>6, ConstantsAreNumbers DEF Job, JobIsSane, Reserved
  <2>8. ASSUME NEW charge \in MayBeCharged(c)
        PROVE  \/ charge = Charged(c)
               \/ /\ ~Sealed(j)
                  /\ charge = Charged(c) + Reserved(j) \/ charge = Charged(c) + job[j].rows
    <3>1. CASE charge = Charged(c)
      BY <3>1
    <3>2. CASE charge # Charged(c)
      <4>1. PICK i \in {k \in Attempts(c) : job[k].request /\ ~Sealed(k)}, probed \in BOOLEAN :
              charge = Charged(c) + ReceiptOf(i, probed).charged
        BY <3>2 DEF MayBeCharged
      <4>2. PICK m \in 1..MaxRunAttempts : i = Attempt(c, m)
        BY <4>1 DEF Attempts
      <4>3. m \notin 1..n - 1
        BY <2>2, <4>1, <4>2 DEF Sealed, Status
      <4>4. m \notin n + 1..MaxRunAttempts
        BY <2>2, <4>1, <4>2
      <4>5. m = n
        BY <2>2, <4>3, <4>4, ConstantsAreNumbers
      <4>6. i = j /\ ~Sealed(j)
        BY <4>1, <4>2, <4>5
      <4> QED BY <4>1, <4>6 DEF ReceiptOf
    <3> QED BY <3>1, <3>2
  <2>9. AuditedTraining(c) =
          IF ~job[j].request THEN Audited("refused", 0, 0)
          ELSE IF Unresolved(j) THEN Audited("running", 0, 0)
          ELSE IF ~Sealed(j) THEN Audited("unsealed", before + UnsealedCharge(j), before)
          ELSE IF job[j].receipt.status = "incomplete" THEN
            IF job[j].receipt.actual # job[j].rows
              THEN Audited("refused", 0, 0)
              ELSE Audited("incomplete", before + job[j].receipt.charged, before)
          ELSE Audited(IF before + job[j].receipt.charged = Updates THEN "completed"
                                                                   ELSE "resumable",
                       before + job[j].receipt.charged, before + job[j].receipt.charged)
    BY <2>1, <2>2 DEF AuditedTraining
  <2>10. /\ ~Sealed(j) => job[j].receipt.charged = 0
         /\ Sealed(j) /\ job[j].receipt.status = "incomplete" =>
              job[j].receipt.charged = Reserved(j)
         /\ Sealed(j) /\ job[j].receipt.status # "incomplete" =>
              job[j].receipt.charged = job[j].rows
    <3>1. ~Sealed(j) => job[j].receipt.charged = 0
      BY <2>5, <2>6 DEF Sealed, JobIsSane
    <3>2. Sealed(j) /\ job[j].receipt.status = "incomplete" =>
            job[j].receipt.charged = Reserved(j)
      BY <2>5, <2>6 DEF JobIsSane
    <3>3. Sealed(j) /\ job[j].receipt.status # "incomplete" =>
            job[j].receipt.charged = job[j].rows
      <4>1. Sealed(j) /\ job[j].receipt.status # "incomplete" => Endpoint(c, n)
        BY <2>6 DEF Sealed, Endpoint, Status, Job
      <4> QED BY <2>2, <4>1, EndpointsAreExact
    <3> QED BY <3>1, <3>2, <3>3
  <2>11. \/ /\ ~Sealed(j) /\ AuditedTraining(c).completed = before
            /\ AuditedTraining(c).charged = before + Reserved(j)
         \/ /\ Sealed(j) /\ job[j].receipt.status = "incomplete"
            /\ AuditedTraining(c).completed = before
            /\ AuditedTraining(c).charged = before + job[j].receipt.charged
         \/ /\ Sealed(j) /\ job[j].receipt.status # "incomplete"
            /\ AuditedTraining(c).completed = before + job[j].receipt.charged
            /\ AuditedTraining(c).charged = before + job[j].receipt.charged
    BY <2>9 DEF Audited, UnsealedCharge
  <2> HIDE DEF before, n, j
  <2> QED BY <2>3, <2>4, <2>7, <2>8, <2>10, <2>11
<1> QED BY <1>1, InvAlways, PTL

------------------------------------------------------------------------------
(* The ledger *)

(* What the ledger of a cell sees of a job.                              *)
SameEntry(k, r) ==
  /\ r.receipt = job[k].receipt /\ r.request = job[k].request /\ r.start = job[k].start

Quiet(k, r) == SameEntry(k, r) /\ r.rows = job[k].rows

OneMore(k, r) ==
  /\ SameEntry(k, r) /\ r.rows = job[k].rows + 1
  /\ job[k].rows + 1 <= Reserved(k) /\ job[k].request

Receives(k, r) ==
  /\ ctl.pc = "seal" /\ k = ctl.job /\ ~Sealed(k)
  /\ \E probed \in BOOLEAN : r.receipt = ReceiptOf(k, probed)
  /\ r.rows = job[k].rows /\ r.request = job[k].request /\ r.start = job[k].start

LEMMA Entries ==
  ASSUME Inv, NEW k \in Jobs, IsTraining(k), NEW r, JobStep(k, r)
  PROVE  Quiet(k, r) \/ Requests(k, r) \/ OneMore(k, r) \/ Receives(k, r)
<1>0. job[k] \in Job /\ JobIsSane(k) /\ JobIsCurrent
  BY DEF Inv, TypeOK, JobsAreSane
<1>1. CASE Opens(k, r)
  BY <1>0, <1>1 DEF Opens, Quiet, SameEntry, Job
<1>2. CASE Starts(k, r)
  <2>1. ASSUME NEW record, r = [job[k] EXCEPT !.record = record] PROVE Quiet(k, r)
    BY <1>0, <2>1 DEF Quiet, SameEntry, Job
  <2>2. CASE r = [job[k] EXCEPT !.alive = TRUE]
    BY <1>0, <2>2 DEF Quiet, SameEntry, Job
  <2>3. ASSUME NEW forked, r = [job[k] EXCEPT !.record = "launch_failed", !.alive = forked]
        PROVE  Quiet(k, r)
    BY <1>0, <2>3 DEF Quiet, SameEntry, Job
  <2> QED BY <1>2, <2>1, <2>2, <2>3 DEF Starts
<1>3. CASE Stops(k, r)
  <2>1. CASE r = [job[k] EXCEPT !.record = "finished"]
    BY <1>0, <2>1 DEF Quiet, SameEntry, Job
  <2>2. CASE r \in Terminated(job[k]) /\ job[k].alive
    <3>1. PICK cut \in {0, 1}, end \in {"none", "stopped"} :
            job[k].rows + cut <= Updates - job[k].start /\ r = Cut(job[k], cut, end)
      BY <2>2, TerminatedIs
    <3>2. r.rows = job[k].rows + cut /\ SameEntry(k, r) /\ job[k].rows \in Nat
      BY <1>0, <3>1 DEF Cut, SameEntry, Job
    <3>3. job[k].request
      BY <1>0, <2>2 DEF JobIsSane, Absent
    <3> QED BY <3>1, <3>2, <3>3 DEF Quiet, OneMore, Reserved
  <2> QED BY <1>3, <2>1, <2>2 DEF Stops, Stopped
<1>4. CASE Seals(k, r)
  <2>1. PICK probed \in BOOLEAN : r = [job[k] EXCEPT !.receipt = ReceiptOf(k, probed)]
    BY <1>4 DEF Seals
  <2>2. /\ r.receipt = ReceiptOf(k, probed)
        /\ r.rows = job[k].rows /\ r.request = job[k].request /\ r.start = job[k].start
    BY <1>0, <2>1 DEF Job
  <2> QED BY <1>4, <2>2 DEF Seals, Receives
<1>5. CASE Works(k, r)
  <2>1. SameEntry(k, r) /\ job[k].request
    BY <1>0, <1>5, WorksKeeps DEF SameEntry, JobIsSane, Absent
  <2>2. \/ r.rows = job[k].rows
        \/ r.rows = job[k].rows + 1 /\ job[k].rows < Reserved(k)
    BY <1>0, <1>5 DEF Works, Job
  <2>3. job[k].rows \in Nat /\ Reserved(k) \in Int
    BY <1>0, ConstantsAreNumbers DEF Job, Reserved
  <2> QED BY <2>1, <2>2, <2>3 DEF Quiet, OneMore
<1> QED BY <1>1, <1>2, <1>3, <1>4, <1>5 DEF JobStep

(* The ledger is read off the rows, receipts and requests of the attempts.  *)
LEMMA LedgerStays ==
  ASSUME NEW c \in Cells,
         \A i \in 1..MaxRunAttempts : Quiet(Attempt(c, i), job'[Attempt(c, i)])
  PROVE  Ledger(c)!Step
<1>1. /\ \A i \in 1..MaxRunAttempts :
           /\ job'[Attempt(c, i)].rows = job[Attempt(c, i)].rows
           /\ job'[Attempt(c, i)].receipt = job[Attempt(c, i)].receipt
           /\ job'[Attempt(c, i)].request = job[Attempt(c, i)].request
           /\ job'[Attempt(c, i)].start = job[Attempt(c, i)].start
  BY DEF Quiet, SameEntry
<1>2. Rows(c)' = Rows(c) /\ Charges(c)' = Charges(c)
  BY <1>1 DEF Rows, Charges
<1>3. Outstanding(c)' = Outstanding(c)
  BY <1>1 DEF Outstanding, OpenReservations, OpenReservation, Reserved, Sealed
<1>4. Worked(c)' = Worked(c) /\ Charged(c)' = Charged(c)
  BY <1>2 DEF Worked, WorkedBefore, Charged, ChargedBefore
<1>5. Closed(c)' = Closed(c)
  BY <1>1 DEF Closed, Attempts
<1> QED BY <1>3, <1>4, <1>5 DEF Ledger!Step, Ledger!Next

(* A sum whose summands end at n.                                        *)
LEMMA SumSplit ==
  ASSUME NEW f, NEW n \in 1..MaxRunAttempts,
         \A i \in 1..MaxRunAttempts : f[i] \in Nat,
         \A i \in n + 1..MaxRunAttempts : f[i] = 0
  PROVE  SumTo(MaxRunAttempts, f) = SumTo(n - 1, f) + f[n]
<1>1. MaxRunAttempts \in Nat /\ n \in 0..MaxRunAttempts
  BY ConstantsAreNumbers
<1>2. SumTo(MaxRunAttempts, f) = SumTo(n, f)
  BY <1>1, SumEnds
<1>3. PICK m \in Nat : m = n - 1 /\ n = m + 1
  BY <1>1
<1>4. SumTo(m + 1, f) = SumTo(m, f) + f[m + 1]
  BY SumNext
<1> QED BY <1>2, <1>3, <1>4

(* Where only the last attempt of a chain changes, the ledger is what is *)
(* charged and done before it and what its files say.                    *)
LastOf(c, n) ==
  /\ \A i \in 1..n - 1 : i \in 1..MaxRunAttempts /\ Status(c, i) = "resumable"
  /\ \A i \in n + 1..MaxRunAttempts :
       i \in 1..MaxRunAttempts /\ ~job[Attempt(c, i)].request

LEMMA EntriesAreNumbers ==
  ASSUME Inv, NEW c \in Cells, NEW i \in 1..MaxRunAttempts
  PROVE  Rows(c)[i] \in Nat /\ Charges(c)[i] \in Nat /\ OpenReservations(c)[i] \in Nat
<1>1. job[Attempt(c, i)] \in Job /\ JobIsSane(Attempt(c, i)) /\ IsTraining(Attempt(c, i))
  BY AttemptsAreJobs DEF Inv, TypeOK, JobsAreSane
<1>2. Reserved(Attempt(c, i)) \in Nat
  BY <1>1, ConstantsAreNumbers DEF JobIsSane, Reserved, Job
<1> QED BY <1>1, <1>2 DEF Rows, Charges, OpenReservations, OpenReservation, Job

LEMMA LedgerOfLast ==
  ASSUME Inv, NEW c \in Cells, NEW n \in 1..MaxRunAttempts, LastOf(c, n)
  PROVE  /\ WorkedBefore(c, n) \in Nat
         /\ Worked(c) = WorkedBefore(c, n) + job[Attempt(c, n)].rows
         /\ Charged(c) = WorkedBefore(c, n) + job[Attempt(c, n)].receipt.charged
         /\ Outstanding(c) = OpenReservation(Attempt(c, n))
         /\ Closed(c) <=> Status(c, n) = "incomplete"
<1>1. /\ WorkedBefore(c, n) \in Nat /\ ChargedBefore(c, n) = WorkedBefore(c, n)
      /\ ChargedBefore(c, n + 1) = ChargedBefore(c, n) + job[Attempt(c, n)].receipt.charged
      /\ WorkedBefore(c, n + 1) = WorkedBefore(c, n) + job[Attempt(c, n)].rows
  BY ChargesAreWork DEF LastOf
<1>2. n \in 0..MaxRunAttempts
  BY ConstantsAreNumbers
<1>3. Worked(c) = WorkedBefore(c, n + 1) /\ Charged(c) = ChargedBefore(c, n + 1)
  BY <1>2, WorkEnds DEF LastOf
<1>4. Outstanding(c) = OpenReservation(Attempt(c, n))
  <2> DEFINE f == OpenReservations(c)
  <2>1. \A i \in 1..MaxRunAttempts : f[i] \in Nat
    BY EntriesAreNumbers
  <2>2. \A i \in n + 1..MaxRunAttempts : f[i] = 0
    BY DEF LastOf, OpenReservations, OpenReservation
  <2>3. \A i \in 0 + 1..n - 1 : f[i] = 0
    BY DEF LastOf, OpenReservations, OpenReservation, Sealed, Status
  <2>4. f[n] = OpenReservation(Attempt(c, n))
    BY DEF OpenReservations
  <2> HIDE DEF f
  <2>5. SumTo(MaxRunAttempts, f) = SumTo(n - 1, f) + f[n]
    BY <2>1, <2>2, SumSplit
  <2>6. n - 1 \in Nat /\ 0 \in 0..n - 1 /\ \A i \in 1..n - 1 : f[i] \in Nat
    BY <2>1, ConstantsAreNumbers
  <2>7. SumTo(n - 1, f) = SumTo(0, f)
    BY <2>3, <2>6, SumEnds
  <2>8. SumTo(0, f) = 0
    BY SumNext
  <2>9. f[n] \in Nat
    BY <2>1
  <2> QED BY <2>4, <2>5, <2>7, <2>8, <2>9 DEF Outstanding, f
<1>5. Closed(c) <=> Status(c, n) = "incomplete"
  <2>1. ASSUME NEW i \in 1..MaxRunAttempts, Status(c, i) = "incomplete" PROVE i = n
    <3>1. i \notin 1..n - 1
      BY <2>1 DEF LastOf
    <3>2. i \notin n + 1..MaxRunAttempts
      BY <2>1, UnrequestedIsEmpty DEF LastOf
    <3> QED BY <3>1, <3>2, ConstantsAreNumbers
  <2> QED BY <2>1 DEF Closed, Attempts, Status
<1> QED BY <1>1, <1>3, <1>4, <1>5

LEMMA LedgerOfLastAfter ==
  ASSUME Inv, Inv', NEW c \in Cells, NEW n \in 1..MaxRunAttempts, LastOf(c, n),
         \A i \in 1..MaxRunAttempts : i # n => job'[Attempt(c, i)] = job[Attempt(c, i)]
  PROVE  /\ Worked(c)' = WorkedBefore(c, n) + job'[Attempt(c, n)].rows
         /\ Charged(c)' = WorkedBefore(c, n) + job'[Attempt(c, n)].receipt.charged
         /\ Outstanding(c)' = OpenReservation(Attempt(c, n))'
         /\ Closed(c)' <=> Status(c, n)' = "incomplete"
<1>0. n - 1 \in Nat /\ MaxRunAttempts \in Nat /\ MaxRunAttempts + 1 - 1 = MaxRunAttempts
  BY ConstantsAreNumbers
<1>1. \A i \in 1..MaxRunAttempts :
        /\ Rows(c)'[i] \in Nat /\ Charges(c)'[i] \in Nat /\ OpenReservations(c)'[i] \in Nat
  <2> SUFFICES ASSUME NEW i \in 1..MaxRunAttempts
               PROVE  /\ Rows(c)'[i] \in Nat /\ Charges(c)'[i] \in Nat
                      /\ OpenReservations(c)'[i] \in Nat
    OBVIOUS
  <2>1. Attempt(c, i) \in Jobs /\ IsTraining(Attempt(c, i))
    BY AttemptsAreJobs
  <2>2. job'[Attempt(c, i)] \in Job /\ JobIsSane(Attempt(c, i))'
    BY <2>1 DEF Inv, TypeOK, JobsAreSane
  <2>3. Updates - job'[Attempt(c, i)].start \in Nat
    BY <2>1, <2>2, ConstantsAreNumbers DEF JobIsSane, Reserved, Job
  <2> QED BY <2>2, <2>3 DEF Rows, Charges, OpenReservations, OpenReservation, Job, Reserved
<1>2. \A i \in 1..n - 1 : i \in 1..MaxRunAttempts /\ i # n
  BY <1>0
<1>3. \A i \in n + 1..MaxRunAttempts : i \in 1..MaxRunAttempts /\ i # n
  BY <1>0
<1>4. /\ \A i \in 1..n - 1 : /\ Rows(c)'[i] = Rows(c)[i]
                             /\ Charges(c)'[i] = Charges(c)[i]
                             /\ OpenReservations(c)'[i] = 0
      /\ \A i \in n + 1..MaxRunAttempts : /\ Rows(c)'[i] = 0
                                          /\ Charges(c)'[i] = 0
                                          /\ OpenReservations(c)'[i] = 0
  <2>1. ASSUME NEW i \in 1..n - 1
        PROVE  /\ Rows(c)'[i] = Rows(c)[i] /\ Charges(c)'[i] = Charges(c)[i]
               /\ OpenReservations(c)'[i] = 0
    <3>1. i \in 1..MaxRunAttempts /\ job'[Attempt(c, i)] = job[Attempt(c, i)]
      BY <1>2
    <3>2. job[Attempt(c, i)].receipt.status = "resumable"
      BY DEF LastOf, Status
    <3> QED BY <3>1, <3>2 DEF Rows, Charges, OpenReservations, OpenReservation, Sealed
  <2>2. ASSUME NEW i \in n + 1..MaxRunAttempts
        PROVE  /\ Rows(c)'[i] = 0 /\ Charges(c)'[i] = 0 /\ OpenReservations(c)'[i] = 0
    <3>1. i \in 1..MaxRunAttempts /\ job'[Attempt(c, i)] = job[Attempt(c, i)]
      BY <1>3
    <3>2. ~job[Attempt(c, i)].request
      BY DEF LastOf
    <3>3. job[Attempt(c, i)].rows = 0 /\ job[Attempt(c, i)].receipt.charged = 0
      BY <3>1, <3>2, UnrequestedIsEmpty
    <3> QED BY <3>1, <3>2, <3>3 DEF Rows, Charges, OpenReservations, OpenReservation
  <2> QED BY <2>1, <2>2
<1>5. ASSUME NEW f, NEW g, \A i \in 1..MaxRunAttempts : g[i] \in Nat,
             \A i \in 1..n - 1 : g[i] = f[i],
             \A i \in n + 1..MaxRunAttempts : g[i] = 0
      PROVE  SumTo(MaxRunAttempts, g) = SumTo(n - 1, f) + g[n]
  <2>1. SumTo(MaxRunAttempts, g) = SumTo(n - 1, g) + g[n]
    BY <1>5, SumSplit
  <2>2. Same(g, f, n - 1)
    BY <1>5 DEF Same
  <2>3. SumTo(n - 1, g) = SumTo(n - 1, f)
    BY <1>0, <2>2, SumSame
  <2> QED BY <2>1, <2>3
<1>6. Rows(c)'[n] = job'[Attempt(c, n)].rows
      /\ Charges(c)'[n] = job'[Attempt(c, n)].receipt.charged
      /\ OpenReservations(c)'[n] = OpenReservation(Attempt(c, n))'
  BY DEF Rows, Charges, OpenReservations, OpenReservation, Sealed, Reserved
<1>7. Worked(c)' = WorkedBefore(c, n) + job'[Attempt(c, n)].rows
  <2>1. SumTo(MaxRunAttempts, Rows(c)') = SumTo(n - 1, Rows(c)) + Rows(c)'[n]
    BY <1>1, <1>4, <1>5
  <2> QED BY <1>0, <1>6, <2>1 DEF Worked, WorkedBefore
<1>8. Charged(c)' = WorkedBefore(c, n) + job'[Attempt(c, n)].receipt.charged
  <2>1. SumTo(MaxRunAttempts, Charges(c)') = SumTo(n - 1, Charges(c)) + Charges(c)'[n]
    BY <1>1, <1>4, <1>5
  <2>2. ChargedBefore(c, n) = WorkedBefore(c, n)
    BY ChargesAreWork DEF LastOf
  <2> QED BY <1>0, <1>6, <2>1, <2>2 DEF Charged, ChargedBefore
<1>9. Outstanding(c)' = OpenReservation(Attempt(c, n))'
  <2> DEFINE zero == [i \in 1..MaxRunAttempts |-> 0]
  <2>1. \A i \in 1..n - 1 : zero[i] = 0
    BY <1>2
  <2> HIDE DEF zero
  <2>2. SumTo(MaxRunAttempts, OpenReservations(c)') = SumTo(n - 1, zero) + OpenReservations(c)'[n]
    BY <1>1, <1>4, <1>5, <2>1
  <2>3. 0 \in 0..n - 1 /\ \A i \in 1..n - 1 : zero[i] \in Nat
    BY <1>0, <2>1
  <2>4. SumTo(n - 1, zero) = SumTo(0, zero)
    BY <1>0, <2>1, <2>3, SumEnds
  <2>5. SumTo(0, zero) = 0
    BY SumNext
  <2>6. OpenReservations(c)'[n] \in Nat
    BY <1>1
  <2> QED BY <1>6, <2>2, <2>4, <2>5, <2>6 DEF Outstanding
<1>10. Closed(c)' <=> Status(c, n)' = "incomplete"
  <2>1. ASSUME NEW i \in 1..MaxRunAttempts, job'[Attempt(c, i)].receipt.status = "incomplete"
        PROVE  i = n
    <3>1. CASE i # n
      <4>1. Status(c, i) = "incomplete"
        BY <2>1, <3>1 DEF Status
      <4>2. i \notin 1..n - 1
        BY <4>1 DEF LastOf
      <4>3. i \notin n + 1..MaxRunAttempts
        BY <4>1, UnrequestedIsEmpty DEF LastOf
      <4> QED BY <4>2, <4>3, <1>0
    <3> QED BY <3>1
  <2> QED BY <2>1 DEF Closed, Attempts, Status
<1> QED BY <1>7, <1>8, <1>9, <1>10

(* Only the last attempt of a chain changes once it is made.             *)
LEMMA StepIsOfLast ==
  ASSUME Inv, NEW c \in Cells, NEW n \in 1..MaxRunAttempts,
         NEW r, JobStep(Attempt(c, n), r), job[Attempt(c, n)].made
  PROVE  LastOf(c, n)
<1>1. Attempt(c, n) \in Jobs /\ IsTraining(Attempt(c, n))
  BY AttemptsAreJobs
<1>2. Status(c, n) # "resumable"
  BY <1>1, EndpointIsFinal DEF Inv, JobsAreSane, Status
<1>3. \A m \in n + 1..MaxRunAttempts :
        m \in 1..MaxRunAttempts /\ ~job[Attempt(c, m)].request
  BY <1>2, NothingFollows
<1>4. \A i \in 1..n - 1 : Status(c, i) = "resumable"
  BY DEF Inv, ChainsAreLinked
<1>5. \A i \in 1..n - 1 : i \in 1..MaxRunAttempts
  BY ConstantsAreNumbers
<1> QED BY <1>3, <1>4, <1>5 DEF LastOf

(* An entry of the ledger, and one with some of its fields changed.      *)
Entry(ch, op, wo, cl) == [charged |-> ch, open |-> op, worked |-> wo, closed |-> cl]

WithOpen(l, x) == [l EXCEPT !.open = x]

WithWorked(l, x) == [l EXCEPT !.worked = x]

WithCharged(l, x) == [l EXCEPT !.charged = x]

WithClosed(l, x) == [l EXCEPT !.closed = x]

LEMMA FieldsOfEntry ==
  ASSUME NEW ch, NEW op, NEW wo, NEW cl, NEW l, l = Entry(ch, op, wo, cl)
  PROVE  l.charged = ch /\ l.open = op /\ l.worked = wo /\ l.closed = cl
  BY DEF Entry

LEMMA EntryChanges ==
  ASSUME NEW ch, NEW op, NEW wo, NEW cl, NEW x
  PROVE  /\ WithOpen(Entry(ch, op, wo, cl), x) = Entry(ch, x, wo, cl)
         /\ WithWorked(Entry(ch, op, wo, cl), x) = Entry(ch, op, x, cl)
         /\ WithCharged(Entry(ch, op, wo, cl), x) = Entry(x, op, wo, cl)
<1> DEFINE l == Entry(ch, op, wo, cl)
<1>0. l = [charged |-> ch, open |-> op, worked |-> wo, closed |-> cl]
  BY DEF Entry
<1> HIDE DEF l
<1>1. WithOpen(l, x) = Entry(ch, x, wo, cl)
  BY <1>0 DEF Entry, WithOpen
<1>2. WithWorked(l, x) = Entry(ch, op, x, cl)
  BY <1>0 DEF Entry, WithWorked
<1>3. WithCharged(l, x) = Entry(x, op, wo, cl)
  BY <1>0 DEF Entry, WithCharged
<1> QED BY <1>1, <1>2, <1>3 DEF l

LEMMA EntryClosed ==
  ASSUME NEW ch, NEW op, NEW wo, NEW cl, NEW x
  PROVE  WithClosed(Entry(ch, op, wo, cl), x) = Entry(ch, op, wo, x)
<1> DEFINE l == Entry(ch, op, wo, cl)
<1>0. l = [charged |-> ch, open |-> op, worked |-> wo, closed |-> cl]
  BY DEF Entry
<1> HIDE DEF l
<1>1. WithClosed(l, x) = Entry(ch, op, wo, x)
  BY <1>0 DEF Entry, WithClosed
<1> QED BY <1>1 DEF l

(* The ledger of a cell is such an entry.                                *)
Book(c, ch, op, wo, cl) ==
  /\ Charged(c) = ch /\ Outstanding(c) = op /\ Worked(c) = wo /\ Closed(c) = cl

Turns(ch, op, wo, cl, ch1, op1, wo1, cl1) ==
  /\ ch \in Nat /\ op \in Nat /\ wo \in Nat
  /\ \/ /\ ~cl /\ op = 0 /\ ch < Updates
        /\ op1 = Updates - ch /\ ch1 = ch /\ wo1 = wo /\ cl1 = cl
     \/ /\ wo < ch + op /\ (op > 0 \/ cl)
        /\ wo1 = wo + 1 /\ ch1 = ch /\ op1 = op /\ cl1 = cl
     \/ /\ op > 0 /\ wo > ch
        /\ ch1 = wo /\ op1 = 0 /\ wo1 = wo /\ cl1 = cl
     \/ /\ op > 0
        /\ ch1 = ch + op /\ op1 = 0 /\ wo1 = wo /\ cl1 = TRUE

LEMMA BooksAreKept ==
  ASSUME NEW c, NEW ch, NEW op, NEW wo, NEW cl, NEW ch1, NEW op1, NEW wo1, NEW cl1,
         Book(c, ch, op, wo, cl), Book(c, ch1, op1, wo1, cl1)',
         Turns(ch, op, wo, cl, ch1, op1, wo1, cl1)
  PROVE  Ledger(c)!Step
<1> DEFINE l == [charged |-> Charged(c), open |-> Outstanding(c),
                 worked |-> Worked(c), closed |-> Closed(c)]
<1>1. l = Entry(ch, op, wo, cl) /\ l' = Entry(ch1, op1, wo1, cl1)
  BY Zenon DEF Book, Entry
<1> HIDE DEF l
<1>0. l = Entry(ch, op, wo, cl)
  BY <1>1
<1>2. l.charged = ch /\ l.open = op /\ l.worked = wo /\ l.closed = cl
  BY <1>0 DEF Entry
<1>3. CASE /\ ~cl /\ op = 0 /\ ch < Updates
           /\ op1 = Updates - ch /\ ch1 = ch /\ wo1 = wo /\ cl1 = cl
  <2>1. l' = [l EXCEPT !.open = Updates - l.charged]
    <3>1. l' = Entry(ch, Updates - l.charged, wo, cl)
      BY <1>1, <1>2, <1>3, Zenon
    <3>2. WithOpen(l, Updates - l.charged) = Entry(ch, Updates - l.charged, wo, cl)
      BY <1>0, EntryChanges
    <3> QED BY <3>1, <3>2, Zenon DEF WithOpen
  <2>2. ~l.closed /\ l.open = 0 /\ l.charged < Updates
    BY <1>2, <1>3, Zenon
  <2> QED BY <2>1, <2>2, Zenon DEF l, Ledger!Step, Ledger!Next, Ledger!Reserve
<1>4. CASE /\ wo < ch + op /\ (op > 0 \/ cl)
           /\ wo1 = wo + 1 /\ ch1 = ch /\ op1 = op /\ cl1 = cl
  <2>1. l' = [l EXCEPT !.worked = l.worked + 1]
    <3>1. l' = Entry(ch, op, l.worked + 1, cl)
      BY <1>1, <1>2, <1>4, Zenon
    <3>2. WithWorked(l, l.worked + 1) = Entry(ch, op, l.worked + 1, cl)
      BY <1>0, EntryChanges
    <3> QED BY <3>1, <3>2, Zenon DEF WithWorked
  <2>2. l.worked < l.charged + l.open /\ (l.open > 0 \/ l.closed)
    BY <1>2, <1>4, Zenon
  <2> QED BY <2>1, <2>2, Zenon DEF l, Ledger!Step, Ledger!Next, Ledger!Work
<1>5. CASE /\ op > 0 /\ wo > ch
           /\ ch1 = wo /\ op1 = 0 /\ wo1 = wo /\ cl1 = cl
  <2>1. l' = [l EXCEPT !.charged = l.worked, !.open = 0]
    <3>1. l' = Entry(l.worked, 0, wo, cl)
      BY <1>1, <1>2, <1>5, Zenon
    <3>2. WithOpen(WithCharged(l, l.worked), 0) = Entry(l.worked, 0, wo, cl)
      BY <1>0, EntryChanges
    <3> QED BY <3>1, <3>2, Zenon DEF WithCharged, WithOpen
  <2>2. l.open > 0 /\ l.worked > l.charged
    BY <1>2, <1>5, Zenon
  <2> QED BY <2>1, <2>2, Zenon DEF l, Ledger!Step, Ledger!Next, Ledger!Settle
<1>6. CASE /\ op > 0
           /\ ch1 = ch + op /\ op1 = 0 /\ wo1 = wo /\ cl1 = TRUE
  <2>1. l' = [l EXCEPT !.charged = l.charged + l.open, !.open = 0, !.closed = TRUE]
    <3>1. l' = Entry(l.charged + l.open, 0, wo, cl1)
      BY <1>1, <1>2, <1>6, Zenon
    <3>2. WithOpen(WithCharged(l, l.charged + l.open), 0)
            = Entry(l.charged + l.open, 0, wo, cl)
      BY <1>0, EntryChanges
    <3>3. WithClosed(Entry(l.charged + l.open, 0, wo, cl), cl1)
            = Entry(l.charged + l.open, 0, wo, cl1)
      BY EntryClosed, SMT
    <3>4. l' = [l EXCEPT !.charged = l.charged + l.open, !.open = 0, !.closed = cl1]
      BY <3>1, <3>2, <3>3, Zenon DEF WithCharged, WithOpen, WithClosed
    <3> QED BY <1>6, <3>4, Zenon
  <2>2. l.open > 0
    BY <1>2, <1>6, Zenon
  <2> QED BY <2>1, <2>2, Zenon DEF l, Ledger!Step, Ledger!Next, Ledger!Forfeit
<1> QED BY <1>3, <1>4, <1>5, <1>6 DEF Turns

(* A step of an attempt that touches its entry is one of the ledger.     *)
LEMMA AttemptMoves ==
  ASSUME Inv, Inv', NEW c \in Cells, NEW n \in 1..MaxRunAttempts,
         NEW r, JobStep(Attempt(c, n), r), Becomes(Attempt(c, n), r),
         ~Quiet(Attempt(c, n), r)
  PROVE  Ledger(c)!Step
<1> DEFINE k == Attempt(c, n)
           f == job[k]
<1>1. k \in Jobs /\ IsTraining(k)
  BY AttemptsAreJobs
<1>2. f \in Job /\ JobIsSane(k) /\ TypeOK /\ JobIsCurrent /\ ProgressIsReal
  BY <1>1 DEF Inv, TypeOK, JobsAreSane
<1>3. Requests(k, r) \/ OneMore(k, r) \/ Receives(k, r)
  BY <1>1, Entries
<1>4. f.made /\ (f.request \/ Requests(k, r)) /\ (Requests(k, r) => ~f.request)
  BY <1>2, <1>3 DEF Requests, OneMore, Receives, JobIsCurrent, JobIsSane, Busy
<1>5. LastOf(c, n)
  BY <1>4, StepIsOfLast
<1>6. job'[k] = r /\ \A i \in 1..MaxRunAttempts : i # n => job'[Attempt(c, i)] = job[Attempt(c, i)]
  <2>1. job'[k] = r /\ \A j \in Jobs : j # k => job'[j] = job[j]
    BY <1>1, <1>2, OthersStay
  <2>2. \A i \in 1..MaxRunAttempts : Attempt(c, i) \in Jobs /\ (i # n => Attempt(c, i) # k)
    BY AttemptsAreJobs, SameAttempt
  <2> QED BY <2>1, <2>2
<1>0. PICK w \in Nat : w = WorkedBefore(c, n)
  BY <1>5, LedgerOfLast
<1> DEFINE op == IF f.request /\ f.receipt.status = "none" THEN Updates - f.start ELSE 0
           op1 == IF r.request /\ r.receipt.status = "none" THEN Updates - r.start ELSE 0
           cl == f.receipt.status = "incomplete"
           cl1 == r.receipt.status = "incomplete"
<1>7. Book(c, w + f.receipt.charged, op, w + f.rows, cl)
  <2>1. /\ Worked(c) = w + f.rows
        /\ Charged(c) = w + f.receipt.charged
        /\ Outstanding(c) = OpenReservation(k)
        /\ Closed(c) <=> Status(c, n) = "incomplete"
    BY <1>5, <1>0, LedgerOfLast
  <2>2. OpenReservation(k) = op
    BY DEF OpenReservation, Sealed, Reserved
  <2>3. (Closed(c)) = (cl)
    BY <2>1 DEF Status, Closed
  <2> QED BY <2>1, <2>2, <2>3 DEF Book
<1>8. Book(c, w + r.receipt.charged, op1, w + r.rows, cl1)'
  <2>1. /\ Worked(c)' = w + job'[k].rows
        /\ Charged(c)' = w + job'[k].receipt.charged
        /\ Outstanding(c)' = OpenReservation(k)'
        /\ Closed(c)' <=> Status(c, n)' = "incomplete"
    BY <1>5, <1>6, <1>0, LedgerOfLastAfter
  <2>2. OpenReservation(k)' = op1
    BY <1>6 DEF OpenReservation, Sealed, Reserved
  <2>3. Closed(c)' = cl1
    BY <1>6, <2>1, Zenon DEF Status, Closed
  <2>4. Worked(c)' = w + r.rows /\ Charged(c)' = w + r.receipt.charged
    BY <1>6, <2>1
  <2> QED BY <2>1, <2>2, <2>3, <2>4 DEF Book
<1>9. f.request => f.start = w
  <2>1. job[Attempt(c, n)].request => job[Attempt(c, n)].start = WorkedBefore(c, n)
    BY DEF Inv, ChainsAreLinked
  <2> QED BY <2>1, <1>0
<1>10. /\ f.rows \in Nat /\ f.start \in Nat /\ f.receipt.charged \in Nat
       /\ f.start <= Updates /\ f.rows <= Updates - f.start
       /\ f.receipt.status \in {"none", "incomplete", "resumable", "completed"}
       /\ Updates \in Nat
       /\ f.receipt.status = "none" => f.receipt.charged = 0
       /\ f.receipt.status = "incomplete" => f.receipt.charged = Updates - f.start
  BY <1>1, <1>2, ConstantsAreNumbers DEF JobIsSane, Job, Reserved
<1>11. f.receipt.status \in {"none", "incomplete"}
  BY <1>1, <1>2, <1>10, EndpointIsFinal
<1> DEFINE Turned == Turns(w + f.receipt.charged, op, w + f.rows, cl,
                           w + r.receipt.charged, op1, w + r.rows, cl1)
<1>12. ASSUME Requests(k, r) PROVE Turned
  <2>1. /\ f.rows = 0 /\ f.receipt.status = "none" /\ ~f.request
    BY <1>2, <1>4, <1>12 DEF JobIsSane, Absent, NoReceipt
  <2>2. /\ r.rows = 0 /\ r.receipt = f.receipt /\ r.request /\ r.start = ctl.completed
    BY <1>1, <1>2, <1>12, <2>1 DEF Requests, Job
  <2>3. ctl.completed = w /\ w < Updates
    <3>1. ctl.pc \in Busy /\ k = ctl.job /\ TrainsHere
      BY <1>1, <1>12 DEF Requests, Busy, TrainsHere
    <3>2. k = Attempt(ctl.cell, ctl.n + 1)
      BY <1>1, <3>1, BusyJob
    <3>3. ctl.cell = c /\ ctl.n + 1 = n
      BY <3>2, SameAttempt
    <3> QED BY <1>1, <1>2, <1>0, <3>1, <3>3 DEF ProgressIsReal, PastIsCounted
  <2> QED BY <1>10, <2>1, <2>2, <2>3 DEF Turns
<1>13. ASSUME OneMore(k, r) PROVE Turned
  <2>1. /\ r.receipt = f.receipt /\ r.request = f.request /\ r.start = f.start
        /\ r.rows = f.rows + 1 /\ f.rows + 1 <= Updates - f.start /\ f.request
    BY <1>13 DEF OneMore, SameEntry, Reserved
  <2>2. f.start = w
    BY <1>9, <2>1
  <2> QED BY <1>10, <1>11, <2>1, <2>2 DEF Turns
<1>14. ASSUME Receives(k, r) PROVE Turned
  <2>1. PICK probed \in BOOLEAN : r.receipt = ReceiptOf(k, probed)
    BY <1>14 DEF Receives
  <2>2. /\ ctl.pc = "seal" /\ k = ctl.job /\ f.receipt.status = "none" /\ f.request
        /\ r.rows = f.rows /\ r.request /\ r.start = f.start
    BY <1>4, <1>14 DEF Receives, Requests, Sealed
  <2>3. f.start = w /\ w < Updates
    BY <1>1, <1>2, <1>9, <2>2 DEF ProgressIsReal, Busy
  <2>4. \/ /\ r.receipt.status \in {"completed", "resumable"}
           /\ r.receipt.charged = f.rows /\ f.rows > 0
        \/ r.receipt.status = "incomplete" /\ r.receipt.charged = Updates - f.start
    BY <2>1 DEF ReceiptOf, Exact, Reserved
  <2> QED BY <1>10, <2>2, <2>3, <2>4 DEF Turns
<1>15. Turned
  BY <1>3, <1>12, <1>13, <1>14
<1> HIDE DEF f, op, op1, cl, cl1
<1> QED BY <1>7, <1>8, <1>15, BooksAreKept

LEMMA CampaignKeepsLedgers ==
  ASSUME Inv, Inv', [Next]_vars, NEW c \in Cells
  PROVE  Ledger(c)!Step
<1>0. job \in [Jobs -> Job] /\ TypeOK
  BY DEF Inv, TypeOK
<1>1. CASE UNCHANGED job
  <2>1. \A i \in 1..MaxRunAttempts : Quiet(Attempt(c, i), job'[Attempt(c, i)])
    BY <1>1 DEF Quiet, SameEntry
  <2> QED BY <2>1, LedgerStays
<1>2. CASE Next /\ job' # job
  <2>0. PICK k \in Jobs : \E r : JobStep(k, r) /\ Becomes(k, r)
    BY <1>0, <1>2, StepIsJobStep
  <2>1. PICK r : JobStep(k, r) /\ Becomes(k, r)
    BY <2>0
  <2>2. job'[k] = r /\ \A j \in Jobs : j # k => job'[j] = job[j]
    BY <1>0, <2>1, OthersStay
  <2>3. CASE \E n \in 1..MaxRunAttempts : k = Attempt(c, n) /\ ~Quiet(k, r)
    BY <2>1, <2>3, AttemptMoves
  <2>4. CASE ~\E n \in 1..MaxRunAttempts : k = Attempt(c, n) /\ ~Quiet(k, r)
    <3> SUFFICES ASSUME NEW i \in 1..MaxRunAttempts
                 PROVE  Quiet(Attempt(c, i), job'[Attempt(c, i)])
      BY LedgerStays
    <3>1. CASE Attempt(c, i) = k
      BY <2>2, <2>4, <3>1
    <3>2. CASE Attempt(c, i) # k
      BY <2>2, <3>2, AttemptsAreJobs DEF Quiet, SameEntry
    <3> QED BY <3>1, <3>2
  <2> QED BY <2>3, <2>4
<1> QED BY <1>1, <1>2 DEF vars

LEMMA LedgersInitially ==
  ASSUME Init, NEW c \in Cells
  PROVE  Ledger(c)!Init
<1>1. \A i \in 1..MaxRunAttempts : job[Attempt(c, i)] = Absent
  BY AttemptsAreJobs DEF Init
<1>2. Inv
  BY InvInitially
<1>3. 1 \in 1..MaxRunAttempts /\ LastOf(c, 1)
  <2>1. 1 \in 1..MaxRunAttempts /\ 1..1 - 1 = {}
    BY ConstantsAreNumbers
  <2>2. \A i \in 1 + 1..MaxRunAttempts : i \in 1..MaxRunAttempts
    BY ConstantsAreNumbers
  <2> QED BY <1>1, <2>1, <2>2 DEF LastOf, Absent
<1>4. WorkedBefore(c, 1) = 0
  BY WorkedNext
<1>5. /\ Worked(c) = 0 + job[Attempt(c, 1)].rows
      /\ Charged(c) = 0 + job[Attempt(c, 1)].receipt.charged
      /\ Outstanding(c) = OpenReservation(Attempt(c, 1))
      /\ Closed(c) <=> Status(c, 1) = "incomplete"
  BY <1>2, <1>3, <1>4, LedgerOfLast
<1>6. Worked(c) = 0 /\ Charged(c) = 0 /\ Outstanding(c) = 0 /\ ~Closed(c)
  BY <1>1, <1>3, <1>5 DEF Absent, NoReceipt, OpenReservation, Status
<1>7. Closed(c) = FALSE
  BY <1>6, Zenon DEF Closed
<1> QED BY <1>6, <1>7 DEF Ledger!Init, Ledger!Zero

(* The attempts of a cell are reservations that are settled exactly or   *)
(* forfeited (train_cell and seal_training).                             *)
THEOREM LedgerIsImplemented == Spec => ImplementsLedger
<1>1. Init => \A c \in Cells : Ledger(c)!Init
  BY LedgersInitially
<1>2. Inv /\ Inv' /\ [Next]_vars => [\A c \in Cells : Ledger(c)!Step]_vars
  BY CampaignKeepsLedgers
<1>3. Spec => []Inv
  BY InvAlways
<1> QED BY <1>1, <1>2, <1>3, PTL DEF Spec, ImplementsLedger

=============================================================================
