----------------------------- MODULE BudgetProofs -----------------------------
(***************************************************************************)
(* Proofs about the two budgets of a training session, for every number of *)
(* journals, stages and rollouts: the durable consumption journal          *)
(* (LearningJournal) and the curriculum's schedule (CurriculumBudget).     *)
(* Both add up rollouts over the stages, so the facts about sums over      *)
(* finite sets come first.  Nothing here is proved by an induction over    *)
(* data: where the usual argument is one, the proof takes a smallest       *)
(* counterexample of a well-founded order instead.                         *)
(***************************************************************************)
EXTENDS LearningJournal, CurriculumBudget, FiniteSetTheorems, WellFoundedInduction, TLAPS

------------------------------------------------------------------------------
(* Sums over finite sets *)

(* The sum of f over S, as the community modules define it. *)
SumOver(f, S) == Sums!SumFunctionOnSet(f, S)

(* The element a sum takes first. *)
Pick(s) == CHOOSE x \in s : TRUE

(* g[s] is the sum of f over s, for every part s of S. *)
IsSum(g, f, S) ==
  g = [s \in SUBSET S |-> IF s = {} THEN 0 ELSE f[Pick(s)] + g[s \ {Pick(s)}]]

(* A sum is the value of its recursive function. *)
LEMMA SumOverDef ==
  ASSUME NEW f, NEW S
  PROVE  SumOver(f, S) = (CHOOSE g : IsSum(g, f, S))[S]
  BY DEF SumOver, Sums!SumFunctionOnSet, Sums!FoldFunctionOnSet, Sums!MapThenFoldSet, IsSum, Pick

(* A set of numbers has a least one. *)
LEMMA LeastNat ==
  ASSUME NEW T \in SUBSET Nat, T # {}
  PROVE  \E n \in T : \A m \in T : n <= m
<1> DEFINE R == {ss \in Nat \X Nat : ss[1] < ss[2]}
<1>1. IsWellFoundedOn(R, Nat)
  BY NatLessThanWellFounded DEF OpToRel
<1> HIDE DEF R
<1>2. PICK n \in T : \A m \in T : ~(<<m, n>> \in R)
  BY <1>1, WFMin
<1>3. ASSUME NEW m \in T PROVE n <= m
  <2>1. <<m, n>> \notin R /\ <<m, n>> \in Nat \X Nat
    BY <1>2
  <2>2. ~(m < n)
    BY <2>1 DEF R
  <2> QED BY <2>2
<1> QED BY <1>3

(* Among sets of parts of a finite set one has no smaller one below it. *)
LEMMA MinimalPart ==
  ASSUME NEW S, IsFiniteSet(S), NEW B \in SUBSET SUBSET S, B # {}
  PROVE  \E s \in B : \A t \in B : t \subseteq s => t = s
<1> DEFINE sizes == {Cardinality(s) : s \in B}
<1>1. \A s \in B : IsFiniteSet(s) /\ Cardinality(s) \in Nat
  BY FS_Subset, FS_CardinalityType
<1>2. PICK n \in sizes : \A m \in sizes : n <= m
  <2>1. sizes \in SUBSET Nat /\ sizes # {}
    BY <1>1
  <2> HIDE DEF sizes
  <2> QED BY <2>1, LeastNat
<1>3. PICK s \in B : Cardinality(s) = n
  BY <1>2
<1>4. ASSUME NEW t \in B, t \subseteq s PROVE t = s
  <2>1. Cardinality(s) <= Cardinality(t)
    BY <1>2, <1>3
  <2>2. Cardinality(t) <= Cardinality(s) /\ (Cardinality(t) = Cardinality(s) => s = t)
    BY <1>1, <1>4, FS_Subset
  <2> QED BY <1>1, <2>1, <2>2
<1> QED BY <1>3, <1>4

(* The parts of a non-empty set without the element taken first. *)
LEMMA PickFacts ==
  ASSUME NEW s, s # {}
  PROVE  Pick(s) \in s
  BY DEF Pick

(* Sums over parts of at most n elements; the whole function is the one    *)
(* with n the size of the set.                                             *)
LEMMA SumExists ==
  ASSUME NEW f, NEW S, IsFiniteSet(S)
  PROVE  \E g : IsSum(g, f, S)
<1> DEFINE Parts(n) == {s \in SUBSET S : Cardinality(s) <= n}
           Layer(h, n) == [s \in Parts(n) |->
                            IF s = {} THEN 0 ELSE f[Pick(s)] + h[s \ {Pick(s)}]]
           bad == {n \in Nat : ~ \E h : h = Layer(h, n)}
<1>1. ASSUME NEW s \in SUBSET S PROVE IsFiniteSet(s) /\ Cardinality(s) \in Nat
  BY FS_Subset, FS_CardinalityType
<1>2. ASSUME NEW s \in SUBSET S, s # {}
      PROVE  /\ s \ {Pick(s)} \in SUBSET S
             /\ Cardinality(s \ {Pick(s)}) = Cardinality(s) - 1
  BY <1>1, <1>2, PickFacts, FS_RemoveElement
<1>3. bad = {}
  <2> SUFFICES ASSUME bad # {} PROVE FALSE
    OBVIOUS
  <2>1. PICK n \in bad : \A m \in bad : n <= m
    BY LeastNat
  <2>2. CASE n = 0
    <3>1. \A s \in Parts(0) : s = {}
      BY <1>1, FS_EmptySet
    <3> DEFINE h == [s \in Parts(0) |-> 0]
    <3>2. h = Layer(h, 0)
      BY <3>1
    <3> QED BY <2>1, <2>2, <3>2
  <2>3. CASE n # 0
    <3>1. n - 1 \in Nat /\ n - 1 \notin bad
      <4>1. n \in Nat
        BY <2>1
      <4> HIDE DEF bad
      <4> QED BY <2>1, <2>3, <4>1
    <3>2. PICK h : h = Layer(h, n - 1)
      BY <3>1
    <3> DEFINE k == Layer(h, n)
    <3>3. \A s \in Parts(n - 1) : s \in Parts(n) /\ k[s] = h[s]
      <4> TAKE s \in Parts(n - 1)
      <4>1. s \in Parts(n)
        BY <1>1, <2>1
      <4>2. h[s] = IF s = {} THEN 0 ELSE f[Pick(s)] + h[s \ {Pick(s)}]
        BY ONLY <3>2
      <4> QED BY <4>1, <4>2
    <3>4. \A s \in Parts(n) : s # {} => s \ {Pick(s)} \in Parts(n - 1)
      BY <1>1, <1>2, <2>1
    <3>5. k = Layer(k, n)
      BY <3>3, <3>4
    <3> QED BY <2>1, <3>5
  <2> QED BY <2>2, <2>3
<1>4. Cardinality(S) \in Nat /\ Cardinality(S) \notin bad
  BY <1>1, <1>3
<1>5. PICK h : h = Layer(h, Cardinality(S))
  BY <1>4
<1>6. Parts(Cardinality(S)) = SUBSET S
  BY FS_Subset
<1>7. IsSum(h, f, S)
  BY <1>5, <1>6 DEF IsSum
<1> QED BY <1>7

(* Two such functions agree where what they sum does. *)
LEMMA SumsAgree ==
  ASSUME NEW S, NEW T, NEW C, IsFiniteSet(C), C \subseteq S, C \subseteq T,
         NEW f, NEW h, \A x \in C : f[x] = h[x],
         NEW g, NEW k, IsSum(g, f, S), IsSum(k, h, T)
  PROVE  \A s \in SUBSET C : g[s] = k[s]
<1> DEFINE bad == {s \in SUBSET C : g[s] # k[s]}
<1> SUFFICES ASSUME bad # {} PROVE FALSE
  OBVIOUS
<1>1. PICK s \in bad : \A t \in bad : t \subseteq s => t = s
  <2>1. bad \in SUBSET SUBSET C
    OBVIOUS
  <2> HIDE DEF bad
  <2> QED BY <2>1, MinimalPart
<1>2. s \in SUBSET S /\ s \in SUBSET T /\ s \in SUBSET C
  OBVIOUS
<1>3. /\ g[s] = IF s = {} THEN 0 ELSE f[Pick(s)] + g[s \ {Pick(s)}]
      /\ k[s] = IF s = {} THEN 0 ELSE h[Pick(s)] + k[s \ {Pick(s)}]
  BY <1>2 DEF IsSum
<1>4. s # {}
  BY <1>3
<1>5. Pick(s) \in s /\ s \ {Pick(s)} # s /\ s \ {Pick(s)} \subseteq s
  BY <1>4, PickFacts
<1>6. s \ {Pick(s)} \notin bad
  BY <1>1, <1>5
<1>7. g[s \ {Pick(s)}] = k[s \ {Pick(s)}]
  BY <1>2, <1>6
<1> QED BY <1>2, <1>3, <1>4, <1>5, <1>7

(* The sum is such a function's value at the whole set. *)
LEMMA SumIs ==
  ASSUME NEW f, NEW S, IsFiniteSet(S)
  PROVE  \E g : IsSum(g, f, S) /\ SumOver(f, S) = g[S]
<1> DEFINE g == CHOOSE g : IsSum(g, f, S)
<1>1. IsSum(g, f, S)
  BY SumExists
<1>2. SumOver(f, S) = g[S]
  BY SumOverDef
<1> QED BY <1>1, <1>2

(* Its values are numbers, and any element may be taken first. *)
LEMMA SumFromAny ==
  ASSUME NEW f, NEW S, IsFiniteSet(S), \A x \in S : f[x] \in Int,
         NEW g, IsSum(g, f, S)
  PROVE  /\ g[{}] = 0
         /\ \A s \in SUBSET S : g[s] \in Int
         /\ \A s \in SUBSET S : \A x \in s : g[s] = f[x] + g[s \ {x}]
<1>1. \A s \in SUBSET S : g[s] = IF s = {} THEN 0 ELSE f[Pick(s)] + g[s \ {Pick(s)}]
  BY DEF IsSum
<1>2. \A s \in SUBSET S : s # {} =>
        /\ Pick(s) \in s /\ s \ {Pick(s)} # s
        /\ s \ {Pick(s)} \subseteq s /\ s \ {Pick(s)} \in SUBSET S
  BY PickFacts
<1>3. g[{}] = 0
  BY <1>1
<1>4. \A s \in SUBSET S : g[s] \in Int
  <2> DEFINE bad == {s \in SUBSET S : g[s] \notin Int}
  <2> SUFFICES ASSUME bad # {} PROVE FALSE
    OBVIOUS
  <2>1. PICK s \in bad : \A t \in bad : t \subseteq s => t = s
    <3>1. bad \in SUBSET SUBSET S
      OBVIOUS
    <3> HIDE DEF bad
    <3> QED BY <3>1, MinimalPart
  <2>2. s # {} /\ s \in SUBSET S
    BY <1>3
  <2>3. g[s \ {Pick(s)}] \in Int
    BY <1>2, <2>1, <2>2
  <2> QED BY <1>1, <1>2, <2>2, <2>3
<1>5. \A s \in SUBSET S : \A x \in s : g[s] = f[x] + g[s \ {x}]
  <2> DEFINE bad == {s \in SUBSET S : ~ \A x \in s : g[s] = f[x] + g[s \ {x}]}
  <2> SUFFICES ASSUME bad # {} PROVE FALSE
    OBVIOUS
  <2>1. PICK s \in bad : \A t \in bad : t \subseteq s => t = s
    <3>1. bad \in SUBSET SUBSET S
      OBVIOUS
    <3> HIDE DEF bad
    <3> QED BY <3>1, MinimalPart
  <2>2. PICK x \in s : g[s] # f[x] + g[s \ {x}]
    OBVIOUS
  <2> DEFINE y == Pick(s)
  <2>3. s \in SUBSET S /\ s # {} /\ y \in s /\ g[s] = f[y] + g[s \ {y}] /\ x # y
    BY <1>1, <1>2, <2>2
  <2> HIDE DEF y
  <2>4. s \ {x} \notin bad /\ s \ {y} \notin bad
    BY <2>1, <2>2, <2>3
  <2>5. /\ g[s \ {x}] = f[y] + g[(s \ {x}) \ {y}]
        /\ g[s \ {y}] = f[x] + g[(s \ {y}) \ {x}]
    BY <2>2, <2>3, <2>4
  <2>6. (s \ {x}) \ {y} = (s \ {y}) \ {x}
    OBVIOUS
  <2> DEFINE rest == g[(s \ {y}) \ {x}]
  <2>7. f[x] \in Int /\ f[y] \in Int /\ rest \in Int
    BY <1>4, <2>2, <2>3
  <2>8. g[s \ {x}] = f[y] + rest /\ g[s \ {y}] = f[x] + rest
    BY <2>5, <2>6
  <2> HIDE DEF rest
  <2>9. g[s] = f[x] + g[s \ {x}]
    BY <2>3, <2>7, <2>8
  <2> QED BY <2>2, <2>9
<1> QED BY <1>3, <1>4, <1>5

(* A sum of numbers is one, and any element can be taken out of it. *)
LEMMA SumRemove ==
  ASSUME NEW f, NEW S, IsFiniteSet(S), \A x \in S : f[x] \in Int
  PROVE  /\ SumOver(f, S) \in Int
         /\ S = {} => SumOver(f, S) = 0
         /\ \A x \in S : SumOver(f, S) = f[x] + SumOver(f, S \ {x})
<1>1. PICK g : IsSum(g, f, S) /\ SumOver(f, S) = g[S]
  BY SumIs
<1>2. /\ g[{}] = 0
      /\ \A s \in SUBSET S : g[s] \in Int
      /\ \A s \in SUBSET S : \A x \in s : g[s] = f[x] + g[s \ {x}]
  BY <1>1, SumFromAny
<1>3. ASSUME NEW x \in S PROVE SumOver(f, S \ {x}) = g[S \ {x}]
  <2>1. IsFiniteSet(S \ {x})
    BY FS_RemoveElement
  <2>2. PICK k : IsSum(k, f, S \ {x}) /\ SumOver(f, S \ {x}) = k[S \ {x}]
    BY <2>1, SumIs
  <2> DEFINE C == S \ {x}
  <2>3. C \subseteq S /\ C \subseteq C
    OBVIOUS
  <2>4. \A s \in SUBSET C : k[s] = g[s]
    <3> HIDE DEF C
    <3>1. IsFiniteSet(C) /\ IsSum(k, f, C)
      BY <2>1, <2>2 DEF C
    <3> QED BY <1>1, <2>3, <3>1, SumsAgree
  <2> QED BY <2>2, <2>4
<1> QED BY <1>1, <1>2, <1>3

(* Sums of the same numbers are the same. *)
LEMMA SumAgree ==
  ASSUME NEW f, NEW h, NEW S, IsFiniteSet(S), \A x \in S : f[x] = h[x]
  PROVE  SumOver(f, S) = SumOver(h, S)
<1>1. PICK g : IsSum(g, f, S) /\ SumOver(f, S) = g[S]
  BY SumIs
<1>2. PICK k : IsSum(k, h, S) /\ SumOver(h, S) = k[S]
  BY SumIs
<1>3. \A s \in SUBSET S : g[s] = k[s]
  BY <1>1, <1>2, SumsAgree
<1> QED BY <1>1, <1>2, <1>3

(* One number changes. *)
LEMMA SumChange ==
  ASSUME NEW f, NEW h, NEW S, IsFiniteSet(S), NEW x \in S,
         \A y \in S : f[y] \in Int, h[x] \in Int,
         \A y \in S \ {x} : h[y] = f[y]
  PROVE  SumOver(h, S) = SumOver(f, S) + h[x] - f[x]
<1>1. IsFiniteSet(S \ {x})
  BY FS_RemoveElement
<1>2. SumOver(h, S \ {x}) = SumOver(f, S \ {x}) /\ SumOver(f, S \ {x}) \in Int
  BY <1>1, SumAgree, SumRemove
<1>3. /\ SumOver(f, S) = f[x] + SumOver(f, S \ {x})
      /\ SumOver(h, S) = h[x] + SumOver(h, S \ {x})
  BY SumRemove
<1> QED BY <1>2, <1>3

(* Sums are monotone, and equal only if what they sum is. *)
LEMMA SumMonotone ==
  ASSUME NEW f, NEW h, NEW S, IsFiniteSet(S),
         \A x \in S : f[x] \in Int /\ h[x] \in Int /\ f[x] <= h[x]
  PROVE  /\ SumOver(f, S) <= SumOver(h, S)
         /\ SumOver(f, S) = SumOver(h, S) => \A x \in S : f[x] = h[x]
<1> DEFINE Ordered(s) == /\ SumOver(f, s) <= SumOver(h, s)
                         /\ SumOver(f, s) = SumOver(h, s) => \A x \in s : f[x] = h[x]
           bad == {s \in SUBSET S : ~Ordered(s)}
<1> SUFFICES ASSUME bad # {} PROVE FALSE
  OBVIOUS
<1>1. PICK s \in bad : \A t \in bad : t \subseteq s => t = s
  <2>1. bad \in SUBSET SUBSET S
    OBVIOUS
  <2> HIDE DEF bad
  <2> QED BY <2>1, MinimalPart
<1>2. s \in SUBSET S /\ IsFiniteSet(s) /\ ~Ordered(s)
  BY FS_Subset
<1>3. /\ \A x \in s : f[x] \in Int /\ h[x] \in Int /\ f[x] <= h[x]
      /\ \A x \in s : SumOver(f, s) = f[x] + SumOver(f, s \ {x})
      /\ \A x \in s : SumOver(h, s) = h[x] + SumOver(h, s \ {x})
      /\ s = {} => SumOver(f, s) = 0 /\ SumOver(h, s) = 0
  BY <1>2, SumRemove
<1>4. PICK x : x \in s
  BY <1>2, <1>3
<1>5. /\ s \ {x} \in SUBSET S /\ IsFiniteSet(s \ {x}) /\ s \ {x} # s
      /\ Ordered(s \ {x})
  <2>1. s \ {x} \in SUBSET S /\ s \ {x} # s /\ s \ {x} \notin bad
    BY <1>1, <1>2, <1>4
  <2> QED BY <1>2, <2>1, FS_RemoveElement
<1>6. SumOver(f, s \ {x}) \in Int /\ SumOver(h, s \ {x}) \in Int
  BY <1>3, <1>5, SumRemove
<1>7. /\ f[x] \in Int /\ h[x] \in Int /\ f[x] <= h[x]
      /\ SumOver(f, s) = f[x] + SumOver(f, s \ {x})
      /\ SumOver(h, s) = h[x] + SumOver(h, s \ {x})
  BY <1>3, <1>4
<1>8. SumOver(f, s) <= SumOver(h, s)
  BY <1>5, <1>6, <1>7
<1>9. ASSUME SumOver(f, s) = SumOver(h, s), NEW y \in s PROVE f[y] = h[y]
  <2>1. f[x] = h[x] /\ SumOver(f, s \ {x}) = SumOver(h, s \ {x})
    BY <1>5, <1>6, <1>7, <1>9
  <2> QED BY <1>5, <1>9, <2>1
<1> QED BY <1>2, <1>8, <1>9

(* The sum of sums. *)
LEMMA SumPlus ==
  ASSUME NEW f, NEW h, NEW k, NEW S, IsFiniteSet(S),
         \A x \in S : f[x] \in Int /\ h[x] \in Int /\ k[x] = f[x] + h[x]
  PROVE  SumOver(k, S) = SumOver(f, S) + SumOver(h, S)
<1> DEFINE bad == {s \in SUBSET S : SumOver(k, s) # SumOver(f, s) + SumOver(h, s)}
<1> SUFFICES ASSUME bad # {} PROVE FALSE
  OBVIOUS
<1>1. PICK s \in bad : \A t \in bad : t \subseteq s => t = s
  <2>1. bad \in SUBSET SUBSET S
    OBVIOUS
  <2> HIDE DEF bad
  <2> QED BY <2>1, MinimalPart
<1>2. s \in SUBSET S /\ IsFiniteSet(s) /\ SumOver(k, s) # SumOver(f, s) + SumOver(h, s)
  BY FS_Subset
<1>3. /\ \A x \in s : f[x] \in Int /\ h[x] \in Int /\ k[x] = f[x] + h[x]
      /\ \A x \in s : SumOver(f, s) = f[x] + SumOver(f, s \ {x})
      /\ \A x \in s : SumOver(h, s) = h[x] + SumOver(h, s \ {x})
      /\ \A x \in s : SumOver(k, s) = k[x] + SumOver(k, s \ {x})
      /\ s = {} => SumOver(f, s) = 0 /\ SumOver(h, s) = 0 /\ SumOver(k, s) = 0
  <2>1. \A x \in s : f[x] \in Int /\ h[x] \in Int /\ k[x] \in Int /\ k[x] = f[x] + h[x]
    BY <1>2
  <2> QED BY <1>2, <2>1, SumRemove
<1>4. PICK x : x \in s
  BY <1>2, <1>3
<1>5. /\ IsFiniteSet(s \ {x})
      /\ SumOver(k, s \ {x}) = SumOver(f, s \ {x}) + SumOver(h, s \ {x})
  <2>1. s \ {x} \in SUBSET S /\ s \ {x} # s /\ s \ {x} \notin bad
    BY <1>1, <1>2, <1>4
  <2> QED BY <1>2, <2>1, FS_RemoveElement
<1>6. SumOver(f, s \ {x}) \in Int /\ SumOver(h, s \ {x}) \in Int
  BY <1>3, <1>5, SumRemove
<1> QED BY <1>2, <1>3, <1>4, <1>5, <1>6
(* Zeros add up to zero. *)
LEMMA SumOfZeros ==
  ASSUME NEW f, NEW S, IsFiniteSet(S), \A x \in S : f[x] = 0
  PROVE  SumOver(f, S) = 0
<1> DEFINE sum == SumOver(f, S)
<1>1. sum = sum + sum
  BY SumPlus
<1>2. sum \in Int
  BY SumRemove
<1> HIDE DEF sum
<1>3. sum = 0
  BY <1>1, <1>2
<1> QED BY <1>3 DEF sum

------------------------------------------------------------------------------
(* The consumption journal: facts about the state operators *)

(* Sums of executed counters are executed counters. *)
LEMMA PlusType ==
  ASSUME NEW a \in Counters, NEW b \in Counters
  PROVE  Plus(a, b) \in Counters
  BY DEF Counters, Plus

(* So are the differences the journal computes. *)
LEMMA MinusType ==
  ASSUME NEW a \in Counters, NEW b \in Counters, AtLeast(a, b)
  PROVE  Minus(a, b) \in Counters
  BY DEF Counters, Minus, AtLeast

(* The state of an empty journal is a state. *)
LEMMA InitialStateType == InitialState \in State /\ Zero \in Counters
  BY DEF InitialState, State, NoRecovery, Recovery, Zero, Counters

(* Recording the clock of an event changes nothing else. *)
LEMMA AtType ==
  ASSUME NEW s \in State, NEW t \in Nat
  PROVE  At(s, t) \in State
  BY DEF At, State

(* A reservation yields a state. *)
LEMMA ReserveType ==
  ASSUME NEW s \in State, NEW stage \in Stages
  PROVE  AfterReserve(s, stage) \in State
<1>1. Charged(s.reserved_by_stage, stage) \in [Stages -> Nat]
  BY DEF State, Charged
<1>2. s.rollouts_reserved + 1 \in Nat
  BY DEF State
<1> DEFINE by_stage == Charged(s.reserved_by_stage, stage)
<1> HIDE DEF by_stage
<1>3. by_stage \in [Stages -> Nat]
  BY <1>1 DEF by_stage
<1>4. AfterReserve(s, stage) =
        [s EXCEPT !.pending = s.rollouts_reserved + 1,
                  !.rollouts_reserved = s.rollouts_reserved + 1,
                  !.reserved_by_stage = by_stage]
  BY DEF AfterReserve, by_stage
<1> QED
  BY <1>2, <1>3, <1>4 DEF State

(* So does the end of a rollout. *)
LEMMA FinishType ==
  ASSUME NEW s \in State, NEW actual \in Counters, NEW failed \in BOOLEAN
  PROVE  AfterFinish(s, actual, failed) \in State
  BY DEF AfterFinish, State

(* Replaying any prefix of a typed chain yields a state. *)
LEMMA ReplayType ==
  ASSUME TypeOK, NEW j \in Journals, NEW n \in 0..Len(chain[j])
  PROVE  Replay(j, n) \in State
  BY InitialStateType DEF TypeOK, Replay

(* In particular the durable state is one. *)
LEMMA DurableType ==
  ASSUME TypeOK, NEW j \in Journals
  PROVE  Durable(j) \in State /\ Len(chain[j]) \in Nat
  BY ReplayType DEF TypeOK, Durable

(* A fork begins in a state. *)
LEMMA RecoveryType ==
  ASSUME TypeOK, NEW j \in Journals, NEW c \in Nat, RecoveryAccepted(j, c)
  PROVE  AfterRecovery(j, c) \in State
<1> DEFINE checkpoint == Replay(j, c)
           failed == Durable(j)
<1>1. checkpoint \in State /\ failed \in State
  <2>1. c \in 0..Len(chain[j]) /\ Len(chain[j]) \in Nat
    BY DurableType DEF RecoveryAccepted
  <2> QED BY <2>1, ReplayType, DurableType
<1>2. AtLeast(failed.live, checkpoint.live)
  BY DEF RecoveryAccepted
<1>3. Plus(failed.retired, Minus(failed.live, checkpoint.live)) \in Counters
  BY <1>1, <1>2, PlusType, MinusType DEF State
<1>4. [source |-> j, checkpoint |-> c, depth |-> failed.recovery.depth + 1] \in Recovery
  BY <1>1 DEF State, Recovery
<1> QED
  BY <1>1, <1>3, <1>4 DEF AfterRecovery, State

------------------------------------------------------------------------------
(* Type correctness *)

(* The counters a rollout reports are counters. *)
LEMMA ReportedType ==
  ASSUME NEW s \in State, NEW work \in Work
  PROVE  Plus(s.live, work) \in Counters
<1>1. work \in Counters
  BY BudgetAssumption DEF Work, Counters
<1> QED BY <1>1, PlusType DEF State

(* A finish that reports the live counters plus some work yields a state. *)
LEMMA FinishedType ==
  ASSUME NEW s \in State, NEW work \in Work, NEW failed \in BOOLEAN, NEW t \in Nat
  PROVE  At(AfterFinish(s, Plus(s.live, work), failed), t) \in State
<1>1. Plus(s.live, work) \in Counters
  BY ReportedType
<1>2. AfterFinish(s, Plus(s.live, work), failed) \in State
  BY <1>1, FinishType
<1> QED BY <1>2, AtType

(* Every event a writer publishes carries a state, and its outcomes keep    *)
(* the types.                                                               *)
LEMMA AppendEventType ==
  ASSUME TypeOK, NEW j \in Journals, NEW p \in State, AppendEvent(j, p)
  PROVE  TypeOK'
<1>1. chain[j] \in Seq(State) /\ Append(chain[j], p) \in Seq(State)
  BY DEF TypeOK
<1>2. chain' = [chain EXCEPT ![j] = Append(chain[j], p)] \/ chain' = chain
  BY DEF AppendEvent
<1>3. chain' \in [Journals -> Seq(State)]
  BY <1>1, <1>2 DEF TypeOK
<1>4. writer[j] \in Writer /\ writer \in [Journals -> Writer]
  BY DEF TypeOK
<1>5. [mode |-> "open", seq |-> writer[j].seq + 1, state |-> p] \in Writer
  BY <1>4 DEF Writer
<1>6. [writer[j] EXCEPT !.mode = "faulted"] \in Writer
  BY <1>4 DEF Writer
<1>7. \E w \in Writer : writer' = [writer EXCEPT ![j] = w]
  BY <1>5, <1>6 DEF AppendEvent
<1>8. writer' \in [Journals -> Writer]
  BY <1>4, <1>7
<1> QED BY <1>3, <1>8 DEF TypeOK, AppendEvent

(* The journal's variables always hold what the code keeps in them. *)
THEOREM TypeCorrect == Spec => []TypeOK
<1>1. Init => TypeOK
  BY InitialStateType DEF Init, TypeOK, Closed, Writer
<1>2. TypeOK /\ [Next]_vars => TypeOK'
  <2> SUFFICES ASSUME TypeOK, [Next]_vars
               PROVE  TypeOK'
    OBVIOUS
  <2> USE BudgetAssumption
  <2>0. \A j \in Journals : writer[j].state \in State /\ writer[j].seq \in Nat
    BY DEF TypeOK, Writer
  <2>1. ASSUME NEW j \in Journals, CreateDirectory(j)
        PROVE  TypeOK'
    BY <2>1 DEF TypeOK, CreateDirectory, Writer
  <2>2. ASSUME NEW j \in Journals, SealIdentity(j)
        PROVE  TypeOK'
    BY <2>2, InitialStateType DEF TypeOK, SealIdentity, Writer, Closed
  <2>3. ASSUME NEW j \in Journals, Open(j)
        PROVE  TypeOK'
    BY <2>3, DurableType DEF TypeOK, Open, Writer
  <2>4. ASSUME NEW j \in Journals, Close(j)
        PROVE  TypeOK'
    BY <2>4, InitialStateType DEF TypeOK, Close, Writer, Closed
  <2>5. ASSUME NEW j \in Journals, NEW stage \in Stages, NEW t \in 0..MaxElapsed,
               Reserve(j, stage, t)
        PROVE  TypeOK'
    <3>1. At(AfterReserve(writer[j].state, stage), t) \in State
      BY <2>0, ReserveType, AtType
    <3> QED BY <2>5, <3>1, AppendEventType DEF Reserve
  <2>6. ASSUME NEW j \in Journals, NEW work \in Work, NEW failed \in BOOLEAN,
               NEW t \in 0..MaxElapsed,
               Finish(j, Plus(writer[j].state.live, work), failed, t)
        PROVE  TypeOK'
    <3>1. At(AfterFinish(writer[j].state, Plus(writer[j].state.live, work), failed), t)
            \in State
      BY <2>0, FinishedType
    <3> QED BY <2>6, <3>1, AppendEventType DEF Finish
  <2>7. ASSUME NEW j \in Journals, NEW t \in 0..MaxElapsed, RecordBoundary(j, t)
        PROVE  TypeOK'
    <3>1. At(writer[j].state, t) \in State
      BY <2>0, AtType
    <3> QED BY <2>7, <3>1, AppendEventType DEF RecordBoundary
  <2>8. ASSUME NEW k \in Journals, NEW j \in Journals, NEW c \in 1..Len(chain[j]),
               ImportFailedConsumption(k, j, c)
        PROVE  TypeOK'
    <3>1. AfterRecovery(j, c) \in State
      BY <2>8, RecoveryType, DurableType DEF ImportFailedConsumption
    <3> QED BY <2>8, <3>1, AppendEventType DEF ImportFailedConsumption
  <2>9. CASE UNCHANGED vars
    BY <2>9 DEF vars, TypeOK
  <2> QED
    BY <2>1, <2>2, <2>3, <2>4, <2>5, <2>6, <2>7, <2>8, <2>9 DEF Next
<1> QED BY <1>1, <1>2, PTL DEF Spec

------------------------------------------------------------------------------
(* The writer and the durable chain *)

(* The inductive form of BoundaryIsDurable: a directory that was never      *)
(* sealed holds no events, and an open writer has replayed all of them.     *)
WriterInv ==
  \A j \in Journals :
    /\ directory[j] # "sealed" =>
         chain[j] = <<>> /\ writer[j].mode \in {"closed", "creating"}
    /\ writer[j].mode = "creating" => directory[j] = "unsealed"
    /\ writer[j].mode = "open" => /\ writer[j].seq = Len(chain[j])
                                  /\ writer[j].state = Durable(j)

(* The state p that an event may publish behind the durable state d. *)
Event(d, p) ==
  \/ \E stage \in Stages, t \in 0..MaxElapsed :
       t >= d.active_elapsed_s /\ ReserveAccepted(d) /\ p = At(AfterReserve(d, stage), t)
  \/ \E actual \in Counters, failed \in BOOLEAN, t \in 0..MaxElapsed :
       /\ t >= d.active_elapsed_s
       /\ FinishAccepted(d, actual, failed)
       /\ p = At(AfterFinish(d, actual, failed), t)
  \/ \E t \in 0..MaxElapsed : t >= d.active_elapsed_s /\ Clean(d) /\ p = At(d, t)

(* The state that may open the empty journal of a fork. *)
ForkEvent(k, p) ==
  /\ chain[k] = <<>>
  /\ \E j \in Journals : \E c \in 1..Len(chain[j]) :
       RecoveryAccepted(j, c) /\ p = AfterRecovery(j, c)

Published(j, p) == chain' = [chain EXCEPT ![j] = Append(chain[j], p)]

(* Events and forks produce states. *)
LEMMA EventType ==
  ASSUME TypeOK, NEW j \in Journals, NEW p, Event(Durable(j), p) \/ ForkEvent(j, p)
  PROVE  p \in State
<1>1. Durable(j) \in State
  BY DurableType
<1>2. ASSUME NEW stage \in Stages, NEW t \in 0..MaxElapsed,
             p = At(AfterReserve(Durable(j), stage), t)
      PROVE  p \in State
  BY <1>1, <1>2, ReserveType, AtType, BudgetAssumption
<1>3. ASSUME NEW actual \in Counters, NEW failed \in BOOLEAN, NEW t \in 0..MaxElapsed,
             p = At(AfterFinish(Durable(j), actual, failed), t)
      PROVE  p \in State
  BY <1>1, <1>3, FinishType, AtType, BudgetAssumption
<1>4. ASSUME NEW t \in 0..MaxElapsed, p = At(Durable(j), t)
      PROVE  p \in State
  BY <1>1, <1>4, AtType, BudgetAssumption
<1>5. ASSUME NEW i \in Journals, NEW c \in 1..Len(chain[i]),
             RecoveryAccepted(i, c), p = AfterRecovery(i, c)
      PROVE  p \in State
  BY <1>5, RecoveryType, DurableType
<1> QED BY <1>2, <1>3, <1>4, <1>5 DEF Event, ForkEvent

(* What publishing one more event does to every journal's chain. *)
LEMMA PublishedChain ==
  ASSUME TypeOK, NEW j \in Journals, NEW p \in State, Published(j, p)
  PROVE  /\ Len(chain[j])' = Len(chain[j]) + 1
         /\ Durable(j)' = p
         /\ \A n \in 0..Len(chain[j]) : Replay(j, n)' = Replay(j, n)
         /\ \A i \in Journals \ {j} : chain'[i] = chain[i]
<1>1. chain[j] \in Seq(State) /\ chain'[j] = Append(chain[j], p)
  BY DEF TypeOK, Published
<1> QED BY <1>1 DEF TypeOK, Published, Durable, Replay

(* A step of the journal publishes at most one event, and only one that its *)
(* writer accepted against the durable state.                               *)
LEMMA StepPublishes ==
  ASSUME TypeOK, WriterInv, Next
  PROVE  \/ UNCHANGED chain
         \/ \E j \in Journals, p \in State :
              /\ Published(j, p)
              /\ Event(Durable(j), p) \/ ForkEvent(j, p)
<1>1. ASSUME NEW j \in Journals, NEW p, AppendEvent(j, p),
             Event(Durable(j), p) \/ ForkEvent(j, p)
      PROVE  \/ UNCHANGED chain
             \/ \E i \in Journals, q \in State :
                  /\ Published(i, q)
                  /\ Event(Durable(i), q) \/ ForkEvent(i, q)
  BY <1>1, EventType DEF AppendEvent, Published
<1>2. ASSUME NEW j \in Journals, writer[j].mode = "open"
      PROVE  writer[j].state = Durable(j) /\ writer[j].seq = Len(chain[j])
  BY <1>2 DEF WriterInv
<1>3. ASSUME NEW j \in Journals, NEW stage \in Stages, NEW t \in 0..MaxElapsed,
             Reserve(j, stage, t)
      PROVE  \E p : AppendEvent(j, p) /\ Event(Durable(j), p)
  <2>1. writer[j].state = Durable(j)
    BY <1>2, <1>3 DEF Reserve, AppendEvent
  <2> DEFINE p == At(AfterReserve(Durable(j), stage), t)
  <2>2. AppendEvent(j, p)
    BY <1>3, <2>1 DEF Reserve
  <2>3. Event(Durable(j), p)
    BY <1>3, <2>1 DEF Reserve, Event
  <2> QED BY <2>2, <2>3
<1>4. ASSUME NEW j \in Journals, NEW work \in Work, NEW failed \in BOOLEAN,
             NEW t \in 0..MaxElapsed,
             Finish(j, Plus(writer[j].state.live, work), failed, t)
      PROVE  \E p : AppendEvent(j, p) /\ Event(Durable(j), p)
  <2>1. Plus(writer[j].state.live, work) \in Counters
    BY ReportedType DEF TypeOK, Writer
  <2>2. writer[j].state = Durable(j)
    BY <1>2, <1>4 DEF Finish, AppendEvent
  <2> DEFINE actual == Plus(Durable(j).live, work)
             p == At(AfterFinish(Durable(j), actual, failed), t)
  <2>3. AppendEvent(j, p)
    BY <1>4, <2>2 DEF Finish
  <2>4. t >= Durable(j).active_elapsed_s /\ FinishAccepted(Durable(j), actual, failed)
    BY <1>4, <2>2 DEF Finish
  <2>5. actual \in Counters
    BY <2>1, <2>2
  <2> HIDE DEF actual
  <2>6. Event(Durable(j), p)
    BY <2>4, <2>5 DEF Event
  <2> QED BY <2>3, <2>6
<1>5. ASSUME NEW j \in Journals, NEW t \in 0..MaxElapsed, RecordBoundary(j, t)
      PROVE  \E p : AppendEvent(j, p) /\ Event(Durable(j), p)
  BY <1>2, <1>5 DEF RecordBoundary, AppendEvent, Event
<1>6. ASSUME NEW k \in Journals, NEW j \in Journals, NEW c \in 1..Len(chain[j]),
             ImportFailedConsumption(k, j, c)
      PROVE  \E p : AppendEvent(k, p) /\ ForkEvent(k, p)
  <2>1. chain[k] = <<>>
    BY <1>2, <1>6 DEF ImportFailedConsumption, TypeOK
  <2> QED BY <1>6, <2>1 DEF ImportFailedConsumption, ForkEvent
<1> QED
  BY <1>1, <1>3, <1>4, <1>5, <1>6
     DEF Next, CreateDirectory, SealIdentity, Open, Close

(* A step that appends keeps WriterInv: the writer adopts the event it      *)
(* published or becomes faulted.                                            *)
LEMMA AppendEventWriter ==
  ASSUME TypeOK, WriterInv, NEW j \in Journals, NEW p \in State, AppendEvent(j, p)
  PROVE  WriterInv'
<1>0. directory[j] = "sealed" /\ directory' = directory
  BY DEF WriterInv, AppendEvent
<1>1. CASE chain' = chain
  <2>1. writer' = [writer EXCEPT ![j].mode = "faulted"] \/ chain[j] = Append(chain[j], p)
    BY <1>1 DEF AppendEvent, TypeOK
  <2>2. chain[j] # Append(chain[j], p)
    BY DEF TypeOK
  <2>3. writer' = [writer EXCEPT ![j].mode = "faulted"]
    BY <2>1, <2>2
  <2>6. \A k \in Journals : Durable(k)' = Durable(k)
    BY <1>1 DEF Durable, Replay
  <2> SUFFICES ASSUME NEW k \in Journals
               PROVE  /\ directory'[k] # "sealed" =>
                           /\ chain'[k] = <<>>
                           /\ writer'[k].mode \in {"closed", "creating"}
                      /\ writer'[k].mode = "creating" => directory'[k] = "unsealed"
                      /\ writer'[k].mode = "open" => /\ writer'[k].seq = Len(chain'[k])
                                                     /\ writer'[k].state = Durable(k)'
    BY DEF WriterInv
  <2>7. CASE k = j
    <3>1. writer'[j].mode = "faulted" /\ directory'[j] = "sealed"
      BY <1>0, <2>3 DEF TypeOK, Writer
    <3> QED BY <2>7, <3>1
  <2>8. CASE k # j
    <3>1. writer'[k] = writer[k]
      BY <2>3, <2>8 DEF TypeOK, Writer
    <3>2. Durable(k)' = Durable(k)
      BY <2>6
    <3> QED BY <1>0, <1>1, <3>1, <3>2 DEF WriterInv
  <2> QED BY <2>7, <2>8
<1>2. CASE Published(j, p)
  <2>1. /\ Len(chain[j])' = Len(chain[j]) + 1
        /\ Durable(j)' = p
        /\ \A i \in Journals \ {j} : chain'[i] = chain[i]
    BY <1>2, PublishedChain
  <2>2. \A i \in Journals \ {j} : Durable(i)' = Durable(i)
    BY <2>1 DEF Durable, Replay
  <2>3. \A i \in Journals \ {j} : writer'[i] = writer[i]
    BY DEF AppendEvent, TypeOK
  <2>4. writer'[j].mode = "open" => /\ writer'[j].seq = Len(chain[j])'
                                    /\ writer'[j].state = Durable(j)'
    <3>1. CASE writer' = [writer EXCEPT ![j] = [mode |-> "open", seq |-> @.seq + 1,
                                                state |-> p]]
      BY <1>2, <2>1, <3>1 DEF AppendEvent, WriterInv, TypeOK, Writer
    <3>2. CASE writer' = [writer EXCEPT ![j].mode = "faulted"]
      BY <3>2 DEF TypeOK, Writer
    <3> QED BY <3>1, <3>2 DEF AppendEvent
  <2>5. writer'[j].mode \in {"open", "faulted"}
    BY DEF AppendEvent, TypeOK, Writer
  <2> QED BY <1>0, <2>1, <2>2, <2>3, <2>4, <2>5 DEF WriterInv
<1> QED BY <1>1, <1>2 DEF AppendEvent, Published

(* Every step of the journal keeps it. *)
LEMMA WriterInductive == TypeOK /\ WriterInv /\ [Next]_vars => WriterInv'
<1> SUFFICES ASSUME TypeOK, WriterInv, [Next]_vars
             PROVE  WriterInv'
  OBVIOUS
<1> USE BudgetAssumption
<1>0. \A j \in Journals : writer[j].state \in State /\ writer[j].seq \in Nat
  BY DEF TypeOK, Writer
<1>1. ASSUME NEW j \in Journals, CreateDirectory(j) PROVE WriterInv'
  BY <1>1 DEF WriterInv, CreateDirectory, TypeOK, Durable, Replay, Writer
<1>2. ASSUME NEW j \in Journals, SealIdentity(j) PROVE WriterInv'
  BY <1>2 DEF WriterInv, SealIdentity, TypeOK, Durable, Replay, Writer, Closed
<1>3. ASSUME NEW j \in Journals, Open(j) PROVE WriterInv'
  BY <1>3 DEF WriterInv, Open, TypeOK, Durable, Replay, Writer
<1>4. ASSUME NEW j \in Journals, Close(j) PROVE WriterInv'
  BY <1>4 DEF WriterInv, Close, TypeOK, Durable, Replay, Writer, Closed
<1>5. ASSUME NEW j \in Journals, NEW stage \in Stages, NEW t \in 0..MaxElapsed,
             Reserve(j, stage, t)
      PROVE  WriterInv'
  <2>1. At(AfterReserve(writer[j].state, stage), t) \in State
    BY <1>0, ReserveType, AtType
  <2> QED BY <1>5, <2>1, AppendEventWriter DEF Reserve
<1>6. ASSUME NEW j \in Journals, NEW work \in Work, NEW failed \in BOOLEAN,
             NEW t \in 0..MaxElapsed,
             Finish(j, Plus(writer[j].state.live, work), failed, t)
      PROVE  WriterInv'
  <2>1. At(AfterFinish(writer[j].state, Plus(writer[j].state.live, work), failed), t)
          \in State
    BY <1>0, FinishedType
  <2> QED BY <1>6, <2>1, AppendEventWriter DEF Finish
<1>7. ASSUME NEW j \in Journals, NEW t \in 0..MaxElapsed, RecordBoundary(j, t)
      PROVE  WriterInv'
  <2>1. At(writer[j].state, t) \in State
    BY <1>0, AtType
  <2> QED BY <1>7, <2>1, AppendEventWriter DEF RecordBoundary
<1>8. ASSUME NEW k \in Journals, NEW j \in Journals, NEW c \in 1..Len(chain[j]),
             ImportFailedConsumption(k, j, c)
      PROVE  WriterInv'
  <2>1. AfterRecovery(j, c) \in State
    BY <1>8, RecoveryType, DurableType DEF ImportFailedConsumption
  <2> QED BY <1>8, <2>1, AppendEventWriter DEF ImportFailedConsumption
<1>9. CASE UNCHANGED vars
  BY <1>9 DEF vars, WriterInv, Durable, Replay
<1> QED
  BY <1>1, <1>2, <1>3, <1>4, <1>5, <1>6, <1>7, <1>8, <1>9 DEF Next

LEMMA WriterInitial == Init => WriterInv
  BY DEF Init, WriterInv, Closed

(* Whatever crashes and whatever append fails, a writer that can hand out a *)
(* checkpoint boundary hands out exactly the durable state.                 *)
THEOREM BoundaryCorrect == Spec => []BoundaryIsDurable
<1>1. WriterInv => BoundaryIsDurable
  BY DEF WriterInv, BoundaryIsDurable, CheckpointBoundaryAvailable
<1>2. TypeOK /\ TypeOK' /\ WriterInv /\ [Next]_vars => WriterInv'
  BY WriterInductive
<1> QED BY <1>1, <1>2, WriterInitial, TypeCorrect, PTL DEF Spec

------------------------------------------------------------------------------
(* Executed work fits the reservations made before it *)

(* The reservations whose rollouts are over. *)
Settled(s) == s.rollouts_reserved - (IF s.pending = 0 THEN 0 ELSE 1)

(* The inductive form of WorkFitsReservations: while a rollout is pending,  *)
(* its own reservation is still untouched.                                  *)
Sound(s) ==
  /\ s.failed => s.pending = 0
  /\ s.pending # 0 => s.rollouts_reserved > 0
  /\ s.rollouts_reserved <= Target
  /\ CountersFit(TotalConsumption(s), Settled(s))

ChainInv == \A j \in Journals : \A n \in 0..Len(chain[j]) : Sound(Replay(j, n))

LEMMA SoundInitialState == Sound(InitialState)
<1>1. TotalConsumption(InitialState) = Zero /\ Settled(InitialState) = 0
  BY DEF InitialState, TotalConsumption, Plus, Zero, Settled
<1>2. CountersFit(Zero, 0)
  BY BudgetAssumption DEF CountersFit, AtLeast, Zero
<1> QED BY <1>1, <1>2, BudgetAssumption DEF Sound, InitialState

(* The work of one rollout fits one more reservation. *)
LEMMA OneMoreRollout ==
  ASSUME NEW c \in Counters, NEW d \in Counters, NEW r \in Nat,
         CountersFit(c, r),
         d.returned_transitions <= d.attempted_transitions,
         d.attempted_transitions <= Size,
         d.ppo_updates \in {0, 1},
         d.ppo_updates = 1 => d.returned_transitions = Size,
         d.optimizer_steps <= StepLimit,
         d.ppo_updates = 0 => d.optimizer_steps = 0
  PROVE  CountersFit(Plus(c, d), r + 1)
<1> USE BudgetAssumption
<1> DEFINE s == Plus(c, d)
<1>1. /\ s.attempted_transitions = c.attempted_transitions + d.attempted_transitions
      /\ s.returned_transitions = c.returned_transitions + d.returned_transitions
      /\ s.ppo_updates = c.ppo_updates + d.ppo_updates
      /\ s.optimizer_steps = c.optimizer_steps + d.optimizer_steps
      /\ s \in Counters
  BY PlusType DEF Plus
<1> HIDE DEF s
<1>2. (r + 1) * Size = r * Size + Size
  BY Z3
<1>3. /\ (c.ppo_updates + 0) * Size = c.ppo_updates * Size
      /\ (c.ppo_updates + 1) * Size = c.ppo_updates * Size + Size
      /\ (c.ppo_updates + 0) * StepLimit = c.ppo_updates * StepLimit
      /\ (c.ppo_updates + 1) * StepLimit = c.ppo_updates * StepLimit + StepLimit
  <2>1. c.ppo_updates \in Nat
    BY DEF Counters
  <2> DEFINE u == c.ppo_updates
  <2> HIDE DEF u
  <2>2. u \in Nat
    BY <2>1 DEF u
  <2>3. \A k \in Nat : (u + 0) * k = u * k /\ (u + 1) * k = u * k + k
    BY <2>2, Z3
  <2> QED BY <2>3 DEF u
<1>4. /\ c.ppo_updates * Size \in Nat /\ c.ppo_updates * StepLimit \in Nat
      /\ r * Size \in Nat
  BY DEF Counters
<1>5. AtLeast(s, Zero)
  BY <1>1 DEF AtLeast, Zero, Counters
<1>6. s.attempted_transitions <= (r + 1) * Size
  BY <1>1, <1>2, <1>4 DEF CountersFit, Counters
<1>7. s.ppo_updates * Size <= s.returned_transitions
  BY <1>1, <1>3, <1>4 DEF CountersFit, Counters
<1>8. s.optimizer_steps <= s.ppo_updates * StepLimit
  BY <1>1, <1>3, <1>4 DEF CountersFit, Counters
<1>9. s.ppo_updates <= r + 1 /\ s.returned_transitions <= s.attempted_transitions
  BY <1>1 DEF CountersFit, Counters
<1> QED BY <1>5, <1>6, <1>7, <1>8, <1>9 DEF CountersFit, s

(* Every accepted event keeps a state sound. *)
LEMMA EventSound ==
  ASSUME NEW d \in State, Sound(d), NEW p, Event(d, p)
  PROVE  Sound(p)
<1> USE BudgetAssumption
<1>1. ASSUME NEW stage \in Stages, NEW t \in 0..MaxElapsed,
             ReserveAccepted(d), p = At(AfterReserve(d, stage), t)
      PROVE  Sound(p)
  <2>1. AfterReserve(d, stage) \in State
    BY ReserveType
  <2>2. /\ AfterReserve(d, stage).rollouts_reserved = d.rollouts_reserved + 1
        /\ AfterReserve(d, stage).pending = d.rollouts_reserved + 1
        /\ AfterReserve(d, stage).failed = d.failed
        /\ AfterReserve(d, stage).live = d.live
        /\ AfterReserve(d, stage).retired = d.retired
    BY DEF AfterReserve, State
  <2> DEFINE r == AfterReserve(d, stage)
  <2> HIDE DEF r
  <2>3. /\ p.rollouts_reserved = r.rollouts_reserved
        /\ p.pending = r.pending
        /\ p.failed = r.failed
        /\ p.live = r.live
        /\ p.retired = r.retired
    BY <1>1, <2>1 DEF At, State, r
  <2>4. ~d.failed /\ d.pending = 0 /\ d.rollouts_reserved < Target
    BY <1>1 DEF ReserveAccepted, Clean
  <2>5. d.rollouts_reserved \in Nat /\ Settled(p) = Settled(d)
    BY <2>2, <2>3, <2>4 DEF r, Settled, State
  <2>6. TotalConsumption(p) = TotalConsumption(d)
    BY <2>2, <2>3 DEF r, TotalConsumption
  <2> QED BY <2>2, <2>3, <2>4, <2>5, <2>6 DEF r, Sound
<1>2. ASSUME NEW actual \in Counters, NEW failed \in BOOLEAN, NEW t \in 0..MaxElapsed,
             FinishAccepted(d, actual, failed), p = At(AfterFinish(d, actual, failed), t)
      PROVE  Sound(p)
  <2>1. /\ p.rollouts_reserved = d.rollouts_reserved
        /\ p.pending = 0
        /\ p.live = actual
        /\ p.retired = d.retired
    BY <1>2 DEF At, AfterFinish, State
  <2>2. d.pending # 0 /\ AtLeast(actual, d.live)
    BY <1>2 DEF FinishAccepted
  <2> DEFINE delta == Minus(actual, d.live)
  <2>3. delta \in Counters /\ d.live \in Counters /\ d.retired \in Counters
    BY <2>2, MinusType DEF State
  <2>4. TotalConsumption(p) = Plus(TotalConsumption(d), delta)
    BY <2>1, <2>3 DEF TotalConsumption, Plus, Minus, Counters
  <2>5. Settled(d) \in Nat /\ Settled(p) = Settled(d) + 1
    BY <2>1, <2>2 DEF Settled, Sound, State
  <2>6. TotalConsumption(d) \in Counters
    BY <2>3, PlusType DEF TotalConsumption
  <2>7. CountersFit(TotalConsumption(p), Settled(p))
    <3>1. /\ delta.returned_transitions <= delta.attempted_transitions
          /\ delta.attempted_transitions <= Size
          /\ delta.ppo_updates \in {0, 1}
          /\ delta.ppo_updates = 1 => delta.returned_transitions = Size
          /\ delta.optimizer_steps <= StepLimit
          /\ delta.ppo_updates = 0 => delta.optimizer_steps = 0
      BY <1>2 DEF FinishAccepted
    <3> HIDE DEF delta
    <3> QED BY <2>3, <2>4, <2>5, <2>6, <3>1, OneMoreRollout DEF Sound
  <2> QED BY <2>1, <2>7 DEF Sound
<1>3. ASSUME NEW t \in 0..MaxElapsed, Clean(d), p = At(d, t)
      PROVE  Sound(p)
  <2>1. /\ p.rollouts_reserved = d.rollouts_reserved
        /\ p.pending = d.pending
        /\ p.failed = d.failed
        /\ p.live = d.live
        /\ p.retired = d.retired
    BY <1>3 DEF At, State
  <2> QED BY <2>1 DEF Sound, Settled, TotalConsumption
<1> QED BY <1>1, <1>2, <1>3 DEF Event

(* A fork is as sound as the failed journal it takes over from, because it  *)
(* takes over all of its consumption.                                       *)
LEMMA RecoverySound ==
  ASSUME TypeOK, ChainInv, NEW j \in Journals, NEW c \in Nat, RecoveryAccepted(j, c)
  PROVE  /\ Sound(AfterRecovery(j, c))
         /\ TotalConsumption(AfterRecovery(j, c)) = TotalConsumption(Durable(j))
<1> DEFINE checkpoint == Replay(j, c)
           failed == Durable(j)
           p == AfterRecovery(j, c)
<1>1. checkpoint \in State /\ failed \in State /\ Sound(failed)
  <2>1. c \in 0..Len(chain[j]) /\ Len(chain[j]) \in Nat
    BY DurableType DEF RecoveryAccepted
  <2> QED BY <2>1, ReplayType, DurableType DEF ChainInv, Durable
<1>2. AtLeast(failed.live, checkpoint.live) /\ failed.pending = 0
  BY DEF RecoveryAccepted, BoundaryFits
<1>3. /\ p.rollouts_reserved = failed.rollouts_reserved
      /\ p.pending = 0
      /\ p.failed = FALSE
      /\ p.live = checkpoint.live
      /\ p.retired = Plus(failed.retired, Minus(failed.live, checkpoint.live))
  BY DEF AfterRecovery
<1> HIDE DEF checkpoint, failed, p
<1>4. TotalConsumption(p) = TotalConsumption(failed)
  BY <1>1, <1>2, <1>3 DEF TotalConsumption, Plus, Minus, State, Counters
<1>5. Sound(p)
  BY <1>1, <1>2, <1>3, <1>4 DEF Sound, Settled
<1> QED BY <1>4, <1>5 DEF failed, p

(* Every step keeps every replayable state sound. *)
LEMMA ChainInductive == TypeOK /\ WriterInv /\ ChainInv /\ [Next]_vars => ChainInv'
<1> SUFFICES ASSUME TypeOK, WriterInv, ChainInv, [Next]_vars
             PROVE  ChainInv'
  OBVIOUS
<1>1. CASE UNCHANGED chain
  BY <1>1 DEF ChainInv, Replay
<1>2. ASSUME NEW j \in Journals, NEW p \in State, Published(j, p),
             Event(Durable(j), p) \/ ForkEvent(j, p)
      PROVE  ChainInv'
  <2>1. Sound(p)
    <3>1. Durable(j) \in State /\ Sound(Durable(j))
      BY DurableType DEF ChainInv, Durable
    <3>2. CASE Event(Durable(j), p)
      BY <3>1, <3>2, EventSound
    <3>3. CASE ForkEvent(j, p)
      BY <3>3, RecoverySound DEF ForkEvent
    <3> QED BY <1>2, <3>2, <3>3
  <2>2. /\ Len(chain[j])' = Len(chain[j]) + 1
        /\ Durable(j)' = p
        /\ \A n \in 0..Len(chain[j]) : Replay(j, n)' = Replay(j, n)
        /\ \A i \in Journals \ {j} : chain'[i] = chain[i]
    BY <1>2, PublishedChain
  <2>3. \A i \in Journals \ {j} : \A n \in 0..Len(chain[i])' : Sound(Replay(i, n))'
    BY <2>2 DEF ChainInv, Replay, Sound, Settled, CountersFit
  <2>4. \A n \in 0..Len(chain[j])' : Sound(Replay(j, n))'
    <3>1. TAKE n \in 0..Len(chain[j])'
    <3>2. CASE n \in 0..Len(chain[j])
      BY <2>2, <3>2 DEF ChainInv, Sound, Settled, CountersFit
    <3>3. CASE n = Len(chain[j])'
      <4>1. Replay(j, n)' = p
        BY <2>2, <3>3 DEF Durable
      <4> QED BY <2>1, <4>1 DEF Sound, Settled, CountersFit
    <3> QED BY <2>2, <3>1, <3>2, <3>3, DurableType
  <2> QED BY <2>3, <2>4 DEF ChainInv
<1> QED BY <1>1, <1>2, StepPublishes DEF vars

(* Executed work, retained and lost, fits the durable reservations of every *)
(* journal, for every budget.                                               *)
THEOREM WorkFits == Spec => []WorkFitsReservations
<1>1. Init => ChainInv
  BY SoundInitialState DEF Init, ChainInv, Replay
<1>2. TypeOK /\ WriterInv /\ ChainInv /\ [Next]_vars => ChainInv'
  BY ChainInductive
<1>3. TypeOK /\ ChainInv => WorkFitsReservations
  <2> SUFFICES ASSUME TypeOK, ChainInv, NEW j \in Journals
               PROVE  /\ Durable(j).rollouts_reserved <= Target
                      /\ CountersFit(TotalConsumption(Durable(j)),
                                     Durable(j).rollouts_reserved)
    BY DEF WorkFitsReservations
  <2> DEFINE s == Durable(j)
             c == TotalConsumption(s)
  <2>1. s \in State /\ Sound(s)
    BY DurableType DEF ChainInv, Durable
  <2> HIDE DEF s
  <2>2. c \in Counters /\ Settled(s) \in Nat /\ Settled(s) <= s.rollouts_reserved
    BY <2>1, PlusType DEF Settled, Sound, State, TotalConsumption
  <2>3. Settled(s) * Size <= s.rollouts_reserved * Size
    BY <2>1, <2>2, BudgetAssumption, Z3 DEF State
  <2> HIDE DEF c
  <2>4. CountersFit(c, s.rollouts_reserved)
    <3>1. CountersFit(c, Settled(s))
      BY <2>1 DEF Sound, c
    <3>2. Settled(s) * Size \in Int /\ s.rollouts_reserved * Size \in Int
      BY <2>1, <2>2, BudgetAssumption DEF State
    <3>3. c.ppo_updates <= s.rollouts_reserved
      BY <2>1, <2>2, <3>1 DEF CountersFit, Counters, State
    <3>4. c.attempted_transitions <= s.rollouts_reserved * Size
      BY <2>2, <2>3, <3>1, <3>2 DEF CountersFit, Counters
    <3> QED BY <3>1, <3>3, <3>4 DEF CountersFit
  <2> QED BY <2>1, <2>4 DEF Sound, s, c
<1> QED
  <2>1. TypeOK /\ WriterInv /\ [Next]_vars => WriterInv'
    BY WriterInductive
  <2> QED BY <1>1, <1>2, <1>3, <2>1, WriterInitial, TypeCorrect, PTL DEF Spec

------------------------------------------------------------------------------
(* Consumption is never refunded, and failure is final *)

(* What publishing p behind d may do to what is spent and executed. *)
Advances(d, p) ==
  /\ ~d.failed
  /\ p.rollouts_reserved >= d.rollouts_reserved
  /\ AtLeast(TotalConsumption(p), TotalConsumption(d))
  /\ p.active_elapsed_s >= d.active_elapsed_s

(* Every event the rules accept advances the state it is appended to. *)
LEMMA EventAdvances ==
  ASSUME NEW d \in State, Sound(d), NEW p, Event(d, p)
  PROVE  Advances(d, p)
<1> USE BudgetAssumption
<1>1. ASSUME NEW stage \in Stages, NEW t \in 0..MaxElapsed, t >= d.active_elapsed_s,
             ReserveAccepted(d), p = At(AfterReserve(d, stage), t)
      PROVE  Advances(d, p)
  <2>1. AfterReserve(d, stage) \in State
    BY ReserveType
  <2>2. /\ AfterReserve(d, stage).rollouts_reserved = d.rollouts_reserved + 1
        /\ AfterReserve(d, stage).live = d.live
        /\ AfterReserve(d, stage).retired = d.retired
    BY DEF AfterReserve, State
  <2> DEFINE r == AfterReserve(d, stage)
  <2> HIDE DEF r
  <2>3. /\ p.rollouts_reserved = r.rollouts_reserved
        /\ p.live = r.live
        /\ p.retired = r.retired
        /\ p.active_elapsed_s = t
    BY <1>1, <2>1 DEF At, State, r
  <2>4. ~d.failed
    BY <1>1 DEF ReserveAccepted, Clean
  <2> QED BY <1>1, <2>2, <2>3, <2>4
             DEF r, Advances, TotalConsumption, AtLeast, Plus, State, Counters
<1>2. ASSUME NEW actual \in Counters, NEW failed \in BOOLEAN, NEW t \in 0..MaxElapsed,
             t >= d.active_elapsed_s, ~d.failed, AtLeast(actual, d.live),
             p = At(AfterFinish(d, actual, failed), t)
      PROVE  Advances(d, p)
  <2>1. /\ p.rollouts_reserved = d.rollouts_reserved
        /\ p.live = actual
        /\ p.retired = d.retired
        /\ p.active_elapsed_s = t
    BY <1>2 DEF At, AfterFinish, State
  <2> QED BY <1>2, <2>1 DEF Advances, TotalConsumption, AtLeast, Plus, State, Counters
<1>3. ASSUME NEW t \in 0..MaxElapsed, t >= d.active_elapsed_s, Clean(d), p = At(d, t)
      PROVE  Advances(d, p)
  BY <1>3 DEF Advances, TotalConsumption, AtLeast, Plus, State, Counters, At, Clean
<1> QED BY <1>1, <1>2, <1>3 DEF Event, FinishAccepted, Sound

(* So does every step, as seen by each journal. *)
LEMMA StepAdvances ==
  ASSUME TypeOK, WriterInv, ChainInv, [Next]_vars, NEW i \in Journals
  PROVE  \/ chain'[i] = chain[i]
         \/ Advances(Durable(i), Durable(i)')
<1>1. CASE UNCHANGED chain
  BY <1>1
<1>2. ASSUME NEW j \in Journals, NEW p \in State, Published(j, p),
             Event(Durable(j), p) \/ ForkEvent(j, p)
      PROVE  chain'[i] = chain[i] \/ Advances(Durable(i), Durable(i)')
  <2>1. Durable(j)' = p /\ \A k \in Journals \ {j} : chain'[k] = chain[k]
    BY <1>2, PublishedChain
  <2>2. Advances(Durable(j), p)
    <3>1. CASE Event(Durable(j), p)
      BY <3>1, DurableType, EventAdvances DEF ChainInv, Durable
    <3>2. CASE ForkEvent(j, p)
      <4>1. Durable(j) = InitialState
        BY <3>2 DEF ForkEvent, Durable, Replay
      <4> QED BY <1>2, <4>1
              DEF Advances, InitialState, TotalConsumption, Plus, AtLeast, Zero, State, Counters
    <3> QED BY <1>2, <3>1, <3>2
  <2> QED BY <2>1, <2>2
<1> QED BY <1>1, <1>2, StepPublishes DEF vars

(* No step lowers what a journal has spent, executed or clocked. *)
THEOREM NothingIsRefunded == Spec => NeverRefunded
<1>1. TypeOK /\ WriterInv /\ ChainInv /\ [Next]_vars =>
        [\A j \in Journals :
           /\ Durable(j)'.rollouts_reserved >= Durable(j).rollouts_reserved
           /\ AtLeast(TotalConsumption(Durable(j)'), TotalConsumption(Durable(j)))
           /\ Durable(j)'.active_elapsed_s >= Durable(j).active_elapsed_s]_vars
  <2> SUFFICES ASSUME TypeOK, WriterInv, ChainInv, [Next]_vars, NEW j \in Journals
               PROVE  /\ Durable(j)'.rollouts_reserved >= Durable(j).rollouts_reserved
                      /\ AtLeast(TotalConsumption(Durable(j)'), TotalConsumption(Durable(j)))
                      /\ Durable(j)'.active_elapsed_s >= Durable(j).active_elapsed_s
    OBVIOUS
  <2>1. CASE Advances(Durable(j), Durable(j)')
    BY <2>1 DEF Advances
  <2>2. CASE chain'[j] = chain[j]
    <3>1. Durable(j)' = Durable(j) /\ Durable(j) \in State
      BY <2>2, DurableType DEF Durable, Replay
    <3>2. TotalConsumption(Durable(j)) \in Counters
      BY <3>1, PlusType DEF TotalConsumption, State
    <3> QED BY <3>1, <3>2 DEF AtLeast, Counters, State
  <2> QED BY <2>1, <2>2, StepAdvances
<1> QED
  <2>1. Init => ChainInv
    BY SoundInitialState DEF Init, ChainInv, Replay
  <2>2. TypeOK /\ WriterInv /\ [Next]_vars => WriterInv'
    BY WriterInductive
  <2>3. TypeOK /\ WriterInv /\ ChainInv /\ [Next]_vars => ChainInv'
    BY ChainInductive
  <2> QED BY <1>1, <2>1, <2>2, <2>3, WriterInitial, TypeCorrect, PTL
             DEF Spec, NeverRefunded

(* Nothing is ever appended behind a failed rollout. *)
THEOREM FailureStaysFinal == Spec => FailureIsFinal
<1>1. TypeOK /\ WriterInv /\ ChainInv /\ [Next]_vars =>
        [\A j \in Journals : Durable(j).failed => chain'[j] = chain[j]]_vars
  BY StepAdvances DEF Advances
<1> QED
  <2>1. Init => ChainInv
    BY SoundInitialState DEF Init, ChainInv, Replay
  <2>2. TypeOK /\ WriterInv /\ [Next]_vars => WriterInv'
    BY WriterInductive
  <2>3. TypeOK /\ WriterInv /\ ChainInv /\ [Next]_vars => ChainInv'
    BY ChainInductive
  <2> QED BY <1>1, <2>1, <2>2, <2>3, WriterInitial, TypeCorrect, PTL
             DEF Spec, FailureIsFinal

------------------------------------------------------------------------------
(* The journal implements the abstract budget *)

(* A rule of _apply charges a rollout, works one off, or shows nothing. *)
LEMMA EventLedger ==
  ASSUME NEW d \in State, Sound(d), NEW p, Event(d, p)
  PROVE  \/ LedgerOf(p) = LedgerOf(d)
         \/ /\ ~LedgerOf(d).failed /\ LedgerOf(d).spent < Target
            /\ LedgerOf(p) = [LedgerOf(d) EXCEPT !.spent = @ + 1]
         \/ /\ ~LedgerOf(d).failed
            /\ \E n \in 0..Size, f \in BOOLEAN :
                 /\ LedgerOf(d).executed + n <= LedgerOf(d).spent * Size
                 /\ LedgerOf(p) = [spent |-> LedgerOf(d).spent,
                                  executed |-> LedgerOf(d).executed + n, failed |-> f]
<1> USE BudgetAssumption
<1>1. ASSUME NEW stage \in Stages, NEW t \in 0..MaxElapsed,
             ReserveAccepted(d), p = At(AfterReserve(d, stage), t)
      PROVE  /\ ~LedgerOf(d).failed /\ LedgerOf(d).spent < Target
             /\ LedgerOf(p) = [LedgerOf(d) EXCEPT !.spent = @ + 1]
  <2>1. AfterReserve(d, stage) \in State
    BY ReserveType
  <2>2. /\ AfterReserve(d, stage).rollouts_reserved = d.rollouts_reserved + 1
        /\ AfterReserve(d, stage).failed = d.failed
        /\ AfterReserve(d, stage).live = d.live
        /\ AfterReserve(d, stage).retired = d.retired
    BY DEF AfterReserve, State
  <2> DEFINE r == AfterReserve(d, stage)
  <2> HIDE DEF r
  <2>3. /\ p.rollouts_reserved = r.rollouts_reserved
        /\ p.failed = r.failed
        /\ p.live = r.live
        /\ p.retired = r.retired
    BY <1>1, <2>1 DEF At, State, r
  <2> QED BY <1>1, <2>2, <2>3
             DEF r, LedgerOf, TotalConsumption, ReserveAccepted, Clean
<1>2. ASSUME NEW actual \in Counters, NEW failed \in BOOLEAN, NEW t \in 0..MaxElapsed,
             FinishAccepted(d, actual, failed), p = At(AfterFinish(d, actual, failed), t)
      PROVE  /\ ~LedgerOf(d).failed
             /\ \E n \in 0..Size, f \in BOOLEAN :
                  /\ LedgerOf(d).executed + n <= LedgerOf(d).spent * Size
                  /\ LedgerOf(p) = [spent |-> LedgerOf(d).spent,
                                  executed |-> LedgerOf(d).executed + n, failed |-> f]
  <2>1. /\ p.rollouts_reserved = d.rollouts_reserved
        /\ p.pending = 0
        /\ p.failed = failed
        /\ p.live = actual
        /\ p.retired = d.retired
    BY <1>2 DEF At, AfterFinish, State
  <2> DEFINE n == Minus(actual, d.live).attempted_transitions
  <2>2. Minus(actual, d.live) \in Counters /\ d.pending # 0 /\ n <= Size
    BY <1>2, MinusType DEF FinishAccepted, State
  <2>3. n \in 0..Size
    BY <2>2 DEF Counters
  <2>4. LedgerOf(p).executed = LedgerOf(d).executed + n
    BY <2>1 DEF LedgerOf, TotalConsumption, Plus, Minus, State, Counters
  <2>5. Sound(p)
    BY <1>2, EventSound DEF Event
  <2>6. LedgerOf(p).executed <= p.rollouts_reserved * Size
    BY <2>1, <2>5 DEF Sound, Settled, CountersFit, LedgerOf, State
  <2> HIDE DEF n
  <2>7. LedgerOf(d).executed + n <= LedgerOf(d).spent * Size
    BY <2>1, <2>4, <2>6 DEF LedgerOf
  <2>8. LedgerOf(p) = [spent |-> LedgerOf(d).spent,
                        executed |-> LedgerOf(d).executed + n, failed |-> failed]
    BY <2>1, <2>4 DEF LedgerOf
  <2>9. ~LedgerOf(d).failed
    BY <2>2 DEF Sound, LedgerOf
  <2> QED BY <2>3, <2>7, <2>8, <2>9
<1>3. ASSUME NEW t \in 0..MaxElapsed, p = At(d, t)
      PROVE  LedgerOf(p) = LedgerOf(d)
  BY <1>3 DEF At, State, LedgerOf, TotalConsumption
<1> QED BY <1>1, <1>2, <1>3 DEF Event

(* Every step of the journal is a step of the budget, or invisible to it. *)
LEMMA StepImplements ==
  ASSUME TypeOK, WriterInv, ChainInv, [Next]_vars
  PROVE  [Budget!Next]_([j \in Journals |-> LedgerOf(Durable(j))])
<1> DEFINE ledger == [j \in Journals |-> LedgerOf(Durable(j))]
<1>1. CASE UNCHANGED chain
  BY <1>1 DEF Durable, Replay, LedgerOf
<1>2. ASSUME NEW j \in Journals, NEW p \in State, Published(j, p),
             Event(Durable(j), p) \/ ForkEvent(j, p)
      PROVE  Budget!Next \/ UNCHANGED ledger
  <2>1. Durable(j)' = p /\ \A k \in Journals \ {j} : chain'[k] = chain[k]
    BY <1>2, PublishedChain
  <2>2. \A k \in Journals \ {j} : Durable(k)' = Durable(k)
    BY <2>1 DEF Durable, Replay
  <2>3. ledger' = [ledger EXCEPT ![j] = LedgerOf(p)]
    BY <2>1, <2>2
  <2>4. CASE Event(Durable(j), p)
    <3>1. Durable(j) \in State /\ Sound(Durable(j))
      BY DurableType DEF ChainInv, Durable
    <3>2. CASE LedgerOf(p) = LedgerOf(Durable(j))
      BY <2>3, <3>2
    <3>3. CASE /\ ~LedgerOf(Durable(j)).failed /\ LedgerOf(Durable(j)).spent < Target
               /\ LedgerOf(p) = [LedgerOf(Durable(j)) EXCEPT !.spent = @ + 1]
      BY <2>3, <3>3 DEF Budget!Next, Budget!Charge
    <3>4. CASE /\ ~LedgerOf(Durable(j)).failed
               /\ \E n \in 0..Size, f \in BOOLEAN :
                    /\ LedgerOf(Durable(j)).executed + n <= LedgerOf(Durable(j)).spent * Size
                    /\ LedgerOf(p) = [spent |-> LedgerOf(Durable(j)).spent,
                                        executed |-> LedgerOf(Durable(j)).executed + n,
                                        failed |-> f]
      <4>1. PICK n \in 0..Size, f \in BOOLEAN :
              /\ LedgerOf(Durable(j)).executed + n <= LedgerOf(Durable(j)).spent * Size
              /\ LedgerOf(p) = [spent |-> LedgerOf(Durable(j)).spent,
                                executed |-> LedgerOf(Durable(j)).executed + n,
                                failed |-> f]
        BY <3>4
      <4>2. ledger[j] = LedgerOf(Durable(j))
        OBVIOUS
      <4>3. ledger' = [ledger EXCEPT ![j] = [spent |-> ledger[j].spent,
                                             executed |-> ledger[j].executed + n,
                                             failed |-> f]]
        BY <2>3, <4>1, <4>2
      <4>4. ~ledger[j].failed /\ ledger[j].executed + n <= ledger[j].spent * Size
        BY <3>4, <4>1, <4>2
      <4>5. Budget!Execute(j)
        BY <4>3, <4>4 DEF Budget!Execute
      <4> QED BY <4>5 DEF Budget!Next
    <3> HIDE DEF ledger
    <3> QED BY <2>4, <3>1, <3>2, <3>3, <3>4, EventLedger
  <2>5. CASE ForkEvent(j, p)
    <3>1. ledger[j] = Budget!Zero
      <4>1. Durable(j) = InitialState
        BY <2>5 DEF ForkEvent, Durable, Replay
      <4>2. TotalConsumption(InitialState) = Zero
        BY DEF InitialState, TotalConsumption, Plus, Zero
      <4>3. /\ InitialState.rollouts_reserved = 0 /\ InitialState.failed = FALSE
            /\ Zero.attempted_transitions = 0
        BY DEF InitialState, Zero
      <4>4. LedgerOf(InitialState) = Budget!Zero
        BY <4>2, <4>3 DEF LedgerOf, Budget!Zero
      <4> QED BY <4>1, <4>4
    <3>2. PICK i \in Journals : \E c \in 1..Len(chain[i]) :
            RecoveryAccepted(i, c) /\ p = AfterRecovery(i, c)
      BY <2>5 DEF ForkEvent
    <3>3. /\ Durable(i).failed
          /\ LedgerOf(p) = [spent |-> LedgerOf(Durable(i)).spent,
                            executed |-> LedgerOf(Durable(i)).executed, failed |-> FALSE]
      <4>0. PICK c \in 1..Len(chain[i]) : RecoveryAccepted(i, c) /\ p = AfterRecovery(i, c)
        BY <3>2
      <4>1. c \in Nat
        BY DurableType
      <4>2. TotalConsumption(p) = TotalConsumption(Durable(i))
        BY <4>0, <4>1, RecoverySound
      <4>3. p.rollouts_reserved = Durable(i).rollouts_reserved /\ p.failed = FALSE
        BY <4>0 DEF AfterRecovery
      <4> QED BY <4>0, <4>2, <4>3 DEF RecoveryAccepted, LedgerOf
    <3>4. Budget!Inherit(j, i)
      BY <2>3, <3>1, <3>3 DEF Budget!Inherit, LedgerOf
    <3> QED BY <3>4 DEF Budget!Next
  <2> QED BY <1>2, <2>4, <2>5
<1> QED BY <1>1, <1>2, StepPublishes DEF vars

(* The journal implements the non-refundable budget. *)
THEOREM Implements == Spec => ImplementsBudget
<1>1. Init => Budget!Init
  BY DEF Init, Budget!Init, Budget!Zero, Durable, Replay, InitialState, LedgerOf,
         TotalConsumption, Plus, Zero
<1>2. TypeOK /\ WriterInv /\ ChainInv /\ [Next]_vars =>
        [Budget!Next]_([j \in Journals |-> LedgerOf(Durable(j))])
  BY StepImplements
<1> QED
  <2>1. Init => ChainInv
    BY SoundInitialState DEF Init, ChainInv, Replay
  <2>2. TypeOK /\ WriterInv /\ [Next]_vars => WriterInv'
    BY WriterInductive
  <2>3. TypeOK /\ WriterInv /\ ChainInv /\ [Next]_vars => ChainInv'
    BY ChainInductive
  <2> QED BY <1>1, <1>2, <2>1, <2>2, <2>3, WriterInitial, TypeCorrect, PTL
             DEF Spec, ImplementsBudget, Budget!Spec
------------------------------------------------------------------------------
(* Every failure is recoverable: what a summary says by itself *)

(* The sum of the reservations over the stages. *)
LEMMA StageSumIs ==
  ASSUME NEW s
  PROVE  StageSum(s) = SumOver(s.reserved_by_stage, Stages)
  BY DEF StageSum, SumOver, Sums!SumFunctionOnSet, Sums!FoldFunctionOnSet,
         Sums!MapThenFoldSet, Sets!MapThenSumSet, Sets!MapThenFoldSet

(* The three kinds of event behind a fork, field by field. *)
Reserves(d, p) ==
  /\ Clean(d)
  /\ p.rollouts_reserved = d.rollouts_reserved + 1
  /\ p.pending = d.rollouts_reserved + 1
  /\ ~p.failed
  /\ p.live = d.live
  /\ \E stage \in Stages : p.reserved_by_stage = Charged(d.reserved_by_stage, stage)

Finishes(d, p) ==
  /\ FinishAccepted(d, p.live, p.failed)
  /\ p.rollouts_reserved = d.rollouts_reserved
  /\ p.pending = 0
  /\ p.reserved_by_stage = d.reserved_by_stage

Observes(d, p) ==
  /\ Clean(d) /\ Clean(p)
  /\ p.rollouts_reserved = d.rollouts_reserved
  /\ p.live = d.live
  /\ p.reserved_by_stage = d.reserved_by_stage

(* Every event is one of them, and leaves what was inherited alone. *)
LEMMA EventFields ==
  ASSUME NEW d \in State, NEW p \in State, Event(d, p)
  PROVE  /\ p.retired = d.retired /\ p.recovery = d.recovery
         /\ p.active_elapsed_s >= d.active_elapsed_s
         /\ Reserves(d, p) \/ Finishes(d, p) \/ Observes(d, p)
<1> USE BudgetAssumption
<1>1. ASSUME NEW stage \in Stages, NEW t \in 0..MaxElapsed, t >= d.active_elapsed_s,
             ReserveAccepted(d), p = At(AfterReserve(d, stage), t)
      PROVE  /\ p.retired = d.retired /\ p.recovery = d.recovery
             /\ p.active_elapsed_s >= d.active_elapsed_s
             /\ Reserves(d, p)
  <2> DEFINE r == AfterReserve(d, stage)
  <2>1. r \in State
    BY ReserveType
  <2>2. /\ r.rollouts_reserved = d.rollouts_reserved + 1
        /\ r.pending = d.rollouts_reserved + 1
        /\ r.failed = d.failed /\ r.live = d.live /\ r.retired = d.retired
        /\ r.recovery = d.recovery
        /\ r.reserved_by_stage = Charged(d.reserved_by_stage, stage)
    BY DEF AfterReserve, State
  <2> HIDE DEF r
  <2>3. /\ p.rollouts_reserved = r.rollouts_reserved /\ p.pending = r.pending
        /\ p.failed = r.failed /\ p.live = r.live /\ p.retired = r.retired
        /\ p.recovery = r.recovery /\ p.reserved_by_stage = r.reserved_by_stage
        /\ p.active_elapsed_s = t
    BY <1>1, <2>1 DEF At, State, r
  <2> QED BY <1>1, <2>2, <2>3 DEF Reserves, ReserveAccepted, Clean
<1>2. ASSUME NEW actual \in Counters, NEW failed \in BOOLEAN, NEW t \in 0..MaxElapsed,
             t >= d.active_elapsed_s, FinishAccepted(d, actual, failed),
             p = At(AfterFinish(d, actual, failed), t)
      PROVE  /\ p.retired = d.retired /\ p.recovery = d.recovery
             /\ p.active_elapsed_s >= d.active_elapsed_s
             /\ Finishes(d, p)
  <2>1. /\ p.rollouts_reserved = d.rollouts_reserved /\ p.pending = 0
        /\ p.failed = failed /\ p.live = actual /\ p.retired = d.retired
        /\ p.recovery = d.recovery /\ p.reserved_by_stage = d.reserved_by_stage
        /\ p.active_elapsed_s = t
    BY <1>2 DEF At, AfterFinish, State
  <2> QED BY <1>2, <2>1 DEF Finishes
<1>3. ASSUME NEW t \in 0..MaxElapsed, t >= d.active_elapsed_s, Clean(d), p = At(d, t)
      PROVE  /\ p.retired = d.retired /\ p.recovery = d.recovery
             /\ p.active_elapsed_s >= d.active_elapsed_s
             /\ Observes(d, p)
  <2>1. /\ p.rollouts_reserved = d.rollouts_reserved /\ p.pending = d.pending
        /\ p.failed = d.failed /\ p.live = d.live /\ p.retired = d.retired
        /\ p.recovery = d.recovery /\ p.reserved_by_stage = d.reserved_by_stage
        /\ p.active_elapsed_s = t
    BY <1>3 DEF At, State
  <2> QED BY <1>3, <2>1 DEF Observes, Clean
<1> QED BY <1>1, <1>2, <1>3 DEF Event

(* Counters that fit some reservations fit more of them. *)
LEMMA FitsMore ==
  ASSUME NEW c \in Counters, NEW r \in Nat, NEW q \in Nat, r <= q, CountersFit(c, r)
  PROVE  CountersFit(c, q)
<1>1. r * Size \in Nat /\ q * Size \in Nat /\ r * Size <= q * Size
  BY BudgetAssumption, Z3
<1>2. c.attempted_transitions <= q * Size
  BY <1>1 DEF CountersFit, Counters
<1>3. c.ppo_updates <= q
  BY DEF CountersFit, Counters
<1> QED BY <1>2, <1>3 DEF CountersFit

(* What a summary owes by itself: every reservation belongs to a stage, and *)
(* the work it keeps and the work it inherited as lost each fit it.         *)
Account(s) ==
  /\ StageSum(s) = s.rollouts_reserved
  /\ CountersFit(s.live, Settled(s))
  /\ CountersFit(s.retired, Settled(s))

(* Settled reservations are reservations. *)
LEMMA SettledType ==
  ASSUME NEW s \in State, Sound(s)
  PROVE  Settled(s) \in Nat /\ Settled(s) <= s.rollouts_reserved
  BY DEF Settled, Sound, State

(* An empty journal has nothing to account for. *)
LEMMA AccountOfInitialState == Account(InitialState)
<1>1. StageSum(InitialState) = 0
  <2>1. \A g \in Stages : InitialState.reserved_by_stage[g] = 0
    BY DEF InitialState
  <2> QED BY <2>1, StagesAssumption, SumOfZeros, StageSumIs
<1>2. CountersFit(Zero, 0)
  BY BudgetAssumption DEF CountersFit, AtLeast, Zero
<1>3. Settled(InitialState) = 0
  BY DEF Settled, InitialState
<1> QED BY <1>1, <1>2, <1>3 DEF Account, InitialState

(* A reservation adds one to the sum over the stages. *)
LEMMA ChargedSum ==
  ASSUME NEW f \in [Stages -> Nat], NEW stage \in Stages
  PROVE  /\ SumOver(Charged(f, stage), Stages) = SumOver(f, Stages) + 1
         /\ \A g \in Stages : Charged(f, stage)[g] >= f[g]
<1> DEFINE h == Charged(f, stage)
<1>1. /\ h[stage] = f[stage] + 1
      /\ \A g \in Stages \ {stage} : h[g] = f[g]
      /\ \A g \in Stages : f[g] \in Int
      /\ h[stage] \in Int
  BY DEF Charged
<1> HIDE DEF h
<1>2. SumOver(h, Stages) = SumOver(f, Stages) + h[stage] - f[stage]
  BY <1>1, StagesAssumption, SumChange
<1>3. SumOver(f, Stages) \in Int
  BY <1>1, StagesAssumption, SumRemove
<1>4. \A g \in Stages : h[g] >= f[g]
  BY <1>1
<1> QED BY <1>1, <1>2, <1>3, <1>4 DEF h

(* An event that finishes a rollout settles its reservation. *)
LEMMA SettledBy ==
  ASSUME NEW d \in State, NEW p \in State, Sound(d), Event(d, p)
  PROVE  /\ Reserves(d, p) \/ Observes(d, p) => Settled(p) = Settled(d)
         /\ Finishes(d, p) => Settled(p) = Settled(d) + 1
<1>1. d.rollouts_reserved \in Nat
  BY DEF State
<1>2. ASSUME Reserves(d, p) PROVE Settled(p) = Settled(d)
  BY <1>1, <1>2 DEF Reserves, Settled, Clean
<1>3. ASSUME Observes(d, p) PROVE Settled(p) = Settled(d)
  BY <1>1, <1>3 DEF Observes, Settled, Clean
<1>4. ASSUME Finishes(d, p) PROVE Settled(p) = Settled(d) + 1
  BY <1>1, <1>4 DEF Finishes, FinishAccepted, Settled
<1> QED BY <1>2, <1>3, <1>4

(* The work of a finished rollout, on top of work that already fitted. *)
LEMMA FinishFits ==
  ASSUME NEW d \in State, NEW p \in State, Finishes(d, p),
         NEW c \in Counters, NEW r \in Nat, CountersFit(c, r)
  PROVE  /\ CountersFit(Plus(c, Minus(p.live, d.live)), r + 1)
         /\ Minus(p.live, d.live) \in Counters
<1> DEFINE delta == Minus(p.live, d.live)
<1>1. delta \in Counters
  BY MinusType DEF Finishes, FinishAccepted, State
<1>2. /\ delta.returned_transitions <= delta.attempted_transitions
      /\ delta.attempted_transitions <= Size
      /\ delta.ppo_updates \in {0, 1}
      /\ delta.ppo_updates = 1 => delta.returned_transitions = Size
      /\ delta.optimizer_steps <= StepLimit
      /\ delta.ppo_updates = 0 => delta.optimizer_steps = 0
  BY DEF Finishes, FinishAccepted
<1> HIDE DEF delta
<1>3. CountersFit(Plus(c, delta), r + 1)
  BY <1>1, <1>2, OneMoreRollout
<1> QED BY <1>1, <1>3 DEF delta

(* Every event keeps the account. *)
LEMMA EventAccount ==
  ASSUME NEW d \in State, Sound(d), Account(d), NEW p \in State, Event(d, p)
  PROVE  Account(p)
<1>1. p.retired = d.retired /\ (Reserves(d, p) \/ Finishes(d, p) \/ Observes(d, p))
  BY EventFields
<1>2. Settled(d) \in Nat /\ d.rollouts_reserved \in Nat /\ d.retired \in Counters
      /\ d.live \in Counters /\ p.live \in Counters
  BY SettledType DEF State
<1>3. CASE Reserves(d, p)
  <2>1. StageSum(p) = StageSum(d) + 1
    BY <1>3, ChargedSum, StageSumIs DEF Reserves, State
  <2> QED BY <1>1, <1>3, <2>1, SettledBy DEF Account, Reserves
<1>4. CASE Finishes(d, p)
  <2>1. p.live = Plus(d.live, Minus(p.live, d.live))
    BY <1>2 DEF Plus, Minus, Counters
  <2>2. CountersFit(p.live, Settled(d) + 1)
    BY <1>2, <1>4, <2>1, FinishFits DEF Account
  <2>3. CountersFit(p.retired, Settled(d) + 1)
    BY <1>1, <1>2, FitsMore DEF Account
  <2>4. StageSum(p) = StageSum(d)
    BY <1>4, StageSumIs DEF Finishes
  <2> QED BY <1>4, <2>2, <2>3, <2>4, SettledBy DEF Account, Finishes
<1>5. CASE Observes(d, p)
  <2>1. StageSum(p) = StageSum(d)
    BY <1>5, StageSumIs DEF Observes
  <2> QED BY <1>1, <1>5, <2>1, SettledBy DEF Account, Observes
<1> QED BY <1>1, <1>3, <1>4, <1>5

------------------------------------------------------------------------------
(* What two summaries of one journal owe each other *)

(* t is a later summary of the journal s belongs to. *)
Follows(s, t) ==
  /\ t.recovery = s.recovery
  /\ t.retired = s.retired
  /\ AtLeast(t.live, s.live)
  /\ StagesAtLeast(t, s)
  /\ t.active_elapsed_s >= s.active_elapsed_s
  /\ t.rollouts_reserved >= s.rollouts_reserved
  /\ Settled(t) >= Settled(s)
  /\ CountersFit(Minus(t.live, s.live), Settled(t) - Settled(s))
  /\ Clean(s) /\ (t.failed \/ t.pending # 0) => s.rollouts_reserved < t.rollouts_reserved

(* A summary follows itself. *)
LEMMA FollowsItself ==
  ASSUME NEW s \in State, Sound(s)
  PROVE  Follows(s, s)
<1>1. Minus(s.live, s.live) = Zero
  BY DEF Minus, Zero, State, Counters
<1>2. CountersFit(Zero, 0)
  BY BudgetAssumption DEF CountersFit, AtLeast, Zero
<1>3. Settled(s) - Settled(s) = 0 /\ Settled(s) >= Settled(s)
  BY SettledType
<1>4. AtLeast(s.live, s.live) /\ StagesAtLeast(s, s)
  BY DEF AtLeast, StagesAtLeast, State, Counters
<1>5. s.rollouts_reserved >= s.rollouts_reserved /\ s.active_elapsed_s >= s.active_elapsed_s
  BY DEF State
<1>6. ~(Clean(s) /\ (s.failed \/ s.pending # 0))
  BY DEF Clean
<1> QED BY <1>1, <1>2, <1>3, <1>4, <1>5, <1>6 DEF Follows

(* Counters are ordered. *)
LEMMA AtLeastTransitive ==
  ASSUME NEW a \in Counters, NEW b \in Counters, NEW c \in Counters,
         AtLeast(a, b), AtLeast(b, c)
  PROVE  AtLeast(a, c)
  BY DEF AtLeast, Counters

(* What follows a summary still does after one more event. *)
LEMMA EventFollows ==
  ASSUME NEW s \in State, NEW d \in State, NEW p \in State,
         Sound(s), Sound(d), Follows(s, d), Event(d, p)
  PROVE  Follows(s, p)
<1>1. /\ p.retired = d.retired /\ p.recovery = d.recovery
      /\ p.active_elapsed_s >= d.active_elapsed_s
      /\ Reserves(d, p) \/ Finishes(d, p) \/ Observes(d, p)
  BY EventFields
<1>2. /\ s.live \in Counters /\ d.live \in Counters /\ p.live \in Counters
      /\ s.rollouts_reserved \in Nat /\ d.rollouts_reserved \in Nat
      /\ Settled(s) \in Nat /\ Settled(d) \in Nat
      /\ s.active_elapsed_s \in Nat /\ d.active_elapsed_s \in Nat
      /\ p.active_elapsed_s \in Nat
      /\ s.reserved_by_stage \in [Stages -> Nat] /\ d.reserved_by_stage \in [Stages -> Nat]
      /\ p.reserved_by_stage \in [Stages -> Nat]
  BY SettledType DEF State
<1>3. /\ p.recovery = s.recovery /\ p.retired = s.retired
      /\ p.active_elapsed_s >= s.active_elapsed_s
  BY <1>1, <1>2 DEF Follows
<1>4. StagesAtLeast(p, s)
  <2>1. \A g \in Stages : p.reserved_by_stage[g] >= d.reserved_by_stage[g]
    <3>1. CASE Reserves(d, p)
      BY <1>2, <3>1, ChargedSum DEF Reserves
    <3>2. CASE p.reserved_by_stage = d.reserved_by_stage
      BY <1>2, <3>2
    <3> QED BY <1>1, <3>1, <3>2 DEF Finishes, Observes
  <2>2. \A g \in Stages : d.reserved_by_stage[g] >= s.reserved_by_stage[g]
    BY DEF Follows, StagesAtLeast
  <2> QED BY <1>2, <2>1, <2>2 DEF StagesAtLeast
<1>5. CASE Reserves(d, p) \/ Observes(d, p)
  <2>1. p.live = d.live /\ Settled(p) = Settled(d)
    BY <1>5, SettledBy DEF Reserves, Observes
  <2>2. /\ p.rollouts_reserved >= s.rollouts_reserved
        /\ Clean(s) /\ (p.failed \/ p.pending # 0)
             => s.rollouts_reserved < p.rollouts_reserved
    BY <1>2, <1>5 DEF Reserves, Observes, Follows, Clean
  <2> QED BY <1>3, <1>4, <2>1, <2>2 DEF Follows
<1>6. CASE Finishes(d, p)
  <2>1. Settled(p) = Settled(d) + 1 /\ p.rollouts_reserved = d.rollouts_reserved
        /\ d.pending # 0 /\ AtLeast(p.live, d.live)
    BY <1>6, SettledBy DEF Finishes, FinishAccepted
  <2>2. AtLeast(p.live, s.live) /\ AtLeast(d.live, s.live)
    BY <1>2, <2>1, AtLeastTransitive DEF Follows
  <2> DEFINE c == Minus(d.live, s.live)
             r == Settled(d) - Settled(s)
  <2>3. c \in Counters /\ r \in Nat /\ CountersFit(c, r)
    BY <1>2, <2>2, MinusType DEF Follows
  <2>4. Minus(p.live, s.live) = Plus(c, Minus(p.live, d.live))
    BY <1>2 DEF Minus, Plus, Counters
  <2>5. Settled(p) - Settled(s) = r + 1 /\ Settled(p) >= Settled(s)
    BY <1>2, <2>1, <2>3
  <2> HIDE DEF c, r
  <2>6. CountersFit(Minus(p.live, s.live), Settled(p) - Settled(s))
    BY <1>6, <2>3, <2>4, <2>5, FinishFits
  <2>7. Clean(s) => s.rollouts_reserved < p.rollouts_reserved
    BY <2>1 DEF Follows
  <2>8. p.rollouts_reserved >= s.rollouts_reserved
    BY <1>2, <2>1 DEF Follows
  <2> QED BY <1>3, <1>4, <2>2, <2>5, <2>6, <2>7, <2>8 DEF Follows
<1> QED BY <1>1, <1>5, <1>6

------------------------------------------------------------------------------
(* What a fork owes the failed journal it took over from *)

(* The source of a fork is a failed journal, and the fork keeps what it     *)
(* inherited.                                                               *)
Inherits(s) ==
  s.recovery.source # NoJournal =>
    /\ s.recovery.source \in Journals
    /\ s.recovery.checkpoint \in 0..Len(chain[s.recovery.source])
    /\ Durable(s.recovery.source).failed
    /\ KeepsInheritance(s)

(* The inductive form of EveryFailureIsRecoverable: every summary keeps its *)
(* account and its inheritance, and every two of a journal follow each      *)
(* other.                                                                   *)
HistoryInv ==
  \A j \in Journals :
    /\ \A n \in 0..Len(chain[j]) : \A s \in {Replay(j, n)} : Account(s) /\ Inherits(s)
    /\ \A b \in 1..Len(chain[j]) : \A a \in 1..b :
         \A s \in {Replay(j, a)}, t \in {Replay(j, b)} : Follows(s, t)

(* A failed journal never changes, so what a fork inherited stays put. *)
LEMMA InheritanceStays ==
  ASSUME NEW s, Inherits(s),
         \A i \in Journals : Durable(i).failed => chain'[i] = chain[i]
  PROVE  Inherits(s)'
<1>1. CASE s.recovery.source = NoJournal
  BY <1>1 DEF Inherits
<1>2. CASE s.recovery.source # NoJournal
  <2> DEFINE i == s.recovery.source
             c == s.recovery.checkpoint
  <2>1. /\ i \in Journals /\ c \in 0..Len(chain[i]) /\ Durable(i).failed
        /\ KeepsInheritance(s) /\ chain'[i] = chain[i]
    BY <1>2 DEF Inherits
  <2>2. Durable(i)' = Durable(i) /\ Replay(i, c)' = Replay(i, c)
    BY <2>1 DEF Durable, Replay
  <2>3. KeepsInheritance(s)'
    BY <2>1, <2>2 DEF KeepsInheritance, RetiredBy, AtLeast, StagesAtLeast, Plus, Minus
  <2> QED BY <2>1, <2>2, <2>3 DEF Inherits
<1> QED BY <1>1, <1>2

(* What follows a summary inherits what it did. *)
LEMMA FollowsInherits ==
  ASSUME TypeOK, NEW s \in State, NEW t \in State, Follows(s, t), Inherits(s)
  PROVE  Inherits(t)
<1>1. t.recovery = s.recovery /\ t.retired = s.retired
  BY DEF Follows
<1>2. CASE s.recovery.source = NoJournal
  BY <1>1, <1>2 DEF Inherits
<1>3. CASE s.recovery.source # NoJournal
  <2> DEFINE i == s.recovery.source
             checkpoint == Replay(i, s.recovery.checkpoint)
             failed == Durable(i)
  <2>1. /\ i \in Journals /\ s.recovery.checkpoint \in 0..Len(chain[i]) /\ failed.failed
        /\ KeepsInheritance(s)
    BY <1>3 DEF Inherits
  <2>2. checkpoint \in State /\ failed \in State
    BY <2>1, ReplayType, DurableType
  <2>3. /\ s.retired = RetiredBy(s.recovery) /\ AtLeast(s.live, checkpoint.live)
        /\ s.active_elapsed_s >= failed.active_elapsed_s /\ StagesAtLeast(s, failed)
    BY <1>3, <2>1 DEF KeepsInheritance
  <2> HIDE DEF checkpoint, failed
  <2>4. AtLeast(t.live, checkpoint.live)
    BY <2>2, <2>3, AtLeastTransitive DEF Follows, State
  <2>5. t.active_elapsed_s >= failed.active_elapsed_s
    BY <2>2, <2>3 DEF Follows, State
  <2>6. StagesAtLeast(t, failed)
    BY <2>2, <2>3 DEF Follows, StagesAtLeast, State
  <2>7. KeepsInheritance(t)
    BY <1>1, <2>3, <2>4, <2>5, <2>6 DEF KeepsInheritance, checkpoint, failed
  <2> QED BY <1>1, <2>1, <2>7 DEF Inherits, failed
<1> QED BY <1>2, <1>3

(* A fork begins with its inheritance, and accounts for all of it. *)
LEMMA ForkBegins ==
  ASSUME TypeOK, NEW j \in Journals, NEW c \in Nat, RecoveryAccepted(j, c)
  PROVE  Account(AfterRecovery(j, c)) /\ Inherits(AfterRecovery(j, c))
<1> DEFINE checkpoint == Replay(j, c)
           failed == Durable(j)
           p == AfterRecovery(j, c)
<1>1. /\ c \in 1..Len(chain[j]) - 1 /\ c \in 0..Len(chain[j])
      /\ checkpoint \in State /\ failed \in State
  <2>1. c \in 1..Len(chain[j]) - 1 /\ Len(chain[j]) \in Nat
    BY DurableType DEF RecoveryAccepted
  <2>2. c \in 0..Len(chain[j])
    BY <2>1
  <2> QED BY <2>1, <2>2, ReplayType, DurableType
<1>2. /\ failed.failed /\ BoundaryFits(checkpoint, c) /\ BoundaryFits(failed, Len(chain[j]))
      /\ checkpoint.rollouts_reserved < failed.rollouts_reserved
      /\ CountersFit(Plus(failed.retired, Minus(failed.live, checkpoint.live)),
                     failed.rollouts_reserved)
  BY DEF RecoveryAccepted
<1>3. /\ p.rollouts_reserved = failed.rollouts_reserved
      /\ p.reserved_by_stage = failed.reserved_by_stage
      /\ p.pending = 0
      /\ p.live = checkpoint.live
      /\ p.retired = Plus(failed.retired, Minus(failed.live, checkpoint.live))
      /\ p.recovery.source = j /\ p.recovery.checkpoint = c
      /\ p.active_elapsed_s = failed.active_elapsed_s
  BY DEF AfterRecovery
<1>4. Inherits(p)
  <2>1. RetiredBy(p.recovery) = p.retired
    BY <1>3, JournalsAssumption DEF RetiredBy
  <2>2. /\ AtLeast(p.live, checkpoint.live)
        /\ p.active_elapsed_s >= failed.active_elapsed_s
        /\ StagesAtLeast(p, failed)
    <3> HIDE DEF checkpoint, failed, p
    <3>1. checkpoint.live \in Counters /\ failed.reserved_by_stage \in [Stages -> Nat]
          /\ failed.active_elapsed_s \in Nat
      BY <1>1 DEF State
    <3> QED BY <1>3, <3>1 DEF AtLeast, StagesAtLeast, Counters
  <2>3. KeepsInheritance(p)
    BY <1>3, <2>1, <2>2 DEF KeepsInheritance
  <2> QED BY <1>1, <1>2, <1>3, <2>3 DEF Inherits
<1> HIDE DEF checkpoint, failed, p
<1>5. Account(p)
  <2>1. StageSum(p) = p.rollouts_reserved
    BY <1>2, <1>3, StageSumIs DEF BoundaryFits
  <2>2. Settled(p) = failed.rollouts_reserved
    BY <1>1, <1>3 DEF Settled, State
  <2>3. CountersFit(p.live, failed.rollouts_reserved)
    BY <1>1, <1>2, <1>3, FitsMore DEF BoundaryFits, State
  <2> QED BY <1>2, <1>3, <2>1, <2>2, <2>3 DEF Account
<1> QED BY <1>4, <1>5 DEF p

------------------------------------------------------------------------------
(* The history of every journal *)

(* There is no history before the first event. *)
LEMMA HistoryInitial == Init => HistoryInv
<1> SUFFICES ASSUME Init, NEW j \in Journals
             PROVE  /\ \A n \in 0..Len(chain[j]) : \A s \in {Replay(j, n)} :
                         Account(s) /\ Inherits(s)
                    /\ Len(chain[j]) = 0
  BY DEF HistoryInv
<1>1. chain[j] = <<>>
  BY DEF Init
<1>2. Inherits(InitialState)
  BY DEF Inherits, InitialState, NoRecovery
<1> QED BY <1>1, <1>2, AccountOfInitialState DEF Replay

(* Every step keeps it. *)
LEMMA HistoryInductive ==
  TypeOK /\ WriterInv /\ ChainInv /\ HistoryInv /\ [Next]_vars => HistoryInv'
<1> SUFFICES ASSUME TypeOK, WriterInv, ChainInv, HistoryInv, [Next]_vars
             PROVE  HistoryInv'
  OBVIOUS
<1>1. \A i \in Journals : Durable(i).failed => chain'[i] = chain[i]
  BY StepAdvances DEF Advances
<1>2. ASSUME NEW i \in Journals, chain'[i] = chain[i]
      PROVE  /\ \A n \in 0..Len(chain[i])' : \A s \in {Replay(i, n)'} :
                  Account(s) /\ Inherits(s)'
             /\ \A b \in 1..Len(chain[i])' : \A a \in 1..b :
                  \A s \in {Replay(i, a)'}, t \in {Replay(i, b)'} : Follows(s, t)
  <2>1. /\ Len(chain[i])' = Len(chain[i])
        /\ \A n : Replay(i, n)' = Replay(i, n)
    BY <1>2 DEF Replay
  <2>2. ASSUME NEW n \in 0..Len(chain[i]), NEW s, s = Replay(i, n)
        PROVE  Account(s) /\ Inherits(s)'
    <3>1. Account(s) /\ Inherits(s)
      BY <2>2 DEF HistoryInv
    <3> QED BY <1>1, <3>1, InheritanceStays
  <2> QED BY <2>1, <2>2 DEF HistoryInv
<1>3. CASE UNCHANGED chain
  BY <1>2, <1>3 DEF HistoryInv
<1>4. ASSUME NEW j \in Journals, NEW p \in State, Published(j, p),
             Event(Durable(j), p) \/ ForkEvent(j, p)
      PROVE  HistoryInv'
  <2> DEFINE d == Durable(j)
  <2>0. PICK l \in Nat : l = Len(chain[j])
    BY DurableType
  <2>1. /\ Len(chain[j])' = l + 1 /\ Durable(j)' = p
        /\ \A n \in 0..l : Replay(j, n)' = Replay(j, n)
        /\ \A i \in Journals \ {j} : chain'[i] = chain[i]
    BY <1>4, <2>0, PublishedChain
  <2>2. Replay(j, l + 1)' = p
    BY <2>1 DEF Durable
  <2>3. l \in Nat /\ d \in State /\ Sound(d) /\ Account(d) /\ Inherits(d) /\ d = Replay(j, l)
    BY <2>0, DurableType DEF ChainInv, HistoryInv, Durable
  <2> HIDE DEF d
  <2>4. Account(p) /\ Inherits(p) /\ Sound(p)
    <3>1. CASE Event(d, p)
      <4>1. Follows(d, p)
        BY <1>4, <2>3, <3>1, FollowsItself, EventFollows
      <4> QED BY <1>4, <2>3, <3>1, <4>1, EventAccount, EventSound, FollowsInherits
    <3>2. CASE ForkEvent(j, p)
      <4>1. PICK i \in Journals : \E c \in 1..Len(chain[i]) :
              RecoveryAccepted(i, c) /\ p = AfterRecovery(i, c)
        BY <3>2 DEF ForkEvent
      <4>2. PICK c \in 1..Len(chain[i]) : RecoveryAccepted(i, c) /\ p = AfterRecovery(i, c)
        BY <4>1
      <4>3. c \in Nat
        BY DurableType
      <4> QED BY <4>2, <4>3, ForkBegins, RecoverySound
    <3> QED BY <1>4, <3>1, <3>2 DEF d
  <2>5. ASSUME NEW n \in 0..l + 1, NEW s, s = Replay(j, n)'
        PROVE  Account(s) /\ Inherits(s)'
    <3>1. Account(s) /\ Inherits(s)
      <4>1. CASE n = l + 1
        BY <2>2, <2>4, <2>5, <4>1
      <4>2. CASE n \in 0..l
        BY <2>0, <2>1, <2>5, <4>2 DEF HistoryInv
      <4> QED BY <2>3, <4>1, <4>2
    <3> QED BY <1>1, <3>1, InheritanceStays
  <2>6. ASSUME NEW b \in 1..l + 1, NEW a \in 1..b,
               NEW s, s = Replay(j, a)', NEW t, t = Replay(j, b)'
        PROVE  Follows(s, t)
    <3>1. CASE b \in 1..l
      <4>1. a \in 0..l /\ b \in 0..l
        BY <2>3, <3>1
      <4> QED BY <2>0, <2>1, <2>6, <3>1, <4>1 DEF HistoryInv
    <3>2. CASE b = l + 1 /\ a = l + 1
      BY <1>4, <2>2, <2>4, <2>6, <3>2, FollowsItself
    <3>3. CASE b = l + 1 /\ a \in 1..l
      <4>1. l \in 1..l /\ a \in 0..l
        BY <2>3, <3>3
      <4>2. s = Replay(j, a) /\ s \in State /\ Sound(s)
        BY <2>0, <2>1, <2>6, <4>1, ReplayType DEF ChainInv
      <4>3. Follows(s, d)
        BY <2>0, <2>3, <3>3, <4>1, <4>2 DEF HistoryInv
      <4>4. Event(d, p)
        BY <1>4, <2>0, <4>1 DEF ForkEvent, d
      <4>5. t = p
        BY <2>2, <2>6, <3>3
      <4> QED BY <1>4, <2>3, <4>2, <4>3, <4>4, <4>5, EventFollows
    <3> QED BY <2>3, <3>1, <3>2, <3>3
  <2>7. ASSUME NEW i \in Journals
        PROVE  /\ \A n \in 0..Len(chain[i])' : \A s \in {Replay(i, n)'} :
                    Account(s) /\ Inherits(s)'
               /\ \A b \in 1..Len(chain[i])' : \A a \in 1..b :
                    \A s \in {Replay(i, a)'}, t \in {Replay(i, b)'} : Follows(s, t)
    <3>1. CASE i = j
      BY <2>1, <2>5, <2>6, <3>1
    <3>2. CASE i # j
      BY <1>2, <2>1, <3>2
    <3> QED BY <3>1, <3>2
  <2> QED BY <2>7 DEF HistoryInv
<1> QED BY <1>3, <1>4, StepPublishes DEF vars

(* What a failed journal loses to a fork, added to what it had lost before, *)
(* fits its reservations: all of it is work it executed or inherited.       *)
LEMMA LossesFit ==
  ASSUME NEW s \in State, NEW t \in State, AtLeast(t.live, s.live),
         NEW r \in Nat, NEW q \in Int, AtLeast(s.live, Zero),
         CountersFit(t.retired, r), CountersFit(TotalConsumption(t), r),
         CountersFit(Minus(t.live, s.live), q)
  PROVE  CountersFit(Plus(t.retired, Minus(t.live, s.live)), r)
<1> DEFINE a == t.retired
           b == Minus(t.live, s.live)
           c == Plus(a, b)
           w == TotalConsumption(t)
<1>1. a \in Counters /\ b \in Counters /\ c \in Counters /\ w \in Counters
  BY MinusType, PlusType DEF State, TotalConsumption
<1>2. AtLeast(w, c)
  BY DEF TotalConsumption, Plus, Minus, AtLeast, State, Counters, Zero
<1>3. /\ c.attempted_transitions = a.attempted_transitions + b.attempted_transitions
      /\ c.returned_transitions = a.returned_transitions + b.returned_transitions
      /\ c.ppo_updates = a.ppo_updates + b.ppo_updates
      /\ c.optimizer_steps = a.optimizer_steps + b.optimizer_steps
  BY DEF Plus
<1> HIDE DEF a, b, c, w
<1>4. CountersFit(a, r) /\ CountersFit(b, q) /\ CountersFit(w, r)
  BY DEF a, b, w
<1>5. c.ppo_updates <= r /\ AtLeast(c, Zero)
  BY <1>1, <1>2, <1>4 DEF CountersFit, AtLeast, Zero, Counters
<1>6. c.attempted_transitions <= r * Size
  <2>1. r * Size \in Nat
    BY BudgetAssumption
  <2> QED BY <1>1, <1>2, <1>4, <2>1 DEF CountersFit, AtLeast, Counters
<1>7. c.returned_transitions <= c.attempted_transitions
  BY <1>1, <1>3, <1>4 DEF CountersFit, Counters
<1>8. \A k \in Nat : /\ a.ppo_updates * k \in Nat /\ b.ppo_updates * k \in Nat
                     /\ c.ppo_updates * k = a.ppo_updates * k + b.ppo_updates * k
  <2>1. \A x \in Nat, y \in Nat, k \in Nat :
          x * k \in Nat /\ y * k \in Nat /\ (x + y) * k = x * k + y * k
    BY Z3
  <2>2. a.ppo_updates \in Nat /\ b.ppo_updates \in Nat
    BY <1>1 DEF Counters
  <2> QED BY <1>3, <2>1, <2>2
<1>9. /\ a.ppo_updates * Size \in Nat /\ b.ppo_updates * Size \in Nat
      /\ c.ppo_updates * Size = a.ppo_updates * Size + b.ppo_updates * Size
      /\ a.ppo_updates * StepLimit \in Nat /\ b.ppo_updates * StepLimit \in Nat
      /\ c.ppo_updates * StepLimit = a.ppo_updates * StepLimit + b.ppo_updates * StepLimit
  BY <1>8, BudgetAssumption
<1>10. c.ppo_updates * Size <= c.returned_transitions
  BY <1>1, <1>3, <1>4, <1>9 DEF CountersFit, Counters
<1>11. c.optimizer_steps <= c.ppo_updates * StepLimit
  BY <1>1, <1>3, <1>4, <1>9 DEF CountersFit, Counters
<1> QED BY <1>5, <1>6, <1>7, <1>10, <1>11 DEF CountersFit, a, b, c

(* A failed journal can be forked from wherever the depth limit allows it:  *)
(* the rules of _recovery_retired accept every clean point with a completed *)
(* update, for every budget, number of stages and length of lineage.        *)
THEOREM FailuresAreRecoverable == Spec => []EveryFailureIsRecoverable
<1>1. TypeOK /\ ChainInv /\ HistoryInv => EveryFailureIsRecoverable
  <2> SUFFICES ASSUME TypeOK, ChainInv, HistoryInv, NEW j \in Journals,
                      NEW c \in 1..(Len(chain[j]) - 1),
                      Len(chain[j]) <= EventLimit,
                      Durable(j).failed, Clean(Replay(j, c)),
                      Replay(j, c).live.ppo_updates > 0,
                      Durable(j).recovery.depth < MaxDepth
               PROVE  RecoveryAccepted(j, c)
    BY DEF EveryFailureIsRecoverable
  <2> DEFINE s == Replay(j, c)
             t == Durable(j)
             lost == Minus(t.live, s.live)
  <2>1. /\ Len(chain[j]) \in Nat /\ c \in 0..Len(chain[j])
        /\ c \in 1..Len(chain[j]) /\ Len(chain[j]) \in 1..Len(chain[j])
        /\ c \in 1..(Len(chain[j]) - 1)
    BY DurableType
  <2>2. s \in State /\ t \in State /\ Sound(s) /\ Sound(t)
    BY <2>1, ReplayType, DurableType DEF ChainInv, Durable
  <2>3. /\ Account(s) /\ Account(t) /\ Inherits(s) /\ Inherits(t) /\ Follows(s, t)
    BY <2>1 DEF HistoryInv, Durable
  <2>4. Clean(s) /\ t.failed /\ s.live.ppo_updates > 0 /\ t.recovery.depth < MaxDepth
    OBVIOUS
  <2> HIDE DEF s, t
  <2>5. s.pending = 0 /\ t.pending = 0
    BY <2>2, <2>4 DEF Clean, Sound
  <2>6. Settled(s) = s.rollouts_reserved /\ Settled(t) = t.rollouts_reserved
    BY <2>2, <2>5 DEF Settled, State
  <2>7. BoundaryFits(s, c) /\ BoundaryFits(t, Len(chain[j]))
    <3>1. c <= EventLimit
      BY <2>1, BudgetAssumption
    <3> QED BY <2>2, <2>3, <2>5, <2>6, <3>1 DEF BoundaryFits, Account, Sound
  <2>8. /\ t.recovery = s.recovery /\ t.retired = s.retired
        /\ AtLeast(t.live, s.live) /\ StagesAtLeast(t, s)
        /\ s.active_elapsed_s <= t.active_elapsed_s
        /\ s.rollouts_reserved < t.rollouts_reserved
        /\ CountersFit(lost, t.rollouts_reserved - s.rollouts_reserved)
    BY <2>2, <2>3, <2>4, <2>6 DEF Follows, State
  <2>9. /\ 0 < s.live.ppo_updates /\ s.live.ppo_updates <= s.rollouts_reserved
        /\ s.recovery.depth < MaxDepth
    BY <2>2, <2>3, <2>4, <2>6, <2>8 DEF Account, CountersFit, State, Counters
  <2>10. KeepsInheritance(s) /\ KeepsInheritance(t)
    BY <2>3 DEF Inherits, KeepsInheritance
  <2>11. CountersFit(Plus(t.retired, lost), t.rollouts_reserved)
    <3>1. /\ t.rollouts_reserved \in Nat
          /\ t.rollouts_reserved - s.rollouts_reserved \in Int
      BY <2>2 DEF State
    <3>2. /\ AtLeast(s.live, Zero) /\ CountersFit(t.retired, t.rollouts_reserved)
          /\ CountersFit(TotalConsumption(t), t.rollouts_reserved)
      BY <2>7 DEF BoundaryFits, CountersFit
    <3> QED BY <2>2, <2>8, <3>1, <3>2, LossesFit
  <2>12. RecoveryAccepted(j, c)
    BY <2>1, <2>4, <2>7, <2>8, <2>9, <2>10, <2>11 DEF RecoveryAccepted, s, t
  <2> QED BY <2>12
<1> QED
  <2>1. Init => ChainInv
    BY SoundInitialState DEF Init, ChainInv, Replay
  <2>2. TypeOK /\ WriterInv /\ [Next]_vars => WriterInv'
    BY WriterInductive
  <2>3. TypeOK /\ WriterInv /\ ChainInv /\ [Next]_vars => ChainInv'
    BY ChainInductive
  <2> QED BY <1>1, <2>1, <2>2, <2>3, HistoryInitial, HistoryInductive,
             WriterInitial, TypeCorrect, PTL DEF Spec

------------------------------------------------------------------------------
(* The curriculum schedule *)

(* A run of one pass ends with a passing decision about the current stage.  *)
LastPassed(b) ==
  b.consecutive_passes = 1 =>
    /\ b.promotion = "audited"
    /\ Len(b.decisions) > 0
    /\ b.decisions[Len(b.decisions)].stage = b.stage
    /\ b.decisions[Len(b.decisions)].passed

SoundSchedule(b) == b \in Schedules /\ Earned(b) /\ LastPassed(b)

(* Facts about the constants, and the limit of a stage that is not last.   *)
LEMMA Constants ==
  /\ LastStage \in Nat /\ LastStage > 0
  /\ \A s \in StageNumbers : StageBudgets[s] \in Nat /\ StageBudgets[s] > 0
  BY StageBudgetsAssumption DEF LastStage, StageNumbers

(* A fresh schedule is sound. *)
LEMMA FreshIsSound ==
  ASSUME NEW promotion \in Promotions
  PROVE  SoundSchedule(Fresh(promotion))
<1>1. Fresh(promotion) \in Schedules
  BY Constants DEF Fresh, Schedules, Statuses, StageNumbers, LastStage
<1> QED
  BY <1>1, Constants DEF Fresh, SoundSchedule, Earned, LastPassed, StageNumbers, LastStage

(* Preparing a rollout keeps the schedule sound. *)
LEMMA PreparedIsSound ==
  ASSUME NEW b, SoundSchedule(b)
  PROVE  SoundSchedule(Prepared(b))
<1>1. CASE Prepared(b) = b
  BY <1>1
<1>2. CASE Prepared(b) # b
  <2>1. /\ b.promotion = "exposure" /\ b.stage < LastStage
        /\ b.consumed[b.stage] = StageLimit(b)
        /\ Prepared(b) = [b EXCEPT !.stage = b.stage + 1]
    BY <1>2 DEF Prepared
  <2>2. b \in Schedules /\ Earned(b) /\ LastPassed(b)
    BY DEF SoundSchedule
  <2>3. b.stage \in 1..LastStage /\ b.stage + 1 \in StageNumbers
    BY <2>1, <2>2, Constants DEF Schedules, StageNumbers, LastStage
  <2>4. Prepared(b) \in Schedules
    BY <2>1, <2>2, <2>3 DEF Schedules
  <2> DEFINE p == Prepared(b)
  <2>5. /\ p.stage = b.stage + 1 /\ p.consumed = b.consumed
        /\ p.decisions = b.decisions /\ p.consecutive_passes = b.consecutive_passes
        /\ p.promotion = b.promotion
    BY <2>1, <2>2 DEF Schedules
  <2> HIDE DEF p
  <2>6. StageLimit(b) = StageBudgets[b.stage]
    BY <2>1, <2>3, Constants DEF StageLimit, StageNumbers, LastStage
  <2>7. Earned(p)
    <3>1. ASSUME NEW s \in 1..p.stage - 1 PROVE p.consumed[s] = StageBudgets[s]
      BY <2>1, <2>2, <2>3, <2>5, <2>6 DEF Earned
    <3>2. ASSUME NEW s \in p.stage + 1..LastStage PROVE p.consumed[s] = 0
      BY <2>2, <2>3, <2>5, Constants DEF Earned, LastStage
    <3> QED BY <2>1, <2>2, <2>5, <3>1, <3>2 DEF Earned
  <2>8. LastPassed(p)
    BY <2>1, <2>2, <2>5 DEF LastPassed
  <2> QED BY <2>4, <2>7, <2>8 DEF SoundSchedule, p
<1> QED BY <1>1, <1>2

(* So does charging one. *)
LEMMA ChargedIsSound ==
  ASSUME NEW b, SoundSchedule(b), ChargeAccepted(b)
  PROVE  SoundSchedule(ChargedRollout(b))
<1> DEFINE p == Prepared(b)
           consumed == SpentOne(p.consumed, p.stage)
           spent == [p EXCEPT !.consumed = consumed]
           c == ChargedRollout(b)
<1>1. p \in Schedules /\ Earned(p) /\ LastPassed(p)
  BY PreparedIsSound DEF SoundSchedule
<1>2. p.consumed[p.stage] < StageLimit(p)
  BY DEF ChargeAccepted
<1>3. c = [spent EXCEPT !.status = StatusAfterCharge(spent)]
  BY DEF ChargedRollout
<1> HIDE DEF p, c
<1>4. p.stage \in StageNumbers /\ p.consumed \in [StageNumbers -> Nat] /\ p.status \in Statuses
  BY <1>1 DEF Schedules
<1>5. /\ consumed \in [StageNumbers -> Nat]
      /\ consumed[p.stage] = p.consumed[p.stage] + 1
      /\ \A s \in StageNumbers : s # p.stage => consumed[s] = p.consumed[s]
  BY <1>4 DEF SpentOne
<1> HIDE DEF consumed
<1>6. /\ spent \in Schedules
      /\ spent.stage = p.stage /\ spent.consumed = consumed
      /\ spent.decisions = p.decisions /\ spent.consecutive_passes = p.consecutive_passes
      /\ spent.promotion = p.promotion
  BY <1>1, <1>5 DEF Schedules
<1> HIDE DEF spent
<1>7. StatusAfterCharge(spent) \in Statuses
  BY <1>6 DEF StatusAfterCharge, Statuses, Schedules
<1>8. c \in Schedules
  BY <1>3, <1>6, <1>7 DEF Schedules
<1>9. /\ c.stage = p.stage /\ c.consumed = consumed
      /\ c.decisions = p.decisions /\ c.consecutive_passes = p.consecutive_passes
      /\ c.promotion = p.promotion
  BY <1>3, <1>6 DEF Schedules
<1>10. Earned(c)
  <2>1. ASSUME NEW s \in 1..c.stage - 1
        PROVE  /\ c.consumed[s] = p.consumed[s]
               /\ LeftOnTwoPasses(p, s) => LeftOnTwoPasses(c, s)
    <3>1. s \in StageNumbers /\ s # p.stage
      BY <1>4, <1>9, Constants DEF StageNumbers, LastStage
    <3>2. c.consumed[s] = p.consumed[s]
      BY <1>5, <1>9, <3>1
    <3>3. LeftOnTwoPasses(p, s) => LeftOnTwoPasses(c, s)
      BY <1>9 DEF LeftOnTwoPasses
    <3> QED BY <3>2, <3>3
  <2>2. ASSUME NEW s \in c.stage + 1..LastStage PROVE c.consumed[s] = 0
    <3>1. s \in StageNumbers /\ s # p.stage /\ s \in p.stage + 1..LastStage
      BY <1>4, <1>9, Constants DEF StageNumbers, LastStage
    <3>2. p.consumed[s] = 0
      BY <1>1, <3>1 DEF Earned
    <3> QED BY <1>5, <1>9, <3>1, <3>2
  <2>3. ASSUME NEW s \in 1..LastStage - 1 PROVE c.consumed[s] <= StageBudgets[s]
    <3>1. s \in StageNumbers /\ s # LastStage
      BY Constants DEF StageNumbers, LastStage
    <3>2. CASE s = p.stage
      BY <1>2, <1>4, <1>5, <1>9, <3>1, <3>2, Constants DEF StageLimit
    <3>3. CASE s # p.stage
      BY <1>1, <1>5, <1>9, <3>1, <3>3 DEF Earned
    <3> QED BY <3>2, <3>3
  <2>4. ASSUME NEW s \in 1..c.stage - 1
        PROVE  IF c.promotion = "exposure" THEN c.consumed[s] = StageBudgets[s]
               ELSE LeftOnTwoPasses(c, s) /\ 4 * c.consumed[s] >= StageBudgets[s]
    BY <1>1, <1>9, <2>1 DEF Earned
  <2> QED BY <2>2, <2>3, <2>4 DEF Earned
<1>11. LastPassed(c)
  BY <1>1, <1>9 DEF LastPassed
<1> QED BY <1>8, <1>10, <1>11 DEF SoundSchedule, c
(* The schedule between recording a decision and judging the run of passes. *)
Recorded == [promotion : Promotions, stage : StageNumbers, consumed : [StageNumbers -> Nat],
             transferred_to_consolidation : Nat, decisions : Seq(Decision),
             consecutive_passes : Nat, status : Statuses]

(* Recording a decision keeps every pair of passes already recorded. *)
LEMMA PassesStayRecorded ==
  ASSUME NEW b, NEW c, NEW d, NEW s,
         b.decisions \in Seq(Decision), c.decisions = Append(b.decisions, d),
         LeftOnTwoPasses(b, s)
  PROVE  LeftOnTwoPasses(c, s)
<1>1. PICK i \in 2..Len(b.decisions) :
        /\ b.decisions[i - 1].stage = s /\ b.decisions[i].stage = s
        /\ b.decisions[i - 1].passed /\ b.decisions[i].passed
        /\ b.decisions[i - 1].update # b.decisions[i].update
        /\ b.decisions[i - 1].checkpoint # b.decisions[i].checkpoint
  BY DEF LeftOnTwoPasses
<1>2. /\ Len(c.decisions) = Len(b.decisions) + 1
      /\ c.decisions[i - 1] = b.decisions[i - 1]
      /\ c.decisions[i] = b.decisions[i]
  BY <1>1
<1>3. i \in 2..Len(c.decisions)
  BY <1>1, <1>2
<1> QED BY <1>1, <1>2, <1>3 DEF LeftOnTwoPasses

(* A decision keeps the schedule sound; the second pass earns the stage. *)
LEMMA DecidedIsSound ==
  ASSUME NEW b, SoundSchedule(b), NEW d \in Decision, DecisionAccepted(b, d)
  PROVE  SoundSchedule(Decided(b, d))
<1> DEFINE r == [b EXCEPT !.decisions = Append(b.decisions, d),
                          !.consecutive_passes = PassesAfter(b, d)]
           n == Len(b.decisions)
           c == Decided(b, d)
<1>1. b \in Schedules /\ Earned(b) /\ LastPassed(b)
  BY DEF SoundSchedule
<1>2. /\ b.promotion = "audited" /\ b.stage # LastStage /\ d.stage = b.stage
      /\ 4 * b.consumed[b.stage] >= StageBudgets[b.stage]
  BY DEF DecisionAccepted
<1>3. /\ b.stage \in 1..LastStage - 1 /\ b.stage \in StageNumbers /\ b.stage + 1 \in StageNumbers
      /\ b.consumed \in [StageNumbers -> Nat] /\ b.decisions \in Seq(Decision)
      /\ b.consecutive_passes \in {0, 1} /\ b.transferred_to_consolidation \in Nat
  BY <1>1, <1>2, Constants DEF Schedules, StageNumbers, LastStage
<1>4. PassesAfter(b, d) \in {0, 1, 2}
  BY <1>3 DEF PassesAfter
<1>5. /\ r \in Recorded
      /\ r.stage = b.stage /\ r.consumed = b.consumed /\ r.status = b.status
      /\ r.decisions = Append(b.decisions, d)
      /\ r.consecutive_passes = PassesAfter(b, d)
      /\ r.transferred_to_consolidation = b.transferred_to_consolidation
      /\ r.promotion = b.promotion
  <2>1. Append(b.decisions, d) \in Seq(Decision) /\ PassesAfter(b, d) \in Nat
    BY <1>3, <1>4
  <2> QED BY <1>1, <2>1 DEF Schedules, Recorded
<1>6. c = IF r.consecutive_passes >= 2 THEN Promoted(r)
          ELSE IF \/ Cardinality(Previous(b)) + 1 = 4
                  \/ b.status = "stage_budget_complete_validation_pending"
               THEN [r EXCEPT !.status = "failed_qualification"]
               ELSE r
  BY DEF Decided
<1>7. r.decisions \in Seq(Decision) /\ Len(r.decisions) = n + 1 /\ r.decisions[n + 1] = d
      /\ \A i \in 1..n : r.decisions[i] = b.decisions[i]
  BY <1>3, <1>5
<1> HIDE DEF r, c
<1>8. \A s : LeftOnTwoPasses(b, s) => LeftOnTwoPasses(r, s)
  BY <1>3, <1>5, PassesStayRecorded
<1>9. CASE r.consecutive_passes >= 2
  <2>1. d.passed /\ b.consecutive_passes = 1
    BY <1>3, <1>5, <1>9 DEF PassesAfter
  <2>2. n > 0 /\ n \in Nat /\ b.decisions[n].stage = b.stage /\ b.decisions[n].passed
    BY <1>1, <1>3, <2>1 DEF LastPassed
  <2>3. n \in Previous(b)
    BY <1>3, <2>2 DEF Previous
  <2>4. b.decisions[n].update # d.update /\ b.decisions[n].checkpoint # d.checkpoint
    BY <2>3 DEF DecisionAccepted
  <2>5. LeftOnTwoPasses(r, b.stage)
    <3>1. n + 1 \in 2..Len(r.decisions) /\ n + 1 - 1 = n
      BY <1>7, <2>2
    <3>2. r.decisions[n] = b.decisions[n]
      BY <1>7, <2>2
    <3>3. /\ r.decisions[n].stage = b.stage /\ r.decisions[n + 1].stage = b.stage
          /\ r.decisions[n].passed /\ r.decisions[n + 1].passed
          /\ r.decisions[n].update # r.decisions[n + 1].update
          /\ r.decisions[n].checkpoint # r.decisions[n + 1].checkpoint
      BY <1>2, <1>7, <2>1, <2>2, <2>4, <3>2
    <3>4. PICK i : i = n + 1
      OBVIOUS
    <3>5. i \in 2..Len(r.decisions) /\ i - 1 = n
      BY <3>1, <3>4
    <3>6. /\ r.decisions[i - 1].stage = b.stage /\ r.decisions[i].stage = b.stage
          /\ r.decisions[i - 1].passed /\ r.decisions[i].passed
          /\ r.decisions[i - 1].update # r.decisions[i].update
          /\ r.decisions[i - 1].checkpoint # r.decisions[i].checkpoint
      BY <3>3, <3>4, <3>5
    <3> QED BY <3>5, <3>6 DEF LeftOnTwoPasses
  <2>7. b.consumed[b.stage] <= StageBudgets[b.stage]
    BY <1>1, <1>3 DEF Earned
  <2>8. b.transferred_to_consolidation + StageBudgets[b.stage] - b.consumed[b.stage] \in Nat
    BY <1>3, <2>7, Constants
  <2>9. /\ c \in Schedules
        /\ c.stage = r.stage + 1 /\ c.consumed = r.consumed
        /\ c.decisions = r.decisions /\ c.consecutive_passes = 0
        /\ c.promotion = r.promotion
    <3> DEFINE t == b.transferred_to_consolidation + StageBudgets[b.stage] - b.consumed[b.stage]
    <3>1. c = [r EXCEPT !.transferred_to_consolidation = t, !.stage = r.stage + 1,
                        !.consecutive_passes = 0, !.status = "running"]
      BY <1>5, <1>6, <1>9 DEF Promoted
    <3>2. t \in Nat
      BY <2>8
    <3> HIDE DEF t
    <3> QED BY <1>3, <1>5, <3>1, <3>2 DEF Recorded, Schedules, Statuses
  <2>10. Earned(c)
    <3>1. ASSUME NEW s \in 1..c.stage - 1
          PROVE  LeftOnTwoPasses(c, s) /\ 4 * c.consumed[s] >= StageBudgets[s]
      <4>1. LeftOnTwoPasses(r, s) => LeftOnTwoPasses(c, s)
        BY <2>9 DEF LeftOnTwoPasses
      <4>2. CASE s = b.stage
        BY <1>2, <1>5, <2>5, <2>9, <4>1, <4>2
      <4>3. CASE s # b.stage
        <5>1. s \in 1..b.stage - 1
          BY <1>3, <1>5, <2>9, <4>3
        <5>2. LeftOnTwoPasses(b, s) /\ 4 * b.consumed[s] >= StageBudgets[s]
          BY <1>1, <1>2, <5>1 DEF Earned
        <5> QED BY <1>5, <1>8, <2>9, <4>1, <5>2
      <4> QED BY <4>2, <4>3
    <3>2. ASSUME NEW s \in c.stage + 1..LastStage PROVE c.consumed[s] = 0
      BY <1>1, <1>3, <1>5, <2>9, Constants DEF Earned, LastStage
    <3>3. ASSUME NEW s \in 1..LastStage - 1 PROVE c.consumed[s] <= StageBudgets[s]
      BY <1>1, <1>5, <2>9 DEF Earned
    <3> QED BY <1>2, <1>5, <2>9, <3>1, <3>2, <3>3 DEF Earned
  <2>11. LastPassed(c)
    BY <2>9 DEF LastPassed
  <2> QED BY <2>9, <2>10, <2>11 DEF SoundSchedule, c
<1>10. CASE ~(r.consecutive_passes >= 2)
  <2>1. /\ c.stage = r.stage /\ c.consumed = r.consumed /\ c.decisions = r.decisions
        /\ c.consecutive_passes = r.consecutive_passes /\ c.promotion = r.promotion
        /\ c \in Recorded
    BY <1>5, <1>6, <1>10 DEF Recorded, Statuses
  <2>2. c.consecutive_passes \in {0, 1}
    BY <1>4, <1>5, <1>10, <2>1
  <2>3. c \in Schedules
    BY <2>1, <2>2 DEF Schedules, Recorded
  <2>4. Earned(c)
    <3>1. ASSUME NEW s \in 1..c.stage - 1
          PROVE  LeftOnTwoPasses(c, s) /\ 4 * c.consumed[s] >= StageBudgets[s]
      <4>1. LeftOnTwoPasses(b, s) /\ 4 * b.consumed[s] >= StageBudgets[s]
        BY <1>1, <1>2, <1>5, <2>1 DEF Earned
      <4>2. LeftOnTwoPasses(r, s) => LeftOnTwoPasses(c, s)
        BY <2>1 DEF LeftOnTwoPasses
      <4> QED BY <1>5, <1>8, <2>1, <4>1, <4>2
    <3>2. ASSUME NEW s \in c.stage + 1..LastStage PROVE c.consumed[s] = 0
      BY <1>1, <1>5, <2>1 DEF Earned
    <3>3. ASSUME NEW s \in 1..LastStage - 1 PROVE c.consumed[s] <= StageBudgets[s]
      BY <1>1, <1>5, <2>1 DEF Earned
    <3> QED BY <1>2, <1>5, <2>1, <3>1, <3>2, <3>3 DEF Earned
  <2>5. LastPassed(c)
    <3>1. c.consecutive_passes = 1 => d.passed
      BY <1>3, <1>5, <2>1 DEF PassesAfter
    <3>2. n \in Nat
      BY <1>3
    <3> QED BY <1>2, <1>5, <1>7, <2>1, <3>1, <3>2 DEF LastPassed
  <2> QED BY <2>3, <2>4, <2>5 DEF SoundSchedule, c
<1> QED BY <1>9, <1>10

------------------------------------------------------------------------------
(* What the totals are *)

(* The totals are sums over the stages. *)
LEMMA TotalsAreSums ==
  ASSUME NEW b \in Schedules
  PROVE  /\ TotalUpdates(b) = SumOver(b.consumed, StageNumbers)
         /\ TotalBudget = SumOver(StageBudgets, StageNumbers)
         /\ IsFiniteSet(StageNumbers)
<1>1. DOMAIN b.consumed = StageNumbers /\ DOMAIN StageBudgets = StageNumbers
  BY StageBudgetsAssumption DEF Schedules, StageNumbers
<1>2. IsFiniteSet(StageNumbers)
  BY StageBudgetsAssumption, FS_Interval DEF StageNumbers
<1> QED
  BY <1>1, <1>2 DEF TotalUpdates, TotalBudget, Sums!SumFunction, SumOver

(* They are numbers. *)
LEMMA TotalsType ==
  ASSUME NEW b \in Schedules
  PROVE  TotalUpdates(b) \in Nat /\ TotalBudget \in Nat
<1> DEFINE zero == [s \in StageNumbers |-> 0]
<1>1. \A s \in StageNumbers : /\ zero[s] = 0 /\ b.consumed[s] \in Nat
                              /\ StageBudgets[s] \in Nat
  BY Constants DEF Schedules
<1>2. IsFiniteSet(StageNumbers)
  BY TotalsAreSums
<1> HIDE DEF zero
<1>3. \A s \in StageNumbers : /\ zero[s] \in Int /\ b.consumed[s] \in Int
                              /\ StageBudgets[s] \in Int
                              /\ zero[s] <= b.consumed[s] /\ zero[s] <= StageBudgets[s]
  BY <1>1
<1>4. /\ SumOver(zero, StageNumbers) \in Int
      /\ SumOver(b.consumed, StageNumbers) \in Int
      /\ SumOver(StageBudgets, StageNumbers) \in Int
  BY <1>2, <1>3, SumRemove
<1>5. /\ SumOver(zero, StageNumbers) <= SumOver(b.consumed, StageNumbers)
      /\ SumOver(zero, StageNumbers) <= SumOver(StageBudgets, StageNumbers)
  BY <1>2, <1>3, SumMonotone
<1>6. SumOver(zero, StageNumbers) = 0
  BY <1>1, <1>2, SumOfZeros
<1> QED BY <1>4, <1>5, <1>6, TotalsAreSums

(* What every stage has not spent. *)
Unspent(b) == [s \in StageNumbers |-> StageBudgets[s] - b.consumed[s]]

Complete == {"training_budget_complete", "training_budget_complete_evaluation_pending"}

(* What the stages left behind did not spend is what the last one gained,   *)
(* which is not overspent, and the status says when everything is spent.    *)
Conserving(b) ==
  /\ b.transferred_to_consolidation = SumOver(Unspent(b), 1..b.stage - 1)
  /\ b.consumed[LastStage] <= StageBudgets[LastStage] + b.transferred_to_consolidation
  /\ b.status \in Complete <=> TotalUpdates(b) = TotalBudget

(* The parts of the stages that sums range over. *)
LEMMA Unspents ==
  ASSUME NEW b \in Schedules
  PROVE  /\ \A s \in StageNumbers : /\ Unspent(b)[s] \in Int
                                    /\ Unspent(b)[s] = StageBudgets[s] - b.consumed[s]
                                    /\ b.consumed[s] \in Int /\ StageBudgets[s] \in Int
         /\ \A k \in 0..LastStage : 1..k \subseteq StageNumbers /\ IsFiniteSet(1..k)
         /\ b.stage \in 1..LastStage /\ LastStage \in StageNumbers
         /\ StageNumbers = 1..LastStage
         /\ TotalBudget = TotalUpdates(b) + SumOver(Unspent(b), StageNumbers)
<1>1. \A s \in StageNumbers : /\ Unspent(b)[s] \in Int
                              /\ Unspent(b)[s] = StageBudgets[s] - b.consumed[s]
                              /\ b.consumed[s] \in Int /\ StageBudgets[s] \in Int
  BY Constants DEF Schedules, Unspent
<1>2. StageNumbers = 1..LastStage /\ LastStage \in StageNumbers
  BY Constants DEF StageNumbers, LastStage
<1>3. \A k \in 0..LastStage : 1..k \subseteq StageNumbers /\ IsFiniteSet(1..k)
  BY <1>2, Constants, FS_Interval
<1>4. b.stage \in 1..LastStage
  BY <1>2 DEF Schedules
<1>5. TotalBudget = TotalUpdates(b) + SumOver(Unspent(b), StageNumbers)
  <2>1. \A s \in StageNumbers : /\ b.consumed[s] \in Int /\ Unspent(b)[s] \in Int
                                /\ StageBudgets[s] = b.consumed[s] + Unspent(b)[s]
    BY <1>1
  <2>2. IsFiniteSet(StageNumbers)
    BY TotalsAreSums
  <2>3. SumOver(StageBudgets, StageNumbers)
          = SumOver(b.consumed, StageNumbers) + SumOver(Unspent(b), StageNumbers)
    BY <2>1, <2>2, SumPlus
  <2> QED BY <2>3, TotalsAreSums
<1> QED BY <1>1, <1>2, <1>3, <1>4, <1>5

(* What is left of the budget: in the last stage what the stage may still   *)
(* spend, before it something.                                              *)
LEMMA Remaining ==
  ASSUME NEW b \in Schedules, Earned(b),
         b.transferred_to_consolidation = SumOver(Unspent(b), 1..b.stage - 1)
  PROVE  /\ b.stage = LastStage =>
              TotalBudget - TotalUpdates(b) = StageLimit(b) - b.consumed[LastStage]
         /\ b.stage # LastStage => TotalUpdates(b) < TotalBudget
<1> DEFINE left == SumOver(Unspent(b), StageNumbers)
           before == SumOver(Unspent(b), 1..LastStage - 1)
<1>1. LastStage - 1 \in 0..LastStage /\ LastStage \in Nat
  BY Constants
<1>2. left = Unspent(b)[LastStage] + before /\ left \in Int /\ before \in Int
  <2>1. IsFiniteSet(StageNumbers) /\ IsFiniteSet(1..LastStage - 1)
    BY <1>1, Unspents, TotalsAreSums
  <2>2. StageNumbers \ {LastStage} = 1..LastStage - 1
    BY <1>1, Unspents
  <2>3. /\ left \in Int
        /\ left = Unspent(b)[LastStage] + SumOver(Unspent(b), StageNumbers \ {LastStage})
    <3>1. (\A s \in StageNumbers : Unspent(b)[s] \in Int) /\ LastStage \in StageNumbers
      BY Unspents
    <3> QED BY <2>1, <3>1, SumRemove
  <2>4. before \in Int
    <3>1. \A s \in 1..LastStage - 1 : Unspent(b)[s] \in Int
      BY <1>1, Unspents
    <3> QED BY <2>1, <3>1, SumRemove
  <2> QED BY <2>2, <2>3, <2>4
<1>3. /\ Unspent(b)[LastStage] = StageBudgets[LastStage] - b.consumed[LastStage]
      /\ StageBudgets[LastStage] \in Nat /\ StageBudgets[LastStage] > 0
      /\ b.consumed[LastStage] \in Nat
  BY Unspents, Constants DEF Schedules
<1>4. TotalBudget = TotalUpdates(b) + left /\ TotalUpdates(b) \in Nat
  BY Unspents, TotalsType
<1>5. b.transferred_to_consolidation \in Nat /\ b.stage \in 1..LastStage
  BY Unspents DEF Schedules
<1>6. before >= 0
  <2> DEFINE zero == [s \in StageNumbers |-> 0]
  <2>1. 1..LastStage - 1 \subseteq StageNumbers /\ IsFiniteSet(1..LastStage - 1)
    BY <1>1, Unspents
  <2>2. \A s \in 1..LastStage - 1 : /\ zero[s] = 0 /\ Unspent(b)[s] \in Int
                                    /\ Unspent(b)[s] >= 0
    <3>1. \A s \in 1..LastStage - 1 : b.consumed[s] <= StageBudgets[s]
      BY DEF Earned
    <3> QED BY <2>1, <3>1, Unspents
  <2> HIDE DEF zero
  <2>3. SumOver(zero, 1..LastStage - 1) = 0
    BY <2>1, <2>2, SumOfZeros
  <2>4. \A s \in 1..LastStage - 1 : /\ zero[s] \in Int /\ Unspent(b)[s] \in Int
                                    /\ zero[s] <= Unspent(b)[s]
    BY <2>2
  <2>5. SumOver(zero, 1..LastStage - 1) <= before
    BY <2>1, <2>4, SumMonotone
  <2> QED BY <2>3, <2>5
<1> HIDE DEF left, before
<1>7. CASE b.stage = LastStage
  <2>1. before = b.transferred_to_consolidation
    BY <1>7 DEF before
  <2>2. StageLimit(b) = StageBudgets[LastStage] + b.transferred_to_consolidation
    BY <1>7 DEF StageLimit
  <2> QED BY <1>2, <1>3, <1>4, <1>5, <1>7, <2>1, <2>2
<1>8. CASE b.stage # LastStage
  <2>1. b.consumed[LastStage] = 0
    BY <1>1, <1>5, <1>8 DEF Earned
  <2> QED BY <1>2, <1>3, <1>4, <1>6, <1>8, <2>1
<1> QED BY <1>7, <1>8

(* The stages up to the current one are those before it and itself. *)
LEMMA UpToCurrent ==
  ASSUME NEW b \in Schedules
  PROVE  SumOver(Unspent(b), 1..b.stage)
           = Unspent(b)[b.stage] + SumOver(Unspent(b), 1..b.stage - 1)
<1>1. b.stage \in 1..b.stage /\ (1..b.stage) \ {b.stage} = 1..b.stage - 1
  BY Unspents
<1>2. IsFiniteSet(1..b.stage) /\ \A s \in 1..b.stage : Unspent(b)[s] \in Int
  <2>1. b.stage \in 0..LastStage
    BY Unspents, Constants
  <2>2. 1..b.stage \subseteq StageNumbers /\ IsFiniteSet(1..b.stage)
    BY <2>1, Unspents
  <2> QED BY <2>2, Unspents
<1>3. SumOver(Unspent(b), 1..b.stage)
        = Unspent(b)[b.stage] + SumOver(Unspent(b), (1..b.stage) \ {b.stage})
  <2> DEFINE f == Unspent(b)
             S == 1..b.stage
  <2> SUFFICES SumOver(f, S) = f[b.stage] + SumOver(f, S \ {b.stage})
    OBVIOUS
  <2>1. b.stage \in S /\ IsFiniteSet(S) /\ \A s \in S : f[s] \in Int
    BY <1>1, <1>2
  <2> HIDE DEF f, S
  <2> QED BY <2>1, SumRemove
<1> QED BY <1>1, <1>3

(* A fresh schedule has everything left. *)
LEMMA FreshConserves ==
  ASSUME NEW promotion \in Promotions
  PROVE  Conserving(Fresh(promotion))
<1> DEFINE b == Fresh(promotion)
<1>1. SoundSchedule(b)
  BY FreshIsSound
<1>2. /\ b.stage = 1 /\ b.transferred_to_consolidation = 0 /\ b.status = "running"
      /\ \A s \in StageNumbers : b.consumed[s] = 0
  BY DEF Fresh
<1> HIDE DEF b
<1>3. b \in Schedules
  BY <1>1 DEF SoundSchedule
<1>4. SumOver(Unspent(b), 1..b.stage - 1) = 0
  <2>1. IsFiniteSet({}) /\ 1..b.stage - 1 = {}
    BY <1>2, FS_EmptySet
  <2> QED BY <2>1, SumRemove
<1>5. TotalUpdates(b) = 0
  BY <1>2, <1>3, TotalsAreSums, SumOfZeros
<1>6. TotalUpdates(b) # TotalBudget
  <2>1. b.consumed[LastStage] = 0 /\ StageBudgets[LastStage] > 0 /\ StageBudgets[LastStage] \in Nat
    BY <1>2, <1>3, Unspents, Constants
  <2>2. /\ TotalBudget - TotalUpdates(b) = StageLimit(b) - b.consumed[LastStage]
           \/ TotalUpdates(b) < TotalBudget
    BY <1>1, <1>2, <1>3, <1>4, Remaining DEF SoundSchedule
  <2>3. TotalUpdates(b) \in Nat /\ TotalBudget \in Nat
    BY <1>3, TotalsType
  <2>4. CASE b.stage = LastStage
    <3>1. TotalBudget - TotalUpdates(b) = StageLimit(b) - b.consumed[LastStage]
      BY <1>1, <1>2, <1>3, <1>4, <2>4, Remaining DEF SoundSchedule
    <3> QED BY <1>2, <2>1, <2>3, <2>4, <3>1 DEF StageLimit
  <2>5. CASE b.stage # LastStage
    BY <1>1, <1>2, <1>3, <1>4, <2>3, <2>5, Remaining DEF SoundSchedule
  <2> QED BY <2>4, <2>5
<1>7. b.consumed[LastStage] <= StageBudgets[LastStage] + b.transferred_to_consolidation
  BY <1>2, <1>3, Unspents, Constants
<1>8. Conserving(b)
  BY <1>2, <1>4, <1>6, <1>7 DEF Conserving, Complete
<1> QED BY <1>8 DEF b

(* A stage left for the next one under exposure leaves nothing behind. *)
LEMMA PreparedConserves ==
  ASSUME NEW b, SoundSchedule(b), Conserving(b)
  PROVE  Conserving(Prepared(b))
<1>1. CASE Prepared(b) = b
  BY <1>1
<1>2. CASE Prepared(b) # b
  <2> DEFINE p == Prepared(b)
  <2>1. b \in Schedules /\ b.status = "running" /\ b.stage < LastStage
        /\ b.consumed[b.stage] = StageLimit(b) /\ p = [b EXCEPT !.stage = b.stage + 1]
    BY <1>2 DEF Prepared, SoundSchedule
  <2> HIDE DEF p
  <2>2. /\ p.stage = b.stage + 1 /\ p.consumed = b.consumed /\ p.status = b.status
        /\ p.transferred_to_consolidation = b.transferred_to_consolidation
    BY <2>1 DEF Schedules
  <2>3. Unspent(p) = Unspent(b) /\ TotalUpdates(p) = TotalUpdates(b)
    BY <2>2 DEF Unspent, TotalUpdates
  <2>4. b.stage \in 1..LastStage /\ p.stage - 1 = b.stage
    BY <2>1, <2>2, Unspents
  <2>5. Unspent(b)[b.stage] = 0
    <3>1. StageLimit(b) = StageBudgets[b.stage]
      BY <2>1, <2>4, Constants, Unspents DEF StageLimit
    <3>2. b.stage \in StageNumbers /\ b.consumed[b.stage] \in Int
      BY <2>1, <2>4, Unspents
    <3> QED BY <2>1, <3>1, <3>2, Unspents
  <2>6. SumOver(Unspent(b), 1..b.stage - 1) \in Int
    BY <2>1 DEF Conserving, Schedules
  <2>7. p.transferred_to_consolidation = SumOver(Unspent(p), 1..p.stage - 1)
    BY <2>1, <2>2, <2>3, <2>4, <2>5, <2>6, UpToCurrent DEF Conserving
  <2> QED BY <2>2, <2>3, <2>7 DEF Conserving, p
<1> QED BY <1>1, <1>2

(* What charging a rollout changes. *)
LEMMA ChargedFields ==
  ASSUME NEW b, SoundSchedule(b), ChargeAccepted(b)
  PROVE  LET p == Prepared(b)
             c == ChargedRollout(b)
         IN /\ c \in Schedules /\ p \in Schedules
            /\ p.status = "running" /\ p.consumed[p.stage] < StageLimit(p)
            /\ c.promotion = p.promotion /\ c.stage = p.stage
            /\ c.decisions = p.decisions
            /\ c.transferred_to_consolidation = p.transferred_to_consolidation
            /\ c.consumed[p.stage] = p.consumed[p.stage] + 1
            /\ \A s \in StageNumbers \ {p.stage} : c.consumed[s] = p.consumed[s]
            /\ TotalUpdates(c) = TotalUpdates(p) + 1
            /\ c.status \in Complete <=> (c.stage = LastStage /\ TotalUpdates(c) = TotalBudget)
<1> DEFINE p == Prepared(b)
           consumed == SpentOne(p.consumed, p.stage)
           spent == [p EXCEPT !.consumed = consumed]
           c == ChargedRollout(b)
<1>1. p \in Schedules /\ c \in Schedules
  BY PreparedIsSound, ChargedIsSound DEF SoundSchedule
<1>2. p.status = "running" /\ p.consumed[p.stage] < StageLimit(p)
  BY DEF ChargeAccepted
<1>3. c = [spent EXCEPT !.status = StatusAfterCharge(spent)]
  BY DEF ChargedRollout
<1> HIDE DEF p, c
<1>4. p.stage \in StageNumbers /\ p.consumed \in [StageNumbers -> Nat]
  BY <1>1 DEF Schedules
<1>5. /\ consumed \in [StageNumbers -> Nat]
      /\ consumed[p.stage] = p.consumed[p.stage] + 1
      /\ \A s \in StageNumbers \ {p.stage} : consumed[s] = p.consumed[s]
  BY <1>4 DEF SpentOne
<1> HIDE DEF consumed
<1>6. /\ spent \in Schedules
      /\ spent.stage = p.stage /\ spent.consumed = consumed
      /\ spent.decisions = p.decisions /\ spent.status = p.status
      /\ spent.transferred_to_consolidation = p.transferred_to_consolidation
      /\ spent.promotion = p.promotion
  BY <1>1, <1>5 DEF Schedules
<1> HIDE DEF spent
<1>7. /\ c.promotion = p.promotion /\ c.stage = p.stage /\ c.decisions = p.decisions
      /\ c.transferred_to_consolidation = p.transferred_to_consolidation
      /\ c.consumed = consumed /\ c.status = StatusAfterCharge(spent)
  BY <1>3, <1>6 DEF Schedules
<1>8. TotalUpdates(c) = TotalUpdates(spent)
  BY <1>6, <1>7 DEF TotalUpdates
<1>9. TotalUpdates(c) = TotalUpdates(p) + 1
  <2>1. \A s \in StageNumbers : p.consumed[s] \in Int
    BY <1>4
  <2>2. c.consumed[p.stage] \in Int
    BY <1>4, <1>5, <1>7
  <2>3. SumOver(c.consumed, StageNumbers)
          = SumOver(p.consumed, StageNumbers) + c.consumed[p.stage] - p.consumed[p.stage]
    BY <1>1, <1>4, <1>5, <1>7, <2>1, <2>2, TotalsAreSums, SumChange
  <2>4. SumOver(p.consumed, StageNumbers) \in Int
    BY <1>1, <2>1, TotalsAreSums, SumRemove
  <2> QED BY <1>1, <1>4, <1>5, <1>7, <2>1, <2>3, <2>4, TotalsAreSums
<1>10. c.status \in Complete <=> (c.stage = LastStage /\ TotalUpdates(c) = TotalBudget)
  BY <1>2, <1>6, <1>7, <1>8 DEF StatusAfterCharge, Complete
<1> QED BY <1>1, <1>2, <1>5, <1>7, <1>9, <1>10 DEF p, c

(* A charge is taken from what is left. *)
LEMMA ChargedConserves ==
  ASSUME NEW b, SoundSchedule(b), Conserving(b), ChargeAccepted(b)
  PROVE  Conserving(ChargedRollout(b))
<1> DEFINE p == Prepared(b)
           c == ChargedRollout(b)
<1>1. SoundSchedule(p) /\ Conserving(p) /\ SoundSchedule(c)
  BY PreparedIsSound, PreparedConserves, ChargedIsSound
<1>2. /\ c \in Schedules /\ p \in Schedules
      /\ p.consumed[p.stage] < StageLimit(p) /\ c.stage = p.stage
      /\ c.transferred_to_consolidation = p.transferred_to_consolidation
      /\ c.consumed[p.stage] = p.consumed[p.stage] + 1
      /\ \A s \in StageNumbers \ {p.stage} : c.consumed[s] = p.consumed[s]
      /\ c.status \in Complete <=> (c.stage = LastStage /\ TotalUpdates(c) = TotalBudget)
  BY ChargedFields
<1> HIDE DEF p, c
<1>3. p.stage \in 1..LastStage /\ StageNumbers = 1..LastStage
  BY <1>2, Unspents
<1>4. SumOver(Unspent(c), 1..c.stage - 1) = SumOver(Unspent(p), 1..p.stage - 1)
  <2>1. \A s \in 1..p.stage - 1 : Unspent(c)[s] = Unspent(p)[s]
    BY <1>2, <1>3, Constants DEF Unspent
  <2>2. IsFiniteSet(1..p.stage - 1)
    <3>1. p.stage - 1 \in 0..LastStage
      BY <1>3, Constants
    <3> QED BY <1>2, <3>1, Unspents
  <2>3. SumOver(Unspent(c), 1..p.stage - 1) = SumOver(Unspent(p), 1..p.stage - 1)
    BY <2>1, <2>2, SumAgree
  <2> QED BY <1>2, <2>3
<1>5. c.transferred_to_consolidation = SumOver(Unspent(c), 1..c.stage - 1)
  BY <1>1, <1>2, <1>4 DEF Conserving
<1>6. c.consumed[LastStage] <= StageBudgets[LastStage] + c.transferred_to_consolidation
  <2>1. LastStage \in StageNumbers /\ p.consumed[LastStage] \in Int
        /\ StageBudgets[LastStage] \in Int
    BY <1>2, Unspents
  <2>2. p.transferred_to_consolidation \in Nat
    BY <1>2 DEF Schedules
  <2>3. CASE p.stage = LastStage
    BY <1>2, <2>1, <2>2, <2>3 DEF StageLimit
  <2>4. CASE p.stage # LastStage
    BY <1>1, <1>2, <2>1, <2>4 DEF Conserving
  <2> QED BY <2>3, <2>4
<1>7. c.status \in Complete <=> TotalUpdates(c) = TotalBudget
  <2>1. c.stage # LastStage => TotalUpdates(c) < TotalBudget
    BY <1>1, <1>2, <1>5, Remaining DEF SoundSchedule
  <2>2. TotalUpdates(c) \in Nat /\ TotalBudget \in Nat
    BY <1>2, TotalsType
  <2> QED BY <1>2, <2>1, <2>2
<1>8. Conserving(c)
  BY <1>5, <1>6, <1>7 DEF Conserving
<1> QED BY <1>8 DEF c

(* What a decision changes. *)
LEMMA DecidedFields ==
  ASSUME NEW b, SoundSchedule(b), NEW d \in Decision, DecisionAccepted(b, d)
  PROVE  LET c == Decided(b, d)
         IN /\ c.promotion = b.promotion /\ c.consumed = b.consumed
            /\ c.decisions = Append(b.decisions, d)
            /\ b.stage \in 1..LastStage - 1
            /\ \/ /\ c.stage = b.stage
                  /\ c.transferred_to_consolidation = b.transferred_to_consolidation
                  /\ c.status \in {b.status, "failed_qualification"}
               \/ /\ c.stage = b.stage + 1
                  /\ c.transferred_to_consolidation
                       = b.transferred_to_consolidation
                           + StageBudgets[b.stage] - b.consumed[b.stage]
                  /\ c.status = "running"
<1> DEFINE r == [b EXCEPT !.decisions = Append(b.decisions, d),
                          !.consecutive_passes = PassesAfter(b, d)]
           c == Decided(b, d)
<1>1. b \in Schedules /\ b.stage # LastStage
  BY DEF SoundSchedule, DecisionAccepted
<1>2. b.stage \in 1..LastStage - 1
  BY <1>1, Unspents, Constants
<1>3. PassesAfter(b, d) \in Nat /\ Append(b.decisions, d) \in Seq(Decision)
  BY <1>1 DEF PassesAfter, Schedules
<1>4. /\ r \in Recorded
      /\ r.stage = b.stage /\ r.consumed = b.consumed /\ r.status = b.status
      /\ r.decisions = Append(b.decisions, d) /\ r.promotion = b.promotion
      /\ r.transferred_to_consolidation = b.transferred_to_consolidation
  BY <1>1, <1>3 DEF Schedules, Recorded
<1>5. c = Promoted(r) \/ c = [r EXCEPT !.status = "failed_qualification"] \/ c = r
  BY DEF Decided
<1> HIDE DEF r, c
<1>6. CASE c = Promoted(r)
  BY <1>2, <1>4, <1>6 DEF Promoted, Recorded, c
<1>7. CASE c = [r EXCEPT !.status = "failed_qualification"]
  BY <1>2, <1>4, <1>7 DEF Recorded, c
<1>8. CASE c = r
  BY <1>2, <1>4, <1>8 DEF c
<1> QED BY <1>5, <1>6, <1>7, <1>8

(* A promotion hands on exactly what the stage did not spend. *)
LEMMA DecidedConserves ==
  ASSUME NEW b, SoundSchedule(b), Conserving(b), NEW d \in Decision, DecisionAccepted(b, d)
  PROVE  Conserving(Decided(b, d))
<1> DEFINE c == Decided(b, d)
<1>1. /\ b \in Schedules /\ Earned(b) /\ c \in Schedules /\ c.consumed = b.consumed
      /\ b.stage \in 1..LastStage - 1
      /\ \/ /\ c.stage = b.stage
            /\ c.transferred_to_consolidation = b.transferred_to_consolidation
            /\ c.status \in {b.status, "failed_qualification"}
         \/ /\ c.stage = b.stage + 1
            /\ c.transferred_to_consolidation
                 = b.transferred_to_consolidation
                     + StageBudgets[b.stage] - b.consumed[b.stage]
            /\ c.status = "running"
  BY DecidedFields, DecidedIsSound DEF SoundSchedule
<1> HIDE DEF c
<1>2. Unspent(c) = Unspent(b) /\ TotalUpdates(c) = TotalUpdates(b)
  BY <1>1 DEF Unspent, TotalUpdates
<1>3. /\ LastStage \in Nat /\ b.stage \in StageNumbers /\ b.stage # LastStage
      /\ b.consumed[b.stage] \in Int /\ StageBudgets[b.stage] \in Int
      /\ Unspent(b)[b.stage] = StageBudgets[b.stage] - b.consumed[b.stage]
      /\ b.consumed[b.stage] <= StageBudgets[b.stage]
      /\ b.transferred_to_consolidation \in Nat
  <2>1. b.stage \in StageNumbers /\ b.stage # LastStage
    BY <1>1, Unspents
  <2>2. b.consumed[b.stage] <= StageBudgets[b.stage]
    BY <1>1, <2>1, Unspents DEF Earned
  <2> QED BY <1>1, <2>1, <2>2, Unspents, Constants DEF Schedules
<1>4. c.transferred_to_consolidation = SumOver(Unspent(c), 1..c.stage - 1)
  <2>1. b.transferred_to_consolidation = SumOver(Unspent(b), 1..b.stage - 1)
    BY DEF Conserving
  <2>2. CASE c.stage = b.stage
    BY <1>1, <1>2, <1>3, <2>1, <2>2
  <2>3. CASE c.stage = b.stage + 1
    <3>1. c.stage - 1 = b.stage
      BY <1>1, <1>3, <2>3
    <3> QED BY <1>1, <1>2, <1>3, <2>1, <2>3, <3>1, UpToCurrent
  <2> QED BY <1>1, <2>2, <2>3
<1>5. TotalUpdates(b) < TotalBudget /\ TotalUpdates(b) \in Nat /\ TotalBudget \in Nat
  BY <1>1, <1>3, Remaining, TotalsType DEF Conserving
<1>6. c.status \notin Complete
  <2>1. b.status \notin Complete
    BY <1>5 DEF Conserving
  <2> QED BY <1>1, <2>1 DEF Complete
<1>7. c.consumed[LastStage] <= StageBudgets[LastStage] + c.transferred_to_consolidation
  <2>1. b.consumed[LastStage] = 0
    BY <1>1, <1>3 DEF Earned
  <2>2. StageBudgets[LastStage] \in Nat /\ c.transferred_to_consolidation \in Nat
    BY <1>1, Unspents, Constants DEF Schedules
  <2> QED BY <1>1, <2>1, <2>2
<1>8. Conserving(c)
  BY <1>2, <1>4, <1>5, <1>6, <1>7 DEF Conserving
<1> QED BY <1>8 DEF c

------------------------------------------------------------------------------
(* Replay *)

(* One step of a replay: a rollout charged, or a decision taken. *)
Step(kind, b, x) == IF kind = "charge" THEN ChargedOnce(b, x) ELSE Redecided(b, x)

Greatest(s) == Fold!Max(s)

(* seq has n places, and g[s] is what its steps at the places s lead to, in  *)
(* their order.                                                             *)
IsReplay(g, kind, base, seq, n) ==
  /\ n \in Nat /\ DOMAIN seq = 1..n
  /\ g = [s \in SUBSET DOMAIN seq |->
            IF s = {} THEN base
            ELSE Step(kind, g[s \ {Greatest(s)}], seq[Greatest(s)])]

(* The replays of the model, as the community modules define them. *)
Charges(base, seq) == Fold!FoldLeft(ChargedOnce, base, seq)

Decisions(base, seq) == Fold!FoldLeft(Redecided, base, seq)

IsCharges(g, base, seq) ==
  g = [s \in SUBSET DOMAIN seq |->
         IF s = {} THEN base ELSE ChargedOnce(g[s \ {Greatest(s)}], seq[Greatest(s)])]

IsDecisions(g, base, seq) ==
  g = [s \in SUBSET DOMAIN seq |->
         IF s = {} THEN base ELSE Redecided(g[s \ {Greatest(s)}], seq[Greatest(s)])]

LEMMA ReplaysAre ==
  ASSUME NEW base, NEW seq
  PROVE  /\ Charges(base, seq) = (CHOOSE g : IsCharges(g, base, seq))[DOMAIN seq]
         /\ Decisions(base, seq) = (CHOOSE g : IsDecisions(g, base, seq))[DOMAIN seq]
<1>1. Charges(base, seq) = (CHOOSE g : IsCharges(g, base, seq))[DOMAIN seq]
  BY DEF Charges, Fold!FoldLeft, Fold!MapThenFoldSet, IsCharges, Greatest
<1>2. Decisions(base, seq) = (CHOOSE g : IsDecisions(g, base, seq))[DOMAIN seq]
  BY DEF Decisions, Fold!FoldLeft, Fold!MapThenFoldSet, IsDecisions, Greatest
<1> QED BY <1>1, <1>2

(* A non-empty set of the first n places has a last one. *)
LEMMA GreatestIsLast ==
  ASSUME NEW n \in Nat, NEW s \in SUBSET (1..n), s # {}
  PROVE  /\ Greatest(s) \in s /\ \A i \in s : i <= Greatest(s)
         /\ s \ {Greatest(s)} \in SUBSET (1..n - 1)
<1> DEFINE T == {n - i : i \in s}
<1>1. T \in SUBSET Nat /\ T # {}
  <2>1. \A i \in s : n - i \in Nat
    OBVIOUS
  <2>2. PICK i \in s : TRUE
    OBVIOUS
  <2>3. n - i \in T
    BY <2>2
  <2> QED BY <2>1, <2>3
<1>2. PICK m \in T : \A k \in T : m <= k
  BY <1>1, LeastNat
<1>3. PICK i \in s : m = n - i
  BY <1>2
<1>4. \A k \in s : i >= k
  <2> SUFFICES ASSUME NEW k \in s PROVE i >= k
    OBVIOUS
  <2>1. n - k \in T
    OBVIOUS
  <2>2. m <= n - k
    BY <1>2, <2>1
  <2>3. i \in Int /\ k \in Int
    OBVIOUS
  <2> HIDE DEF T
  <2> QED BY <1>3, <2>2, <2>3
<1>5. Greatest(s) \in s /\ \A k \in s : Greatest(s) >= k
  BY <1>4 DEF Greatest, Fold!Max
<1> HIDE DEF T
<1> DEFINE last == Greatest(s)
<1>6. last \in 1..n /\ \A k \in s : k \in 1..n /\ last >= k
  BY <1>5
<1> HIDE DEF last
<1>7. s \ {last} \in SUBSET (1..n - 1)
  BY <1>6
<1>8. \A k \in s : k <= last
  BY <1>6
<1> QED BY <1>5, <1>7, <1>8 DEF last

(* The last of the first k places. *)
LEMMA LastPlace ==
  ASSUME NEW k \in Nat, k > 0
  PROVE  /\ Greatest(1..k) = k /\ (1..k) \ {k} = 1..k - 1 /\ 1..k # {}
<1>1. k \in 1..k /\ 1..k \in SUBSET (1..k)
  OBVIOUS
<1>2. Greatest(1..k) \in 1..k /\ k <= Greatest(1..k)
  BY <1>1, GreatestIsLast
<1> QED BY <1>1, <1>2

(* Every replay exists. *)
LEMMA ReplayExists ==
  ASSUME NEW kind, NEW base, NEW seq, NEW n \in Nat, DOMAIN seq = 1..n
  PROVE  \E g : IsReplay(g, kind, base, seq, n)
<1> DEFINE Layer(h, k) ==
             [s \in SUBSET (1..k) |->
                IF s = {} THEN base
                ELSE Step(kind, h[s \ {Greatest(s)}], seq[Greatest(s)])]
           bad == {k \in Nat : ~ \E h : h = Layer(h, k)}
<1>1. bad = {}
  <2> SUFFICES ASSUME bad # {} PROVE FALSE
    OBVIOUS
  <2>1. PICK k \in bad : \A m \in bad : k <= m
    BY LeastNat
  <2>2. CASE k = 0
    <3> DEFINE h == [s \in SUBSET (1..0) |-> base]
    <3>1. \A s \in SUBSET (1..0) : s = {}
      OBVIOUS
    <3>2. h = Layer(h, 0)
      BY <3>1
    <3> QED BY <2>1, <2>2, <3>2
  <2>3. CASE k # 0
    <3>0. k \in Nat
      BY <2>1
    <3>1. k - 1 \in Nat /\ k - 1 \notin bad
      <4> HIDE DEF bad
      <4> QED BY <2>1, <2>3, <3>0
    <3>2. PICK h : h = Layer(h, k - 1)
      BY <3>1
    <3> DEFINE g == Layer(h, k)
    <3>3. \A s \in SUBSET (1..k - 1) : s \in SUBSET (1..k) /\ g[s] = h[s]
      <4> TAKE s \in SUBSET (1..k - 1)
      <4>1. s \in SUBSET (1..k)
        BY <3>0, <3>1
      <4>2. h[s] = IF s = {} THEN base
                   ELSE Step(kind, h[s \ {Greatest(s)}], seq[Greatest(s)])
        BY ONLY <3>2
      <4> QED BY <4>1, <4>2
    <3>4. \A s \in SUBSET (1..k) : s # {} => s \ {Greatest(s)} \in SUBSET (1..k - 1)
      BY <3>0, GreatestIsLast
    <3>5. g = Layer(g, k)
      BY <3>3, <3>4
    <3> QED BY <2>1, <3>5
  <2> QED BY <2>2, <2>3
<1>2. PICK h : h = Layer(h, n)
  BY <1>1
<1>3. IsReplay(h, kind, base, seq, n)
  BY <1>2 DEF IsReplay
<1> QED BY <1>3

(* A replay is built up place by place. *)
LEMMA ReplayPrefix ==
  ASSUME NEW kind, NEW base, NEW seq, NEW n, NEW g, IsReplay(g, kind, base, seq, n)
  PROVE  /\ g[1..0] = base
         /\ \A k \in 1..n : g[1..k] = Step(kind, g[1..k - 1], seq[k])
<1>1. \A s \in SUBSET (1..n) :
        g[s] = IF s = {} THEN base
               ELSE Step(kind, g[s \ {Greatest(s)}], seq[Greatest(s)])
  BY DEF IsReplay
<1> n \in Nat
  BY DEF IsReplay
<1>2. 1..0 = {} /\ {} \in SUBSET (1..n)
  OBVIOUS
<1>3. ASSUME NEW k \in 1..n PROVE g[1..k] = Step(kind, g[1..k - 1], seq[k])
  <2>1. k \in Nat /\ k > 0 /\ 1..k \in SUBSET (1..n)
    OBVIOUS
  <2>2. Greatest(1..k) = k /\ (1..k) \ {k} = 1..k - 1 /\ 1..k # {}
    BY <2>1, LastPlace
  <2> DEFINE S == 1..k
  <2>3. g[S] = Step(kind, g[S \ {Greatest(S)}], seq[Greatest(S)])
    BY <1>1, <2>1, <2>2
  <2> QED BY <2>2, <2>3
<1>4. g[1..0] = base
  BY <1>1, <1>2
<1> QED BY <1>3, <1>4

(* Replays of the same beginning agree on it. *)
LEMMA ReplaysAgree ==
  ASSUME NEW kind, NEW base, NEW seq, NEW n, NEW g, IsReplay(g, kind, base, seq, n),
         NEW more, NEW m, NEW h, IsReplay(h, kind, base, more, m),
         n <= m, \A i \in 1..n : more[i] = seq[i]
  PROVE  \A k \in 0..n : g[1..k] = h[1..k]
<1> n \in Nat /\ m \in Nat
  BY DEF IsReplay
<1>1. /\ g[1..0] = base /\ h[1..0] = base
      /\ \A k \in 1..n : g[1..k] = Step(kind, g[1..k - 1], seq[k])
      /\ \A k \in 1..m : h[1..k] = Step(kind, h[1..k - 1], more[k])
  <2>1. g[1..0] = base /\ \A k \in 1..n : g[1..k] = Step(kind, g[1..k - 1], seq[k])
    BY ReplayPrefix
  <2>2. h[1..0] = base /\ \A k \in 1..m : h[1..k] = Step(kind, h[1..k - 1], more[k])
    BY ReplayPrefix
  <2> QED BY <2>1, <2>2
<1> DEFINE bad == {k \in 0..n : g[1..k] # h[1..k]}
<1> SUFFICES ASSUME bad # {} PROVE FALSE
  OBVIOUS
<1>2. PICK k \in bad : \A j \in bad : k <= j
  <2>1. bad \in SUBSET Nat
    OBVIOUS
  <2> HIDE DEF bad
  <2> QED BY <2>1, LeastNat
<1>3. k \in 1..n /\ g[1..k] # h[1..k]
  BY <1>1
<1>4. k - 1 \in 0..n /\ k - 1 \notin bad
  <2>1. k - 1 \in 0..n /\ k \in Nat
    BY <1>3
  <2> HIDE DEF bad
  <2> QED BY <1>2, <2>1
<1>5. g[1..k - 1] = h[1..k - 1]
  BY <1>4
<1>6. k \in 1..m
  BY <1>3
<1> QED BY <1>1, <1>3, <1>5, <1>6

(* The replays of the model are such replays. *)
LEMMA ReplayIs ==
  ASSUME NEW base, NEW seq, NEW n \in Nat, DOMAIN seq = 1..n
  PROVE  /\ \E g : IsReplay(g, "charge", base, seq, n) /\ Charges(base, seq) = g[1..n]
         /\ \E g : IsReplay(g, "decide", base, seq, n) /\ Decisions(base, seq) = g[1..n]
<1>1. \A g : IsReplay(g, "charge", base, seq, n) <=> IsCharges(g, base, seq)
  BY DEF IsReplay, IsCharges, Step
<1>2. \A g : IsReplay(g, "decide", base, seq, n) <=> IsDecisions(g, base, seq)
  BY DEF IsReplay, IsDecisions, Step
<1>3. IsCharges(CHOOSE g : IsCharges(g, base, seq), base, seq)
  <2>1. \E g : IsCharges(g, base, seq)
    BY <1>1, ReplayExists
  <2> QED BY <2>1
<1>4. IsDecisions(CHOOSE g : IsDecisions(g, base, seq), base, seq)
  <2>1. \E g : IsDecisions(g, base, seq)
    BY <1>2, ReplayExists
  <2> QED BY <2>1
<1>5. \E g : IsReplay(g, "charge", base, seq, n) /\ Charges(base, seq) = g[1..n]
  BY <1>1, <1>3, ReplaysAre
<1>6. \E g : IsReplay(g, "decide", base, seq, n) /\ Decisions(base, seq) = g[1..n]
  BY <1>2, <1>4, ReplaysAre
<1> QED BY <1>5, <1>6

(* Charging no rollout changes nothing, charging another is one step more. *)
LEMMA ChargesStep ==
  ASSUME NEW base
  PROVE  /\ Charges(base, [i \in 1..0 |-> i]) = base
         /\ \A k \in Nat : Charges(base, [i \in 1..k + 1 |-> i])
                             = ChargedOnce(Charges(base, [i \in 1..k |-> i]), k + 1)
<1>1. Charges(base, [i \in 1..0 |-> i]) = base
  <2> DEFINE none == [i \in 1..0 |-> i]
  <2>1. DOMAIN none = 1..0 /\ 0 \in Nat
    OBVIOUS
  <2> HIDE DEF none
  <2>2. PICK g : IsReplay(g, "charge", base, none, 0) /\ Charges(base, none) = g[1..0]
    BY <2>1, ReplayIs
  <2>3. g[1..0] = base
    BY <2>2, ReplayPrefix
  <2> QED BY <2>2, <2>3 DEF none
<1>2. ASSUME NEW k \in Nat
      PROVE  Charges(base, [i \in 1..k + 1 |-> i])
               = ChargedOnce(Charges(base, [i \in 1..k |-> i]), k + 1)
  <2> DEFINE seq == [i \in 1..k |-> i]
             more == [i \in 1..k + 1 |-> i]
             m == k + 1
  <2>1. /\ DOMAIN seq = 1..k /\ DOMAIN more = 1..m
        /\ \A i \in 1..k : more[i] = seq[i]
        /\ more[m] = k + 1 /\ k <= m /\ m \in Nat /\ k \in 0..k
        /\ m \in 1..m /\ m - 1 = k
    OBVIOUS
  <2> HIDE DEF seq, more, m
  <2>2. PICK g : IsReplay(g, "charge", base, seq, k) /\ Charges(base, seq) = g[1..k]
    BY <2>1, ReplayIs
  <2>3. PICK h : IsReplay(h, "charge", base, more, m) /\ Charges(base, more) = h[1..m]
    BY <2>1, ReplayIs
  <2>4. \A j \in 0..k : g[1..j] = h[1..j]
    BY <2>1, <2>2, <2>3, ReplaysAgree
  <2>5. h[1..m] = Step("charge", h[1..m - 1], more[m])
    BY <2>1, <2>3, ReplayPrefix
  <2>6. h[1..m] = Step("charge", g[1..k], k + 1)
    BY <2>1, <2>4, <2>5
  <2> QED BY <2>2, <2>3, <2>6 DEF Step, seq, more, m
<1> QED BY <1>1, <1>2

(* So it is with decisions. *)
LEMMA NoDecisions ==
  ASSUME NEW base
  PROVE  Decisions(base, <<>>) = base
<1> DEFINE none == <<>>
<1>1. DOMAIN none = 1..0 /\ 0 \in Nat
  OBVIOUS
<1> HIDE DEF none
<1>2. PICK g : IsReplay(g, "decide", base, none, 0) /\ Decisions(base, none) = g[1..0]
  BY <1>1, ReplayIs
<1>3. g[1..0] = base
  BY <1>2, ReplayPrefix
<1> QED BY <1>2, <1>3 DEF none

LEMMA DecisionsStep ==
  ASSUME NEW base, NEW T, NEW ds \in Seq(T), NEW d \in T
  PROVE  Decisions(base, Append(ds, d)) = Redecided(Decisions(base, ds), d)
<1> DEFINE k == Len(ds)
           more == Append(ds, d)
           m == k + 1
<1>1. /\ DOMAIN ds = 1..k /\ DOMAIN more = 1..m /\ k \in Nat
      /\ \A i \in 1..k : more[i] = ds[i]
      /\ more[m] = d /\ k <= m /\ m \in Nat /\ k \in 0..k
      /\ m \in 1..m /\ m - 1 = k
  OBVIOUS
<1> HIDE DEF k, more, m
<1>2. PICK g : IsReplay(g, "decide", base, ds, k) /\ Decisions(base, ds) = g[1..k]
  <2>1. k \in Nat /\ DOMAIN ds = 1..k
    BY <1>1
  <2> QED BY ONLY <2>1, ReplayIs
<1>3. PICK h : IsReplay(h, "decide", base, more, m) /\ Decisions(base, more) = h[1..m]
  BY <1>1, ReplayIs
<1>4. \A j \in 0..k : g[1..j] = h[1..j]
  BY <1>1, <1>2, <1>3, ReplaysAgree
<1>5. h[1..m] = Step("decide", h[1..m - 1], more[m])
  BY <1>1, <1>3, ReplayPrefix
<1>6. h[1..m] = Step("decide", g[1..k], d)
  BY <1>1, <1>4, <1>5
<1> QED BY <1>2, <1>3, <1>6 DEF Step, more, m

------------------------------------------------------------------------------
(* A schedule is what its consumption and decisions replay to *)

(* The update of the last decision. *)
LastUpdate(ds) == IF Len(ds) = 0 THEN 0 ELSE ds[Len(ds)].update

(* The schedule right after the last decision, and what the rollouts since  *)
(* then make of it.                                                         *)
Reached(b) == Decisions(Fresh(b.promotion), b.decisions)

Rebuilt(b) == Charges(Reached(b), [i \in 1..TotalUpdates(b) - TotalUpdates(Reached(b)) |-> i])

(* The replay leads to the schedule, up to a preparation not repeated yet;  *)
(* and a decision taken at once after another is about the same stage, or   *)
(* the new stage has no rollout yet.                                        *)
Replayable(b) ==
  /\ Reached(b) \in Schedules /\ SoundSchedule(Rebuilt(b))
  /\ b \in {Rebuilt(b), Prepared(Rebuilt(b))}
  /\ TotalUpdates(Reached(b)) = LastUpdate(b.decisions)
  /\ LastUpdate(b.decisions) <= TotalUpdates(b)
  /\ LastUpdate(b.decisions) = TotalUpdates(b) =>
       \/ Len(b.decisions) > 0 /\ b.decisions[Len(b.decisions)].stage = b.stage
       \/ b.consumed[b.stage] = 0

(* A schedule is not the mark of a failed replay. *)
LEMMA SchedulesAreReplays ==
  ASSUME NEW b \in Schedules
  PROVE  b # Unreplayable
  BY Constants DEF Schedules, Unreplayable, StageNumbers

(* What preparing a rollout changes, and that doing it again changes        *)
(* nothing.                                                                 *)
LEMMA PreparedFields ==
  ASSUME NEW b, SoundSchedule(b)
  PROVE  LET p == Prepared(b)
         IN /\ p.promotion = b.promotion /\ p.consumed = b.consumed
            /\ p.decisions = b.decisions
            /\ p = b \/ (p.stage # b.stage /\ p.consumed[p.stage] = 0)
            /\ b.promotion = "audited" => p = b
            /\ Prepared(p) = p
<1>1. CASE Prepared(b) = b
  BY <1>1
<1>2. CASE Prepared(b) # b
  <2> DEFINE p == Prepared(b)
  <2>1. b \in Schedules /\ Earned(b) /\ b.stage < LastStage /\ b.promotion = "exposure"
        /\ p = [b EXCEPT !.stage = b.stage + 1] /\ p \in Schedules
    BY <1>2, PreparedIsSound DEF Prepared, SoundSchedule
  <2> HIDE DEF p
  <2>2. /\ p.stage = b.stage + 1 /\ p.consumed = b.consumed
        /\ p.promotion = b.promotion /\ p.decisions = b.decisions
    BY <2>1 DEF Schedules
  <2>3. b.stage \in 1..LastStage /\ p.stage \in StageNumbers /\ LastStage \in Nat
    BY <2>1, Unspents, Constants DEF Schedules
  <2>4. p.consumed[p.stage] = 0
    BY <2>1, <2>2, <2>3 DEF Earned
  <2>5. StageLimit(p) > 0
    <3>1. p.transferred_to_consolidation \in Nat
      BY <2>1 DEF Schedules
    <3> QED BY <2>3, <3>1, Constants DEF StageLimit
  <2>6. Prepared(p) = p
    BY <2>4, <2>5 DEF Prepared
  <2> QED BY <2>1, <2>2, <2>3, <2>4, <2>6 DEF p
<1> QED BY <1>1, <1>2

(* A schedule without decisions and rollouts replays to itself. *)
LEMMA FreshIsReplayable ==
  ASSUME NEW promotion \in Promotions
  PROVE  Replayable(Fresh(promotion))
<1> DEFINE b == Fresh(promotion)
<1>1. /\ SoundSchedule(b) /\ b \in Schedules /\ b.promotion = promotion
      /\ b.decisions = <<>> /\ \A s \in StageNumbers : b.consumed[s] = 0
  BY FreshIsSound DEF Fresh, SoundSchedule
<1>2. Reached(b) = b
  BY <1>1, NoDecisions DEF Reached
<1> HIDE DEF b
<1>3. TotalUpdates(b) = 0
  BY <1>1, TotalsAreSums, SumOfZeros
<1>4. Rebuilt(b) = b
  <2>1. Rebuilt(b) = Charges(b, [i \in 1..0 |-> i])
    BY <1>2, <1>3 DEF Rebuilt
  <2> QED BY <2>1, ChargesStep
<1>5. LastUpdate(b.decisions) = 0
  BY <1>1 DEF LastUpdate
<1>6. b.consumed[b.stage] = 0
  BY <1>1 DEF Schedules
<1>7. Replayable(b)
  BY <1>1, <1>2, <1>3, <1>4, <1>5, <1>6 DEF Replayable
<1> QED BY <1>7 DEF b

(* A preparation is repeated by the load if it has to be. *)
LEMMA PreparedIsReplayable ==
  ASSUME NEW b, SoundSchedule(b), Replayable(b)
  PROVE  Replayable(Prepared(b))
<1> DEFINE p == Prepared(b)
<1>1. /\ p.promotion = b.promotion /\ p.consumed = b.consumed
      /\ p.decisions = b.decisions
      /\ p = b \/ (p.stage # b.stage /\ p.consumed[p.stage] = 0)
  BY PreparedFields
<1>2. Prepared(Prepared(Rebuilt(b))) = Prepared(Rebuilt(b))
  BY PreparedFields DEF Replayable
<1>3. p \in {Rebuilt(b), Prepared(Rebuilt(b))}
  BY <1>2 DEF Replayable
<1> HIDE DEF p
<1>4. /\ TotalUpdates(p) = TotalUpdates(b) /\ Reached(p) = Reached(b)
      /\ Rebuilt(p) = Rebuilt(b)
  BY <1>1 DEF TotalUpdates, Reached, Rebuilt
<1>5. Replayable(p)
  BY <1>1, <1>3, <1>4 DEF Replayable
<1> QED BY <1>5 DEF p

(* A charge is replayed by one more charge. *)
LEMMA ChargedIsReplayable ==
  ASSUME NEW b, SoundSchedule(b), Replayable(b), ChargeAccepted(b)
  PROVE  Replayable(ChargedRollout(b))
<1> DEFINE c == ChargedRollout(b)
           r == Rebuilt(b)
           n == TotalUpdates(b) - TotalUpdates(Reached(b))
<1>1. SoundSchedule(r) /\ b \in {r, Prepared(r)} /\ r \in Schedules
  BY DEF Replayable, SoundSchedule
<1>2. /\ b \in Schedules /\ c \in Schedules /\ SoundSchedule(c)
      /\ TotalUpdates(b) \in Nat /\ TotalUpdates(Reached(b)) \in Nat
      /\ TotalUpdates(Reached(b)) <= TotalUpdates(b)
  BY ChargedIsSound, TotalsType DEF Replayable, SoundSchedule
<1>3. Prepared(b) = Prepared(r)
  BY <1>1, PreparedFields
<1>4. ChargeAccepted(r) /\ ChargedRollout(r) = c
  BY <1>3 DEF ChargeAccepted, ChargedRollout
<1>5. /\ c.promotion = b.promotion /\ c.decisions = b.decisions
      /\ TotalUpdates(c) = TotalUpdates(b) + 1
  <2>1. /\ Prepared(b).promotion = b.promotion /\ Prepared(b).decisions = b.decisions
        /\ TotalUpdates(Prepared(b)) = TotalUpdates(b)
    BY PreparedFields DEF TotalUpdates
  <2> QED BY <2>1, ChargedFields
<1> HIDE DEF c, r
<1>6. Reached(c) = Reached(b)
  BY <1>5 DEF Reached
<1>7. n \in Nat /\ TotalUpdates(c) - TotalUpdates(Reached(c)) = n + 1
  BY <1>2, <1>5, <1>6
<1>8. r = Charges(Reached(b), [i \in 1..n |-> i])
  BY DEF r, Rebuilt
<1> HIDE DEF n
<1>9. Rebuilt(c) = ChargedOnce(r, n + 1)
  <2>1. Rebuilt(c) = Charges(Reached(b), [i \in 1..n + 1 |-> i])
    BY <1>6, <1>7 DEF Rebuilt
  <2> QED BY <1>7, <1>8, <2>1, ChargesStep
<1>10. Rebuilt(c) = c
  BY <1>1, <1>4, <1>9, SchedulesAreReplays DEF ChargedOnce
<1>11. LastUpdate(c.decisions) < TotalUpdates(c)
  BY <1>2, <1>5 DEF Replayable
<1>12. Replayable(c)
  BY <1>2, <1>5, <1>6, <1>10, <1>11, TotalsType DEF Replayable
<1> QED BY <1>12 DEF c

(* A decision is about more rollouts than the last one. *)
LEMMA DecisionIsLater ==
  ASSUME NEW b, SoundSchedule(b), Replayable(b),
         NEW d \in Decision, DecisionAccepted(b, d)
  PROVE  LastUpdate(b.decisions) < d.update
<1>1. /\ b \in Schedules /\ d.update = TotalUpdates(b) /\ TotalUpdates(b) \in Nat
      /\ LastUpdate(b.decisions) <= TotalUpdates(b) /\ b.stage \in StageNumbers
      /\ b.decisions \in Seq(Decision) /\ b.consumed[b.stage] \in Nat
  BY TotalsType DEF SoundSchedule, DecisionAccepted, Replayable, Schedules
<1>2. LastUpdate(b.decisions) \in Nat
  <2>1. CASE Len(b.decisions) = 0
    BY <2>1 DEF LastUpdate
  <2>2. CASE Len(b.decisions) # 0
    <3>1. b.decisions[Len(b.decisions)] \in Decision
      BY <1>1, <2>2
    <3> QED BY <2>2, <3>1 DEF LastUpdate, Decision
  <2> QED BY <2>1, <2>2
<1>3. b.consumed[b.stage] # 0
  <2>1. 4 * b.consumed[b.stage] >= StageBudgets[b.stage]
    BY DEF DecisionAccepted
  <2> QED BY <1>1, <2>1, Constants
<1>4. CASE LastUpdate(b.decisions) = TotalUpdates(b)
  <2> DEFINE n == Len(b.decisions)
  <2>1. n > 0 /\ n \in Nat /\ b.decisions[n].stage = b.stage
    BY <1>1, <1>3, <1>4 DEF Replayable
  <2>2. n \in Previous(b)
    BY <1>1, <2>1 DEF Previous
  <2>3. b.decisions[n].update # d.update
    BY <2>2 DEF DecisionAccepted
  <2> QED BY <1>1, <1>4, <2>1, <2>3 DEF LastUpdate
<1> QED BY <1>1, <1>2, <1>4

(* A decision is replayed by the decision. *)
LEMMA DecidedIsReplayable ==
  ASSUME NEW b, SoundSchedule(b), Replayable(b),
         NEW d \in Decision, DecisionAccepted(b, d)
  PROVE  Replayable(Decided(b, d))
<1> DEFINE c == Decided(b, d)
<1>1. /\ b \in Schedules /\ Earned(b) /\ b.promotion = "audited" /\ d.stage = b.stage
      /\ d.update = TotalUpdates(b) /\ b.decisions \in Seq(Decision)
      /\ TotalUpdates(b) \in Nat
  BY TotalsType DEF SoundSchedule, DecisionAccepted, Schedules
<1>2. /\ SoundSchedule(c) /\ c \in Schedules
      /\ c.promotion = b.promotion /\ c.consumed = b.consumed
      /\ c.decisions = Append(b.decisions, d) /\ b.stage \in 1..LastStage - 1
      /\ c.stage \in {b.stage, b.stage + 1}
  BY DecidedFields, DecidedIsSound DEF SoundSchedule
<1> HIDE DEF c
<1>3. Rebuilt(b) = b
  <2>1. SoundSchedule(Rebuilt(b)) /\ b \in {Rebuilt(b), Prepared(Rebuilt(b))}
    BY DEF Replayable
  <2>2. Prepared(Rebuilt(b)).promotion = Rebuilt(b).promotion
    BY <2>1, PreparedFields
  <2>3. Rebuilt(b).promotion = "audited"
    BY <1>1, <2>1, <2>2
  <2> QED BY <2>1, <2>3, PreparedFields
<1>4. /\ LastUpdate(b.decisions) < d.update
      /\ TotalUpdates(Reached(b)) = LastUpdate(b.decisions)
      /\ Reached(b) # Unreplayable /\ TotalUpdates(Reached(b)) \in Nat
  BY DecisionIsLater, SchedulesAreReplays, TotalsType DEF Replayable
<1>5. ChargedUpTo(Reached(b), d.update) = b
  BY <1>1, <1>3, <1>4 DEF ChargedUpTo, Rebuilt, Charges
<1>6. Redecided(Reached(b), d) = c
  <2>1. ~(Reached(b) = Unreplayable \/ d.update <= TotalUpdates(Reached(b)))
    BY <1>1, <1>4
  <2>2. ~(b = Unreplayable \/ ~DecisionAccepted(b, d))
    BY <1>1, SchedulesAreReplays
  <2> QED BY <1>5, <2>1, <2>2 DEF Redecided, c
<1>7. Reached(c) = c
  <2>1. Reached(c) = Redecided(Reached(b), d)
    BY <1>1, <1>2, DecisionsStep DEF Reached
  <2> QED BY <1>6, <2>1
<1>8. TotalUpdates(c) = TotalUpdates(b)
  BY <1>2 DEF TotalUpdates
<1>9. Rebuilt(c) = c
  <2>1. TotalUpdates(c) - TotalUpdates(Reached(c)) = 0
    BY <1>1, <1>7, <1>8
  <2>2. Rebuilt(c) = Charges(c, [i \in 1..0 |-> i])
    BY <1>7, <2>1 DEF Rebuilt
  <2> QED BY <2>2, ChargesStep
<1>10. Len(c.decisions) > 0 /\ c.decisions[Len(c.decisions)] = d
  BY <1>1, <1>2
<1>11. LastUpdate(c.decisions) = TotalUpdates(c)
  BY <1>1, <1>8, <1>10 DEF LastUpdate
<1>12. c.decisions[Len(c.decisions)].stage = c.stage \/ c.consumed[c.stage] = 0
  <2>1. CASE c.stage = b.stage
    BY <1>1, <1>10, <2>1
  <2>2. CASE c.stage = b.stage + 1
    <3>1. c.stage \in b.stage + 1..LastStage
      BY <1>2, <2>2, Constants
    <3> QED BY <1>1, <1>2, <3>1 DEF Earned
  <2> QED BY <1>2, <2>1, <2>2
<1>13. Replayable(c)
  BY <1>1, <1>2, <1>7, <1>8, <1>9, <1>10, <1>11, <1>12 DEF Replayable
<1> QED BY <1>13 DEF c

------------------------------------------------------------------------------
(* How many decisions a schedule can hold *)

(* No stage is decided on after it was left, nor more than four times, and  *)
(* the last one never.                                                      *)
FewDecisions(b) ==
  /\ \A i \in DOMAIN b.decisions : b.decisions[i].stage <= b.stage
  /\ IsFiniteSet(Previous(b))
  /\ Cardinality(Previous(b)) <= 4
  /\ b.stage = LastStage => Previous(b) = {}
  /\ Len(b.decisions) <= 4 * (b.stage - 1) + Cardinality(Previous(b))

(* A stage that was just entered has not been decided on. *)
LEMMA EnteredUndecided ==
  ASSUME NEW b \in Schedules, NEW c \in Schedules, c.stage = b.stage + 1,
         \A i \in DOMAIN c.decisions : c.decisions[i].stage <= b.stage,
         Len(c.decisions) <= 4 * b.stage
  PROVE  FewDecisions(c)
<1>1. b.stage \in Int /\ c.stage \in Int
  BY Unspents
<1>2. \A i \in DOMAIN c.decisions : c.decisions[i].stage \in Int
  <2>1. c.decisions \in Seq(Decision)
    BY DEF Schedules
  <2>2. \A i \in DOMAIN c.decisions : c.decisions[i] \in Decision
    BY <2>1
  <2>3. \A d \in Decision : d.stage \in Int
    BY Constants DEF Decision, StageNumbers, LastStage
  <2> QED BY <2>2, <2>3
<1>3. Previous(c) = {}
  BY <1>1, <1>2 DEF Previous
<1>4. \A i \in DOMAIN c.decisions : c.decisions[i].stage <= c.stage
  BY <1>1, <1>2
<1>5. IsFiniteSet(Previous(c)) /\ Cardinality(Previous(c)) = 0
  BY <1>3, FS_EmptySet
<1>6. Len(c.decisions) <= 4 * (c.stage - 1) + Cardinality(Previous(c))
  BY <1>1, <1>5
<1> QED BY <1>3, <1>4, <1>5, <1>6 DEF FewDecisions

(* A fresh schedule has no decisions. *)
LEMMA FreshHasFew ==
  ASSUME NEW promotion \in Promotions
  PROVE  FewDecisions(Fresh(promotion))
<1> DEFINE b == Fresh(promotion)
<1>1. b.decisions = <<>> /\ b.stage = 1
  BY DEF Fresh
<1> HIDE DEF b
<1>2. Previous(b) = {}
  BY <1>1 DEF Previous
<1>3. IsFiniteSet(Previous(b)) /\ Cardinality(Previous(b)) = 0
  BY <1>2, FS_EmptySet
<1>4. FewDecisions(b)
  BY <1>1, <1>2, <1>3 DEF FewDecisions
<1> QED BY <1>4 DEF b

(* Preparing a rollout may enter a stage; the decisions stay. *)
LEMMA PreparedHasFew ==
  ASSUME NEW b, SoundSchedule(b), FewDecisions(b)
  PROVE  FewDecisions(Prepared(b))
<1> DEFINE p == Prepared(b)
<1>1. CASE p = b
  BY <1>1
<1>2. CASE p # b
  <2>1. b \in Schedules /\ p \in Schedules /\ p = [b EXCEPT !.stage = b.stage + 1]
    BY <1>2, PreparedIsSound DEF Prepared, SoundSchedule
  <2> HIDE DEF p
  <2>2. p.stage = b.stage + 1 /\ p.decisions = b.decisions
    BY <2>1 DEF Schedules
  <2>3. Cardinality(Previous(b)) \in Nat /\ Cardinality(Previous(b)) <= 4
    BY FS_CardinalityType DEF FewDecisions
  <2>4. Len(p.decisions) <= 4 * b.stage
    <3>1. Len(b.decisions) <= 4 * (b.stage - 1) + Cardinality(Previous(b))
      BY DEF FewDecisions
    <3>2. b.stage \in Int /\ Len(b.decisions) \in Int
      BY <2>1, Unspents DEF Schedules
    <3> QED BY <2>2, <2>3, <3>1, <3>2
  <2>5. \A i \in DOMAIN p.decisions : p.decisions[i].stage <= b.stage
    BY <2>2 DEF FewDecisions
  <2>6. FewDecisions(p)
    BY <2>1, <2>2, <2>4, <2>5, EnteredUndecided
  <2> QED BY <2>6 DEF p
<1> QED BY <1>1, <1>2

(* A charge decides nothing. *)
LEMMA ChargedHasFew ==
  ASSUME NEW b, SoundSchedule(b), FewDecisions(b), ChargeAccepted(b)
  PROVE  FewDecisions(ChargedRollout(b))
<1>1. FewDecisions(Prepared(b))
  BY PreparedHasFew
<1>2. /\ ChargedRollout(b).stage = Prepared(b).stage
      /\ ChargedRollout(b).decisions = Prepared(b).decisions
  BY ChargedFields
<1>3. Previous(ChargedRollout(b)) = Previous(Prepared(b))
  BY <1>2 DEF Previous
<1> QED BY <1>1, <1>2, <1>3 DEF FewDecisions

(* A decision adds one to those about the stage, or leaves the stage. *)
LEMMA DecidedHasFew ==
  ASSUME NEW b, SoundSchedule(b), FewDecisions(b), NEW d \in Decision, DecisionAccepted(b, d)
  PROVE  FewDecisions(Decided(b, d))
<1> DEFINE c == Decided(b, d)
           n == Len(b.decisions)
<1> SUFFICES FewDecisions(c)
  OBVIOUS
<1>1. /\ b \in Schedules /\ c \in Schedules /\ b.stage # LastStage
      /\ d.stage = b.stage /\ Cardinality(Previous(b)) < 4
      /\ b.decisions \in Seq(Decision)
  BY DecidedIsSound DEF SoundSchedule, DecisionAccepted, Schedules
<1>2. /\ c.decisions = Append(b.decisions, d)
      /\ c.stage \in {b.stage, b.stage + 1}
  BY DecidedFields
<1> HIDE DEF c
<1>3. /\ n \in Nat /\ DOMAIN b.decisions = 1..n /\ DOMAIN c.decisions = 1..n + 1
      /\ Len(c.decisions) = n + 1
      /\ \A i \in 1..n : c.decisions[i] = b.decisions[i]
      /\ c.decisions[n + 1] = d
  BY <1>1, <1>2
<1> HIDE DEF n
<1>4. b.stage \in Int /\ Cardinality(Previous(b)) \in Nat
  BY <1>1, Unspents, FS_CardinalityType DEF FewDecisions
<1>5. /\ \A i \in 1..n : b.decisions[i].stage <= b.stage
      /\ IsFiniteSet(Previous(b))
      /\ n <= 4 * (b.stage - 1) + Cardinality(Previous(b))
  BY <1>3 DEF FewDecisions, n
<1>6. \A i \in DOMAIN c.decisions : c.decisions[i].stage <= b.stage
  <2>1. ASSUME NEW i \in 1..n + 1 PROVE c.decisions[i].stage <= b.stage
    <3>1. CASE i \in 1..n
      BY <1>3, <1>5, <3>1
    <3>2. CASE i = n + 1
      BY <1>1, <1>3, <1>4, <3>2
    <3> QED BY <1>3, <3>1, <3>2
  <2> QED BY <1>3, <2>1
<1>7. CASE c.stage = b.stage
  <2>1. Previous(c) = Previous(b) \cup {n + 1} /\ n + 1 \notin Previous(b)
    <3>1. \A i : i \in 1..n + 1 <=> i \in 1..n \/ i = n + 1
      BY <1>3
    <3>2. n + 1 \notin 1..n
      BY <1>3
    <3> QED BY <1>1, <1>3, <1>7, <3>1, <3>2 DEF Previous
  <2>2. /\ IsFiniteSet(Previous(c))
        /\ Cardinality(Previous(c)) = Cardinality(Previous(b)) + 1
    BY <1>5, <2>1, FS_AddElement
  <2>3. /\ Cardinality(Previous(c)) <= 4
        /\ Len(c.decisions) <= 4 * (c.stage - 1) + Cardinality(Previous(c))
    BY <1>1, <1>3, <1>4, <1>5, <1>7, <2>2
  <2> QED BY <1>1, <1>6, <1>7, <2>2, <2>3 DEF FewDecisions
<1>8. CASE c.stage = b.stage + 1
  <2>1. Len(c.decisions) <= 4 * b.stage
    BY <1>1, <1>3, <1>4, <1>5
  <2> QED BY <1>1, <1>6, <1>8, <2>1, EnteredUndecided
<1> QED BY <1>2, <1>7, <1>8

(* So a checkpoint never holds more than a load accepts. *)
LEMMA FewAreAccepted ==
  ASSUME NEW b \in Schedules, FewDecisions(b)
  PROVE  Len(b.decisions) <= MaxDecisions
<1>1. b.stage \in 1..LastStage /\ LastStage \in Nat /\ Len(b.decisions) \in Nat
  BY Unspents, Constants DEF Schedules
<1>2. /\ Cardinality(Previous(b)) \in Nat /\ Cardinality(Previous(b)) <= 4
      /\ b.stage = LastStage => Cardinality(Previous(b)) = 0
      /\ Len(b.decisions) <= 4 * (b.stage - 1) + Cardinality(Previous(b))
  BY FS_CardinalityType, FS_EmptySet DEF FewDecisions
<1>3. MaxDecisions \in Nat /\ 4 * (LastStage - 1) <= MaxDecisions
  BY DecisionsAssumption DEF LastStage
<1>4. Len(b.decisions) <= 4 * (LastStage - 1)
  BY <1>1, <1>2
<1> QED BY <1>1, <1>3, <1>4

(* A replayable schedule within its budget is loaded as it was. *)
LEMMA ReplayableLoads ==
  ASSUME NEW b, SoundSchedule(b), Conserving(b), Replayable(b), FewDecisions(b)
  PROVE  LoadAccepted(b)
<1>1. b \in Schedules /\ TotalUpdates(b) \in Nat /\ TotalBudget \in Nat
  BY TotalsType DEF SoundSchedule
<1>2. TotalUpdates(b) <= TotalBudget
  <2>1. CASE b.stage = LastStage
    <3>1. TotalBudget - TotalUpdates(b) = StageLimit(b) - b.consumed[LastStage]
      BY <1>1, <2>1, Remaining DEF SoundSchedule, Conserving
    <3>2. b.consumed[LastStage] <= StageLimit(b)
      BY <2>1 DEF Conserving, StageLimit
    <3>3. StageLimit(b) \in Int /\ b.consumed[LastStage] \in Int
      BY <1>1, <2>1, Unspents DEF StageLimit, Schedules
    <3> QED BY <1>1, <3>1, <3>2, <3>3
  <2>2. CASE b.stage # LastStage
    BY <1>1, <2>2, Remaining DEF SoundSchedule, Conserving
  <2> QED BY <2>1, <2>2
<1> DEFINE r == Rebuilt(b)
<1>3. ChargedUpTo(Decisions(Fresh(b.promotion), b.decisions), TotalUpdates(b)) = r
  BY SchedulesAreReplays DEF Replayable, Reached, Rebuilt, ChargedUpTo, Charges
<1>4. r \in Schedules /\ SoundSchedule(r) /\ b \in {r, Prepared(r)} /\ r # Unreplayable
  BY SchedulesAreReplays DEF Replayable, SoundSchedule
<1> HIDE DEF r
<1>5. Restored(b) = IF b.stage # r.stage THEN Prepared(r) ELSE r
  BY <1>3, <1>4 DEF Restored, Decisions
<1>6. Prepared(r) = r \/ Prepared(r).stage # r.stage
  BY <1>4, PreparedFields
<1>7. Restored(b) = b
  BY <1>4, <1>5, <1>6
<1>8. Len(b.decisions) <= MaxDecisions
  BY <1>1, FewAreAccepted
<1> QED BY <1>2, <1>7, <1>8 DEF LoadAccepted

------------------------------------------------------------------------------
(* The schedule's invariant, and what follows from it *)

(* A schedule the program can be in: sound, its rollouts conserved, the one *)
(* its own record of decisions and rollouts replays to, and that record no  *)
(* longer than a load accepts.                                              *)
Accountable(b) ==
  SoundSchedule(b) /\ Conserving(b) /\ Replayable(b) /\ FewDecisions(b)

ScheduleInv == Accountable(budget) /\ Accountable(saved)

(* Every operation of the object keeps its schedule accountable. *)
LEMMA OperationsStayAccountable ==
  /\ \A promotion \in Promotions : Accountable(Fresh(promotion))
  /\ \A b : Accountable(b) => Accountable(Prepared(b))
  /\ \A b : Accountable(b) /\ ChargeAccepted(b) => Accountable(ChargedRollout(b))
  /\ \A b, d : Accountable(b) /\ d \in Decision /\ DecisionAccepted(b, d)
                => Accountable(Decided(b, d))
<1>1. ASSUME NEW promotion \in Promotions PROVE Accountable(Fresh(promotion))
  BY FreshIsSound, FreshConserves, FreshIsReplayable, FreshHasFew DEF Accountable
<1>2. ASSUME NEW b, Accountable(b) PROVE Accountable(Prepared(b))
  BY <1>2, PreparedIsSound, PreparedConserves, PreparedIsReplayable, PreparedHasFew DEF Accountable
<1>3. ASSUME NEW b, Accountable(b), ChargeAccepted(b) PROVE Accountable(ChargedRollout(b))
  BY <1>3, ChargedIsSound, ChargedConserves, ChargedIsReplayable, ChargedHasFew DEF Accountable
<1>4. ASSUME NEW b, NEW d, Accountable(b), d \in Decision, DecisionAccepted(b, d)
      PROVE  Accountable(Decided(b, d))
  BY <1>4, DecidedIsSound, DecidedConserves, DecidedIsReplayable, DecidedHasFew DEF Accountable
<1> QED BY <1>1, <1>2, <1>3, <1>4

(* The invariant holds initially and every action keeps it. *)
LEMMA ScheduleInvariance == ScheduleSpec => []ScheduleInv
<1>1. ScheduleInit => ScheduleInv
  BY OperationsStayAccountable DEF ScheduleInit, ScheduleInv
<1>2. ScheduleInv /\ [ScheduleNext]_scheduleVars => ScheduleInv'
  <2> SUFFICES ASSUME ScheduleInv, [ScheduleNext]_scheduleVars PROVE ScheduleInv'
    OBVIOUS
  <2> USE DEF ScheduleInv
  <2>1. CASE PrepareRollout
    BY <2>1, OperationsStayAccountable DEF PrepareRollout
  <2>2. CASE ChargeRollout
    BY <2>2, OperationsStayAccountable DEF ChargeRollout
  <2>3. CASE SubmitStageValidation
    <3>1. PICK update \in 0..TotalUpdates(budget), checkpoint \in Checkpoints,
               passed \in BOOLEAN :
            LET d == [stage |-> budget.stage, update |-> update,
                      checkpoint |-> checkpoint, passed |-> passed]
            IN /\ DecisionAccepted(budget, d)
               /\ budget' = Decided(budget, d)
               /\ UNCHANGED saved
      BY <2>3 DEF SubmitStageValidation
    <3> DEFINE d == [stage |-> budget.stage, update |-> update,
                     checkpoint |-> checkpoint, passed |-> passed]
    <3>2. d \in Decision
      BY TotalsType DEF Accountable, SoundSchedule, Schedules, Decision
    <3>3. DecisionAccepted(budget, d) /\ budget' = Decided(budget, d) /\ UNCHANGED saved
      BY <3>1
    <3> HIDE DEF d
    <3> QED BY <3>2, <3>3, OperationsStayAccountable
  <2>4. CASE SaveState
    BY <2>4 DEF SaveState
  <2>5. CASE LoadState
    BY <2>5 DEF LoadState, LoadAccepted
  <2>6. CASE UNCHANGED scheduleVars
    BY <2>6 DEF scheduleVars
  <2> QED BY <2>1, <2>2, <2>3, <2>4, <2>5, <2>6 DEF ScheduleNext
<1> QED BY <1>1, <1>2, PTL DEF ScheduleSpec

(* The schedule keeps its type. *)
THEOREM ScheduleTypeCorrect == ScheduleSpec => []ScheduleTypeOK
<1>1. ScheduleInv => ScheduleTypeOK
  BY DEF ScheduleInv, Accountable, SoundSchedule, ScheduleTypeOK
<1> QED BY <1>1, ScheduleInvariance, PTL

(* Whatever the budgets, stages are left in order and only when earned. *)
THEOREM StagesEarned == ScheduleSpec => []StagesAreEarned
<1>1. ScheduleInv => StagesAreEarned
  BY DEF ScheduleInv, Accountable, SoundSchedule, StagesAreEarned
<1> QED BY <1>1, ScheduleInvariance, PTL

(* Whatever the budgets and however long the training, load_state_dict      *)
(* accepts the schedule of every state and rebuilds it exactly.             *)
THEOREM SchedulesLoad == ScheduleSpec => []EveryScheduleLoads
<1>1. ScheduleInv => EveryScheduleLoads
  BY ReplayableLoads DEF ScheduleInv, Accountable, EveryScheduleLoads
<1> QED BY <1>1, ScheduleInvariance, PTL

(* Whatever the budgets, promotion moves what a stage left unspent and the  *)
(* schedule is complete exactly when the whole budget is spent.             *)
THEOREM BudgetConserved == ScheduleSpec => []BudgetIsConserved
<1>1. ScheduleInv => BudgetIsConserved
  <2> SUFFICES ASSUME ScheduleInv PROVE BudgetIsConserved
    OBVIOUS
  <2> DEFINE k == budget.stage - 1
             left == [s \in 1..k |-> StageBudgets[s] - budget.consumed[s]]
  <2>1. budget \in Schedules /\ Conserving(budget)
    BY DEF ScheduleInv, Accountable, SoundSchedule
  <2>2. 1..k \subseteq StageNumbers /\ IsFiniteSet(1..k)
    <3>1. budget.stage \in 1..LastStage
      BY <2>1, Unspents
    <3>2. k \in 0..LastStage
      BY <3>1, Constants
    <3> QED BY <2>1, <3>2, Unspents
  <2>3. \A s \in 1..k : left[s] = Unspent(budget)[s]
    BY <2>2 DEF Unspent
  <2>4. SumOver(left, 1..k) = SumOver(Unspent(budget), 1..k)
    <3> HIDE DEF left, k
    <3> QED BY <2>2, <2>3, SumAgree
  <2>5. Sums!SumFunction(left) = SumOver(left, 1..k)
    <3>1. DOMAIN left = 1..k
      OBVIOUS
    <3> HIDE DEF left, k
    <3> QED BY <3>1 DEF SumOver, Sums!SumFunction
  <2>6. budget.transferred_to_consolidation = Sums!SumFunction(left)
    BY <2>1, <2>4, <2>5 DEF Conserving
  <2>7. budget.status \in Complete <=> TotalUpdates(budget) = TotalBudget
    BY <2>1 DEF Conserving
  <2> QED BY <2>6, <2>7 DEF BudgetIsConserved, Complete
<1> QED BY <1>1, ScheduleInvariance, PTL
==============================================================================
