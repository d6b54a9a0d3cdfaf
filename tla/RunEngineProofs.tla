--------------------------- MODULE RunEngineProofs ---------------------------
(***************************************************************************)
(* Proofs about RunEngine for every number of cases, window, budget and    *)
(* cost bound.  RunInv is the inductive invariant: its first three parts   *)
(* describe the window, SkipsExhausted and SkippedSuffix the skipped       *)
(* cases, SpendPledged the money.                                          *)
(*                                                                         *)
(* From "Refinement" on: the concurrent engine implements the serial loop  *)
(* of SequentialRun, liveness apart.  First come the prefix sums of the    *)
(* recorded spend, by induction over the cases; then the accumulator of    *)
(* the engine, which adds in the order of completion, is related to these  *)
(* sums, which add in the order of the dataset.                            *)
(***************************************************************************)
EXTENDS RunRefinement, DataLemmas

(* The window of `buffered` as cursors.                                    *)
CursorBound == started <= yielded + Window

(* The accumulator never shrinks, so a budget that stopped a case is still *)
(* exhausted.                                                              *)
SkipsExhausted ==
  \A i \in Cases : outcome[i] = "skipped" => BudgetExhausted(spent)

(* Money that is spent or that the running cases may still report: each    *)
(* dispatch finds the budget not reached and pledges at most MaxCost.      *)
SpendPledged ==
  Budget # NoBudget =>
    spent * Grain + Cardinality(running) * MaxCost
      <= Budget - 1 + Window * MaxCost

RunInv ==
  /\ TypeOK
  /\ Lifecycle
  /\ CursorBound
  /\ SkipsExhausted
  /\ SkippedSuffix
  /\ SpendPledged

-----------------------------------------------------------------------------

(* buffered(concurrency.max(1)): the window holds at least one case.       *)
LEMMA WindowType == Window \in Nat \ {0}
BY ConcurrencyAssumption DEF Window

(* The cast to whole micro-USD rounds down and never goes negative.        *)
LEMMA MicrosFloor ==
  ASSUME NEW c \in Nat
  PROVE  Micros(c) \in Nat /\ Micros(c) * Grain <= c
BY GrainAssumption DEF Micros

(* Adding a cost to the accumulator adds at most that cost, in grains.     *)
LEMMA SpendStep ==
  ASSUME NEW s \in Nat, NEW c \in Nat
  PROVE  /\ SpendAfter(s, c) \in Nat
         /\ s * Grain <= SpendAfter(s, c) * Grain
         /\ SpendAfter(s, c) * Grain <= s * Grain + c
<1> DEFINE m == Micros(c)
<1>1. m \in Nat /\ m * Grain <= c
  BY MicrosFloor
<1>2. SpendAfter(s, c) = s + m
  BY DEF SpendAfter
<1>3. (s + m) * Grain = s * Grain + m * Grain /\ m * Grain >= 0
  BY <1>1, GrainAssumption
<1> QED
  BY <1>1, <1>2, <1>3, GrainAssumption

(* An exhausted budget stays exhausted while the accumulator grows.        *)
LEMMA ExhaustedStays ==
  ASSUME NEW s \in Nat, NEW c \in Nat, BudgetExhausted(s)
  PROVE  BudgetExhausted(SpendAfter(s, c))
<1> DEFINE t == SpendAfter(s, c)
<1>1. t \in Nat /\ s * Grain <= t * Grain
  BY SpendStep
<1> HIDE DEF t
<1>4. s * Grain \in Nat /\ t * Grain \in Nat
  BY <1>1, GrainAssumption
<1>2. Budget # NoBudget /\ Budget \in Nat /\ s * Grain >= Budget
  BY BudgetAssumption DEF BudgetExhausted
<1>3. t * Grain >= Budget
  BY <1>1, <1>4, <1>2
<1> QED
  BY <1>2, <1>3 DEF BudgetExhausted, t

(* The running cases lie in the window, so there are at most Window.       *)
LEMMA RunningInWindow ==
  ASSUME TypeOK, Lifecycle
  PROVE  /\ IsFiniteSet(running)
         /\ Cardinality(running) \in Nat
         /\ Cardinality(running) <= started - yielded
<1>1. running \subseteq (yielded + 1) .. started
  BY DEF TypeOK, Lifecycle, Completed, Cases
<1>2. yielded \in Nat /\ started \in Nat /\ yielded <= started
  BY NumCasesAssumption DEF TypeOK, Lifecycle
<1>3. /\ IsFiniteSet((yielded + 1) .. started)
      /\ Cardinality((yielded + 1) .. started) =
           IF yielded + 1 > started THEN 0 ELSE started - (yielded + 1) + 1
  <2>1. yielded + 1 \in Int /\ started \in Int
    BY <1>2
  <2> QED
    BY <2>1, FS_Interval
<1>4. Cardinality((yielded + 1) .. started) = started - yielded
  BY <1>2, <1>3
<1>5. /\ IsFiniteSet(running)
      /\ Cardinality(running) <= Cardinality((yielded + 1) .. started)
  BY <1>1, <1>3, FS_Subset
<1>6. Cardinality(running) \in Nat
  BY <1>5, FS_CardinalityType
<1> QED
  BY <1>4, <1>5, <1>6

-----------------------------------------------------------------------------

LEMMA InitInv == Init => RunInv
<1> SUFFICES ASSUME Init PROVE RunInv
  OBVIOUS
<1> USE DEF Init
<1>1. TypeOK
  BY NumCasesAssumption, MaxCostAssumption DEF TypeOK, Outcomes
<1>2. Lifecycle
  BY DEF Lifecycle, Completed
<1>3. CursorBound
  BY WindowType DEF CursorBound
<1>4. SkipsExhausted /\ SkippedSuffix
  BY DEF SkipsExhausted, SkippedSuffix
<1>5. SpendPledged
  <2> SUFFICES ASSUME Budget # NoBudget PROVE 0 <= Budget - 1 + Window * MaxCost
    BY GrainAssumption, MaxCostAssumption, FS_EmptySet DEF SpendPledged
  <2>1. Budget \in Nat \ {0} /\ Window * MaxCost \in Nat
    BY BudgetAssumption, WindowType, MaxCostAssumption
  <2> QED
    BY <2>1
<1> QED
  BY <1>1, <1>2, <1>3, <1>4, <1>5 DEF RunInv

LEMMA DispatchInv ==
  ASSUME RunInv, NEW i \in Cases, Dispatch(i)
  PROVE  RunInv'
<1> USE DEF RunInv
<1>1. i = started + 1 /\ i <= yielded + Window /\ ~BudgetExhausted(spent)
  BY DEF Dispatch, NextInWindow
<1>2. i \notin running /\ outcome[i] = "none"
  BY <1>1 DEF TypeOK, Lifecycle, Completed, Cases, Outcomes
<1>3. TypeOK'
  BY DEF TypeOK, Dispatch, Cases
<1>4. Lifecycle'
  BY <1>1, <1>2 DEF TypeOK, Lifecycle, Completed, Dispatch, Cases
<1>5. CursorBound'
  BY <1>1 DEF CursorBound, Dispatch
<1>6. \A j \in Cases : outcome[j] # "skipped"
  BY <1>1 DEF SkipsExhausted
<1>7. SkipsExhausted' /\ SkippedSuffix'
  BY <1>6 DEF SkipsExhausted, SkippedSuffix, Dispatch
<1>8. SpendPledged'
  <2> SUFFICES ASSUME Budget # NoBudget
      PROVE spent * Grain + Cardinality(running \cup {i}) * MaxCost
              <= Budget - 1 + Window * MaxCost
    BY DEF SpendPledged, Dispatch, Window
  <2> DEFINE r == Cardinality(running)
  <2>1. r \in Nat /\ Cardinality(running \cup {i}) = r + 1
    BY <1>2, RunningInWindow, FS_AddElement
  <2>2. r + 1 <= Window
    BY <1>1, <2>1, RunningInWindow, WindowType DEF TypeOK
  <2>3. spent * Grain \in Nat /\ spent * Grain <= Budget - 1
    BY <1>1, BudgetAssumption, GrainAssumption DEF BudgetExhausted, TypeOK
  <2>4. (r + 1) * MaxCost <= Window * MaxCost
    BY <2>1, <2>2, WindowType, MaxCostAssumption
  <2>5. (r + 1) * MaxCost \in Nat /\ Window * MaxCost \in Nat /\ Budget \in Nat
    BY <2>1, WindowType, MaxCostAssumption, BudgetAssumption
  <2> QED
    BY <2>1, <2>3, <2>4, <2>5
<1> QED
  BY <1>3, <1>4, <1>5, <1>7, <1>8

LEMMA SkipInv ==
  ASSUME RunInv, NEW i \in Cases, Skip(i)
  PROVE  RunInv'
<1> USE DEF RunInv
<1>1. i = started + 1 /\ i <= yielded + Window /\ BudgetExhausted(spent)
  BY DEF Skip, NextInWindow
<1>2. \A j \in i .. NumCases : j \notin running /\ outcome[j] = "none"
  BY <1>1 DEF TypeOK, Lifecycle, Completed, Cases, Outcomes
<1>3. TypeOK'
  BY DEF TypeOK, Skip, Cases, Outcomes
<1>4. Completed' = Completed \cup {i}
  BY DEF TypeOK, Completed, Skip
<1>5. Lifecycle'
  BY <1>1, <1>2, <1>4 DEF TypeOK, Lifecycle, Skip, Cases
<1>6. CursorBound'
  BY <1>1 DEF CursorBound, Skip
<1>7. SkipsExhausted'
  BY <1>1 DEF SkipsExhausted, Skip, BudgetExhausted
<1>8. SkippedSuffix'
  BY <1>1, <1>2 DEF SkippedSuffix, Skip, TypeOK, Cases
<1>9. SpendPledged'
  BY DEF SpendPledged, Skip, Window
<1> QED
  BY <1>3, <1>5, <1>6, <1>7, <1>8, <1>9

LEMMA FinishInv ==
  ASSUME RunInv, NEW i \in Cases, NEW c \in 0 .. MaxCost, Finish(i, c)
  PROVE  RunInv'
<1> USE DEF RunInv
<1>1. c \in Nat /\ c <= MaxCost /\ i \in running
  BY MaxCostAssumption DEF Finish
<1>2. spent \in Nat /\ spent' = SpendAfter(spent, c) /\ spent' \in Nat
  BY <1>1, SpendStep DEF Finish, TypeOK
<1>3. TypeOK'
  BY <1>2 DEF TypeOK, Finish, Outcomes
<1>4. Completed' = Completed \cup {i}
  BY DEF TypeOK, Completed, Finish
<1>5. Lifecycle'
  BY <1>1, <1>4 DEF TypeOK, Lifecycle, Finish, Cases
<1>6. CursorBound'
  BY DEF CursorBound, Finish
<1>7. SkipsExhausted'
  <2> SUFFICES ASSUME NEW j \in Cases, outcome'[j] = "skipped"
               PROVE  BudgetExhausted(spent)'
    BY DEF SkipsExhausted
  <2>1. outcome[j] = "skipped"
    BY DEF Finish, TypeOK
  <2>2. BudgetExhausted(spent)
    BY <2>1 DEF SkipsExhausted
  <2>3. BudgetExhausted(SpendAfter(spent, c))
    BY <1>1, <1>2, <2>2, ExhaustedStays
  <2> QED
    BY <1>2, <2>3 DEF BudgetExhausted
<1>8. SkippedSuffix'
  BY <1>1 DEF SkippedSuffix, Finish, TypeOK, Cases
<1>9. SpendPledged'
  <2> SUFFICES ASSUME Budget # NoBudget
      PROVE spent' * Grain + Cardinality(running \ {i}) * MaxCost
              <= Budget - 1 + Window * MaxCost
    BY DEF SpendPledged, Finish, Window
  <2> DEFINE r == Cardinality(running)
  <2>1. r \in Nat /\ IsFiniteSet(running)
    BY RunningInWindow
  <2>2. Cardinality(running \ {i}) = r - 1
    BY <1>1, <2>1, FS_RemoveElement
  <2>3. spent' * Grain <= spent * Grain + c
    BY <1>1, <1>2, SpendStep
  <2>4. (r - 1) * MaxCost = r * MaxCost - MaxCost
    BY <2>1, MaxCostAssumption
  <2>5. spent * Grain + r * MaxCost <= Budget - 1 + Window * MaxCost
    BY DEF SpendPledged
  <2>6. /\ spent * Grain \in Nat /\ spent' * Grain \in Nat
        /\ r * MaxCost \in Nat /\ Window * MaxCost \in Nat /\ Budget \in Nat
    BY <1>2, <2>1, WindowType, MaxCostAssumption, GrainAssumption, BudgetAssumption
  <2> QED
    BY <1>1, <2>2, <2>3, <2>4, <2>5, <2>6, MaxCostAssumption
<1> QED
  BY <1>3, <1>5, <1>6, <1>7, <1>8, <1>9

LEMMA YieldInv ==
  ASSUME RunInv, Yield
  PROVE  RunInv'
<1> USE DEF RunInv
<1>1. yielded < started /\ outcome[yielded + 1] # "none"
  BY DEF Yield, HeadReady
<1>2. yielded \in Nat /\ started \in Nat /\ started <= NumCases
  BY NumCasesAssumption DEF TypeOK
<1>3. TypeOK'
  <2>1. yielded + 1 \in 0 .. NumCases
    BY <1>1, <1>2, NumCasesAssumption
  <2> QED
    BY <2>1 DEF TypeOK, Yield
<1>4. Lifecycle'
  <2>1. \A j \in 1 .. (yielded + 1) : outcome[j] # "none"
    BY <1>1, <1>2 DEF Lifecycle
  <2> QED
    BY <1>1, <1>2, <2>1 DEF Lifecycle, Completed, Yield
<1>5. CursorBound'
  <2>1. started <= yielded + 1 + Window
    BY <1>2, WindowType DEF CursorBound
  <2> QED
    BY <2>1 DEF CursorBound, Yield, Window
<1>6. SkipsExhausted' /\ SkippedSuffix' /\ SpendPledged'
  BY DEF SkipsExhausted, SkippedSuffix, SpendPledged, Yield, BudgetExhausted, Window
<1> QED
  BY <1>3, <1>4, <1>5, <1>6

LEMMA StutterInv ==
  ASSUME RunInv, UNCHANGED vars
  PROVE  RunInv'
BY DEF RunInv, vars, TypeOK, Lifecycle, Completed, CursorBound, SkipsExhausted,
       BudgetExhausted, SkippedSuffix, SpendPledged, Window

LEMMA NextInv == RunInv /\ [Next]_vars => RunInv'
<1> SUFFICES ASSUME RunInv, [Next]_vars PROVE RunInv'
  OBVIOUS
<1>1. ASSUME NEW i \in Cases, Dispatch(i) PROVE RunInv'
  BY <1>1, DispatchInv
<1>2. ASSUME NEW i \in Cases, Skip(i) PROVE RunInv'
  BY <1>2, SkipInv
<1>3. ASSUME NEW i \in Cases, NEW c \in 0 .. MaxCost, Finish(i, c) PROVE RunInv'
  BY <1>3, FinishInv
<1>4. CASE Yield
  BY <1>4, YieldInv
<1>5. CASE UNCHANGED vars
  BY <1>5, StutterInv
<1> QED
  BY <1>1, <1>2, <1>3, <1>4, <1>5 DEF Next, Return

(* The inductive invariant of the engine.                                  *)
THEOREM RunInvariant == Spec => []RunInv
BY InitInv, NextInv, PTL DEF Spec

(* Every variable of the engine keeps its type.                            *)
THEOREM TypeCorrect == Spec => []TypeOK
<1>1. RunInv => TypeOK
  BY DEF RunInv
<1> QED
  BY <1>1, RunInvariant, PTL

(* A case is collected only when completed, and is never both running and  *)
(* completed.                                                              *)
THEOREM LifecycleCorrect == Spec => []Lifecycle
<1>1. RunInv => Lifecycle
  BY DEF RunInv
<1> QED
  BY <1>1, RunInvariant, PTL

LEMMA InFlightFollows == RunInv => InFlightBound
<1> SUFFICES ASSUME RunInv PROVE InFlightBound
  OBVIOUS
<1>1. started - yielded <= Window
  BY WindowType DEF RunInv, CursorBound, TypeOK
<1>2. Cardinality(running) \in Nat /\ Cardinality(running) <= started - yielded
  BY RunningInWindow DEF RunInv
<1> QED
  BY <1>1, <1>2, WindowType DEF InFlightBound, RunInv, TypeOK

(* At most `concurrency.max(1)` cases are between first poll and           *)
(* collection, for every number of cases and every order of completion.    *)
THEOREM InFlightBounded == Spec => []InFlightBound
BY InFlightFollows, RunInvariant, PTL

(* The cases the budget stops are a suffix of the dataset.                 *)
THEOREM SkippedSuffixHolds == Spec => []SkippedSuffix
<1>1. RunInv => SkippedSuffix
  BY DEF RunInv
<1> QED
  BY <1>1, RunInvariant, PTL

LEMMA SpendFollows == RunInv => SpendBound
<1> SUFFICES ASSUME RunInv, Budget # NoBudget
             PROVE  spent * Grain < Budget + Window * MaxCost
  BY DEF SpendBound
<1> DEFINE r == Cardinality(running)
<1>1. r * MaxCost \in Nat
  BY RunningInWindow, MaxCostAssumption DEF RunInv
<1>2. spent * Grain + r * MaxCost <= Budget - 1 + Window * MaxCost
  BY DEF RunInv, SpendPledged
<1>3. spent * Grain \in Nat /\ Window * MaxCost \in Nat /\ Budget \in Nat
  BY WindowType, MaxCostAssumption, GrainAssumption, BudgetAssumption
     DEF RunInv, TypeOK
<1> QED
  BY <1>1, <1>2, <1>3

(* The recorded spend exceeds the budget by less than Window full cases.   *)
THEOREM SpendBounded == Spec => []SpendBound
BY SpendFollows, RunInvariant, PTL

(* One tick for every completed case and none besides: a completion adds   *)
(* one case to the completed ones, which had not been among them.          *)
LEMMA TickStep == RunInv /\ TickPerCase /\ [Next]_vars => TickPerCase'
<1> SUFFICES ASSUME RunInv, TickPerCase, [Next]_vars PROVE TickPerCase'
  OBVIOUS
<1>1. IsFiniteSet(Completed) /\ ticks = Cardinality(Completed)
  <2>1. IsFiniteSet(Cases)
    BY FS_Interval, NumCasesAssumption DEF Cases
  <2> QED
    BY <2>1, FS_Subset DEF Completed, TickPerCase
<1>2. ASSUME NEW i \in Cases, i \notin Completed, ticks' = ticks + 1,
             Completed' = Completed \cup {i}
      PROVE  TickPerCase'
  <2>1. Cardinality(Completed \cup {i}) = Cardinality(Completed) + 1
    BY <1>1, <1>2, FS_AddElement
  <2> QED
    BY <1>1, <1>2, <2>1 DEF TickPerCase
<1>3. ASSUME NEW i \in Cases, Dispatch(i) PROVE TickPerCase'
  BY <1>3 DEF Dispatch, TickPerCase, Completed
<1>4. ASSUME NEW i \in Cases, Skip(i) PROVE TickPerCase'
  <2>1. i = started + 1 /\ started \in Nat
    BY <1>4, NumCasesAssumption DEF Skip, NextInWindow, RunInv, TypeOK
  <2>2. i \notin Completed
    BY <2>1 DEF RunInv, Lifecycle
  <2>3. Completed' = Completed \cup {i}
    BY <1>4 DEF Skip, Completed, RunInv, TypeOK
  <2> QED
    BY <1>2, <1>4, <2>2, <2>3 DEF Skip
<1>5. ASSUME NEW i \in Cases, NEW c \in 0 .. MaxCost, Finish(i, c) PROVE TickPerCase'
  <2>1. i \notin Completed
    BY <1>5 DEF Finish, RunInv, Lifecycle
  <2>2. Completed' = Completed \cup {i}
    BY <1>5 DEF Finish, Completed, RunInv, TypeOK
  <2> QED
    BY <1>2, <1>5, <2>1, <2>2 DEF Finish
<1>6. CASE Yield
  BY <1>6 DEF Yield, TickPerCase, Completed
<1>7. CASE UNCHANGED vars
  BY <1>7 DEF vars, TickPerCase, Completed
<1> QED
  BY <1>3, <1>4, <1>5, <1>6, <1>7 DEF Next, Return

LEMMA TickInit == Init => TickPerCase
BY FS_EmptySet DEF Init, TickPerCase, Completed

(* The progress sink fires exactly once for each completed case.           *)
THEOREM TickPerCaseHolds == Spec => []TickPerCase
BY TickInit, TickStep, RunInvariant, PTL DEF Spec

-----------------------------------------------------------------------------
(* Refinement. *)

(* Induction up to NumCases: a set that holds 0 and with each number its   *)
(* successor holds them all.                                               *)
LEMMA CaseInduction ==
  ASSUME NEW S, 0 \in S,
         \A k \in Cases : k - 1 \in S => k \in S
  PROVE  \A k \in 0 .. NumCases : k \in S
<1> SUFFICES ASSUME NEW k \in 0 .. NumCases, k \notin S
             PROVE  FALSE
  OBVIOUS
<1> DEFINE T == {n \in 0 .. NumCases : n \notin S}
<1>1. T \subseteq Nat /\ T # {}
  BY NumCasesAssumption
<1>2. PICK n \in T : \A m \in T : n <= m
  BY <1>1, LeastElement
<1>3. n \in Cases /\ n - 1 \in 0 .. NumCases
  BY <1>2, NumCasesAssumption DEF Cases
<1>4. n - 1 \notin T
  BY <1>2, <1>3
<1> QED
  BY <1>2, <1>3, <1>4

-----------------------------------------------------------------------------
(* Prefix sums. *)

Costs == [Cases -> 0 .. MaxCost]

LEMMA MicrosNat ==
  ASSUME NEW c \in Costs, NEW i \in Cases
  PROVE  Micros(c[i]) \in Nat
BY MicrosFloor, MaxCostAssumption DEF Costs

(* There is a function that adds up the costs.                             *)
LEMMA PrefixExists ==
  ASSUME NEW c \in Costs
  PROVE  \E f \in [0 .. NumCases -> Nat] :
           /\ f[0] = 0
           /\ \A k \in Cases : f[k] = f[k - 1] + Micros(c[k])
<1> DEFINE Sums(n) == {f \in [0 .. NumCases -> Nat] :
                         /\ f[0] = 0
                         /\ \A k \in 1 .. n : f[k] = f[k - 1] + Micros(c[k])}
           S == {n \in 0 .. NumCases : Sums(n) # {}}
<1>1. 0 \in S
  <2>1. [k \in 0 .. NumCases |-> 0] \in Sums(0)
    BY NumCasesAssumption
  <2> QED
    BY <2>1, NumCasesAssumption
<1>2. ASSUME NEW n \in Cases, n - 1 \in S
      PROVE  n \in S
  <2>1. PICK f \in Sums(n - 1) : TRUE
    BY <1>2
  <2> DEFINE g == [f EXCEPT ![n] = f[n - 1] + Micros(c[n])]
  <2>2. n \in Nat /\ n \in 1 .. NumCases /\ n - 1 \in 0 .. NumCases /\ 0 \in 0 .. NumCases
    BY NumCasesAssumption DEF Cases
  <2>3. f \in [0 .. NumCases -> Nat] /\ f[0] = 0
    BY <2>1
  <2>4. f[n - 1] + Micros(c[n]) \in Nat
    BY <2>2, <2>3, MicrosNat
  <2>5. g \in [0 .. NumCases -> Nat] /\ g[0] = 0
    BY <2>2, <2>3, <2>4
  <2>6. ASSUME NEW k \in 1 .. n
        PROVE  g[k] = g[k - 1] + Micros(c[k])
    <3>1. k \in 0 .. NumCases /\ k - 1 \in 0 .. NumCases /\ k - 1 # n
      BY <2>2, NumCasesAssumption
    <3>2. g[k - 1] = f[k - 1]
      BY <2>3, <3>1
    <3>3. CASE k = n
      BY <2>3, <3>1, <3>2, <3>3
    <3>4. CASE k # n
      <4>1. g[k] = f[k] /\ k \in 1 .. n - 1
        BY <2>2, <2>3, <3>1, <3>4
      <4> QED
        BY <2>1, <3>2, <4>1
    <3> QED
      BY <3>3, <3>4
  <2> HIDE DEF g
  <2>7. g \in Sums(n)
    BY <2>5, <2>6, Zenon
  <2>8. n \in 0 .. NumCases
    BY <2>2
  <2> HIDE DEF Sums
  <2> QED
    BY <2>7, <2>8, Zenon
<1> HIDE DEF S
<1>3. NumCases \in S
  BY <1>1, <1>2, CaseInduction, NumCasesAssumption
<1> QED
  BY <1>3 DEF S, Cases

(* PrefixSpend is one.                                                     *)
LEMMA PrefixRecursion ==
  ASSUME NEW c \in Costs
  PROVE  /\ PrefixSpend(c)[0] = 0
         /\ \A k \in Cases : PrefixSpend(c)[k] = PrefixSpend(c)[k - 1] + Micros(c[k])
<1> DEFINE Adds(f) == f = [k \in 0 .. NumCases |->
                             IF k = 0 THEN 0 ELSE f[k - 1] + Micros(c[k])]
<1>1. PICK f \in [0 .. NumCases -> Nat] :
        /\ f[0] = 0
        /\ \A k \in Cases : f[k] = f[k - 1] + Micros(c[k])
  BY PrefixExists
<1>2. Adds(f)
  BY <1>1 DEF Cases
<1>3. PrefixSpend(c) = CHOOSE g : Adds(g)
  BY DEF PrefixSpend
<1>4. Adds(PrefixSpend(c))
  BY <1>2, <1>3
<1> HIDE DEF Adds
<1>5. \A k \in 0 .. NumCases :
        PrefixSpend(c)[k] = IF k = 0 THEN 0 ELSE PrefixSpend(c)[k - 1] + Micros(c[k])
  BY <1>4 DEF Adds
<1> QED
  BY <1>5, NumCasesAssumption DEF Cases

LEMMA PrefixType ==
  ASSUME NEW c \in Costs
  PROVE  \A k \in 0 .. NumCases : PrefixSpend(c)[k] \in Nat
<1> DEFINE S == {k \in Nat : PrefixSpend(c)[k] \in Nat}
<1>1. 0 \in S
  BY PrefixRecursion
<1>2. ASSUME NEW k \in Cases, k - 1 \in S
      PROVE  k \in S
  BY <1>2, PrefixRecursion, MicrosNat, NumCasesAssumption DEF Cases
<1> HIDE DEF S
<1>3. \A k \in 0 .. NumCases : k \in S
  BY <1>1, <1>2, CaseInduction
<1> QED
  BY <1>3 DEF S

(* A prefix sums up its own costs only.                                    *)
LEMMA PrefixLocal ==
  ASSUME NEW c \in Costs, NEW d \in Costs, NEW n \in 0 .. NumCases,
         \A i \in 1 .. n : c[i] = d[i]
  PROVE  \A k \in 0 .. n : PrefixSpend(c)[k] = PrefixSpend(d)[k]
<1> DEFINE S == {k \in Nat : k <= n => PrefixSpend(c)[k] = PrefixSpend(d)[k]}
<1>1. 0 \in S
  BY PrefixRecursion
<1>2. ASSUME NEW k \in Cases, k - 1 \in S
      PROVE  k \in S
  <2>1. k \in Nat /\ k >= 1 /\ n \in Nat
    BY NumCasesAssumption DEF Cases
  <2>2. SUFFICES ASSUME k <= n
                 PROVE  PrefixSpend(c)[k] = PrefixSpend(d)[k]
    BY <2>1
  <2>3. c[k] = d[k] /\ PrefixSpend(c)[k - 1] = PrefixSpend(d)[k - 1]
    BY <1>2, <2>1, <2>2
  <2> QED
    BY <2>3, PrefixRecursion
<1> HIDE DEF S
<1>3. \A k \in 0 .. NumCases : k \in S
  BY <1>1, <1>2, CaseInduction
<1> QED
  BY <1>3, NumCasesAssumption DEF S

(* A cost that is reported late is added to the prefixes from its case on. *)
LEMMA PrefixUpdate ==
  ASSUME NEW c \in Costs, NEW i \in Cases, c[i] = 0, NEW x \in 0 .. MaxCost
  PROVE  \A k \in 0 .. NumCases :
           PrefixSpend([c EXCEPT ![i] = x])[k] =
             PrefixSpend(c)[k] + IF k >= i THEN Micros(x) ELSE 0
<1> DEFINE d == [c EXCEPT ![i] = x]
           S == {k \in Nat : PrefixSpend(d)[k] =
                               PrefixSpend(c)[k] + IF k >= i THEN Micros(x) ELSE 0}
<1>1. d \in Costs /\ d[i] = x /\ \A k \in Cases : k # i => d[k] = c[k]
  BY DEF Costs
<1>2. Micros(x) \in Nat /\ Micros(0) = 0
  BY MicrosFloor, MaxCostAssumption, GrainAssumption DEF Micros
<1>3. i \in Nat /\ i >= 1
  BY NumCasesAssumption DEF Cases
<1> HIDE DEF d
<1>4. 0 \in S
  BY <1>1, <1>3, PrefixRecursion
<1>5. ASSUME NEW k \in Cases, k - 1 \in S
      PROVE  k \in S
  <2>1. k \in Nat /\ k >= 1 /\ k - 1 \in 0 .. NumCases /\ k \in 0 .. NumCases
    BY NumCasesAssumption DEF Cases
  <2>2. /\ PrefixSpend(d)[k] = PrefixSpend(d)[k - 1] + Micros(d[k])
        /\ PrefixSpend(c)[k] = PrefixSpend(c)[k - 1] + Micros(c[k])
    BY <1>1, PrefixRecursion
  <2>3. PrefixSpend(d)[k - 1] =
          PrefixSpend(c)[k - 1] + IF k - 1 >= i THEN Micros(x) ELSE 0
    BY <1>5
  <2>4. PrefixSpend(c)[k - 1] \in Nat /\ Micros(c[k]) \in Nat
    BY <2>1, PrefixType, MicrosNat
  <2>5. PrefixSpend(d)[k] = PrefixSpend(c)[k] + IF k >= i THEN Micros(x) ELSE 0
    <3>1. CASE k = i
      <4>1. Micros(d[k]) = Micros(x) /\ Micros(c[k]) = 0
        BY <1>1, <1>2, <3>1
      <4>2. ~(k - 1 >= i) /\ k >= i
        BY <1>3, <3>1
      <4> QED
        BY <1>2, <2>2, <2>3, <2>4, <4>1, <4>2
    <3>2. CASE k # i
      <4>1. Micros(d[k]) = Micros(c[k])
        BY <1>1, <3>2
      <4>2. k - 1 >= i <=> k >= i
        BY <1>3, <2>1, <3>2
      <4> QED
        BY <1>2, <2>2, <2>3, <2>4, <4>1, <4>2
    <3> QED
      BY <3>1, <3>2
  <2> QED
    BY <2>1, <2>5
<1> HIDE DEF S
<1>6. \A k \in 0 .. NumCases : k \in S
  BY <1>4, <1>5, CaseInduction
<1> QED
  BY <1>6 DEF S, d

(* Longer prefixes sum up to more.                                         *)
LEMMA PrefixGrows ==
  ASSUME NEW c \in Costs, NEW j \in 0 .. NumCases
  PROVE  \A k \in j .. NumCases : PrefixSpend(c)[j] <= PrefixSpend(c)[k]
<1> DEFINE S == {k \in Nat : k >= j => PrefixSpend(c)[j] <= PrefixSpend(c)[k]}
<1>1. PrefixSpend(c)[j] \in Nat /\ j \in Nat
  BY PrefixType, NumCasesAssumption
<1>2. 0 \in S
  BY <1>1
<1>3. ASSUME NEW k \in Cases, k - 1 \in S
      PROVE  k \in S
  <2>1. k \in Nat /\ k - 1 \in 0 .. NumCases
    BY NumCasesAssumption DEF Cases
  <2>2. PrefixSpend(c)[k] = PrefixSpend(c)[k - 1] + Micros(c[k])
    BY PrefixRecursion
  <2>3. PrefixSpend(c)[k - 1] \in Nat /\ Micros(c[k]) \in Nat
    BY <2>1, PrefixType, MicrosNat
  <2>4. CASE k > j
    <3>1. PrefixSpend(c)[j] <= PrefixSpend(c)[k - 1]
      BY <1>1, <1>3, <2>1, <2>4
    <3> QED
      BY <1>1, <2>1, <2>2, <2>3, <3>1
  <2>5. CASE k = j
    BY <1>1, <2>1, <2>5
  <2>6. CASE k < j
    BY <1>1, <2>1, <2>6
  <2> QED
    BY <1>1, <2>1, <2>4, <2>5, <2>6
<1> HIDE DEF S
<1>4. \A k \in 0 .. NumCases : k \in S
  BY <1>2, <1>3, CaseInduction
<1> QED
  BY <1>1, <1>4, NumCasesAssumption DEF S

(* Cases that cost nothing leave the sum as it is.                         *)
LEMMA PrefixFlat ==
  ASSUME NEW c \in Costs, NEW j \in 0 .. NumCases,
         \A i \in Cases : i > j => c[i] = 0
  PROVE  PrefixSpend(c)[NumCases] = PrefixSpend(c)[j]
<1> DEFINE S == {k \in Nat : k >= j => PrefixSpend(c)[k] = PrefixSpend(c)[j]}
<1>1. j \in Nat /\ Micros(0) = 0
  BY NumCasesAssumption, GrainAssumption DEF Micros
<1>2. 0 \in S
  BY <1>1
<1>3. ASSUME NEW k \in Cases, k - 1 \in S
      PROVE  k \in S
  <2>1. k \in Nat /\ k - 1 \in 0 .. NumCases
    BY NumCasesAssumption DEF Cases
  <2>2. PrefixSpend(c)[k] = PrefixSpend(c)[k - 1] + Micros(c[k])
    BY PrefixRecursion
  <2>3. PrefixSpend(c)[k - 1] \in Nat
    BY <2>1, PrefixType
  <2>4. CASE k > j
    <3>1. PrefixSpend(c)[k - 1] = PrefixSpend(c)[j]
      BY <1>1, <1>3, <2>1, <2>4
    <3>2. c[k] = 0
      BY <2>4
    <3> QED
      BY <1>1, <2>1, <2>2, <2>3, <3>1, <3>2
  <2>5. CASE ~(k > j)
    BY <1>1, <2>1, <2>5
  <2> QED
    BY <2>4, <2>5
<1> HIDE DEF S
<1>4. \A k \in 0 .. NumCases : k \in S
  BY <1>2, <1>3, CaseInduction
<1> QED
  BY <1>1, <1>4, NumCasesAssumption DEF S

-----------------------------------------------------------------------------
(* The accumulator and the sums. *)

Unbilled == \A i \in Cases : outcome[i] # "ran" => cost[i] = 0

SpentIsRecorded == spent = RecordedSpend(NumCases)

(* A case was dispatched when at least the cases a full window in front of *)
(* it had been collected, and found budget left.                           *)
DispatchedInTime ==
  \A i \in Cases :
    (i \in running \/ outcome[i] = "ran") /\ i > Window =>
      ~BudgetExhausted(RecordedSpend(i - Window))

SerialInv == RunInv /\ Unbilled /\ SpentIsRecorded /\ DispatchedInTime

LEMMA SerialInit == Init => SerialInv
<1> SUFFICES ASSUME Init PROVE SerialInv
  OBVIOUS
<1>1. RunInv
  BY InitInv
<1>2. Unbilled /\ DispatchedInTime
  BY DEF Init, Unbilled, DispatchedInTime
<1>3. SpentIsRecorded
  <2>1. cost \in Costs /\ \A i \in Cases : cost[i] = 0
    BY MaxCostAssumption DEF Init, Costs
  <2>2. PrefixSpend(cost)[NumCases] = PrefixSpend(cost)[0]
    BY <2>1, PrefixFlat, NumCasesAssumption DEF Cases
  <2> QED
    BY <2>1, <2>2, PrefixRecursion DEF Init, SpentIsRecorded, RecordedSpend
<1> QED
  BY <1>1, <1>2, <1>3 DEF SerialInv

(* What Finish(i, c) does to the sums: those in front of case i stay, the  *)
(* whole grows as the accumulator does.                                    *)
LEMMA FinishSums ==
  ASSUME SerialInv, NEW i \in Cases, NEW c \in 0 .. MaxCost, Finish(i, c)
  PROVE  /\ cost \in Costs /\ cost' \in Costs
         /\ yielded < i
         /\ \A k \in 0 .. yielded : PrefixSpend(cost')[k] = PrefixSpend(cost)[k]
         /\ PrefixSpend(cost')[NumCases] = PrefixSpend(cost)[NumCases] + Micros(c)
<1>1. cost \in Costs /\ yielded \in 0 .. NumCases /\ outcome \in [Cases -> Outcomes]
  BY DEF SerialInv, RunInv, TypeOK, Costs
<1>2. cost' = [cost EXCEPT ![i] = c]
  BY DEF Finish
<1>3. outcome[i] = "none"
  BY DEF Finish, SerialInv, RunInv, Lifecycle, Completed
<1>4. cost[i] = 0
  BY <1>3 DEF SerialInv, Unbilled
<1>5. cost' \in Costs
  BY <1>1, <1>2 DEF Costs
<1>6. yielded < i
  <2>1. ~(i \in 1 .. yielded)
    BY <1>3 DEF SerialInv, RunInv, Lifecycle
  <2> QED
    BY <1>1, <2>1, NumCasesAssumption DEF Cases
<1>7. \A k \in 0 .. NumCases :
        PrefixSpend(cost')[k] = PrefixSpend(cost)[k] + IF k >= i THEN Micros(c) ELSE 0
  BY <1>1, <1>2, <1>4, PrefixUpdate
<1>8. \A k \in 0 .. NumCases : PrefixSpend(cost)[k] \in Nat
  BY <1>1, PrefixType
<1>9. PrefixSpend(cost')[NumCases] = PrefixSpend(cost)[NumCases] + Micros(c)
  <2>1. NumCases \in 0 .. NumCases /\ NumCases >= i
    BY NumCasesAssumption DEF Cases
  <2> QED
    BY <1>7, <2>1
<1>10. ASSUME NEW k \in 0 .. yielded
       PROVE  PrefixSpend(cost')[k] = PrefixSpend(cost)[k]
  <2>1. k \in 0 .. NumCases /\ ~(k >= i)
    BY <1>1, <1>6, NumCasesAssumption DEF Cases
  <2> QED
    BY <1>7, <1>8, <2>1
<1> QED
  BY <1>1, <1>5, <1>6, <1>9, <1>10

LEMMA FinishSerial ==
  ASSUME SerialInv, NEW i \in Cases, NEW c \in 0 .. MaxCost, Finish(i, c)
  PROVE  Unbilled' /\ SpentIsRecorded' /\ DispatchedInTime'
<1>1. /\ outcome \in [Cases -> Outcomes] /\ cost \in Costs
      /\ started \in Nat /\ yielded \in Nat /\ started <= yielded + Window
  BY NumCasesAssumption DEF SerialInv, RunInv, TypeOK, Costs, CursorBound
<1>2. Unbilled'
  BY <1>1 DEF SerialInv, Unbilled, Finish, Costs
<1>3. SpentIsRecorded'
  <2>1. PrefixSpend(cost')[NumCases] = PrefixSpend(cost)[NumCases] + Micros(c)
    BY FinishSums
  <2>2. spent' = spent + Micros(c) /\ spent = PrefixSpend(cost)[NumCases]
    BY DEF Finish, SpendAfter, SerialInv, SpentIsRecorded, RecordedSpend
  <2> QED
    BY <2>1, <2>2 DEF SpentIsRecorded, RecordedSpend
<1>4. DispatchedInTime'
  <2> SUFFICES ASSUME NEW j \in Cases, j \in running' \/ outcome'[j] = "ran", j > Window
               PROVE  ~BudgetExhausted(PrefixSpend(cost')[j - Window])
    BY DEF DispatchedInTime, RecordedSpend, BudgetExhausted, Window
  <2>1. j \in running \/ outcome[j] = "ran"
    BY <1>1 DEF Finish
  <2>2. j <= started
    <3>1. j \in running \cup Completed
      BY <2>1 DEF Completed
    <3> QED
      BY <1>1, <3>1 DEF SerialInv, RunInv, Lifecycle
  <2>3. j - Window \in 0 .. yielded
    BY <1>1, <2>2, WindowType DEF Cases
  <2>4. ~BudgetExhausted(PrefixSpend(cost)[j - Window])
    BY <2>1 DEF SerialInv, DispatchedInTime, RecordedSpend
  <2>5. PrefixSpend(cost')[j - Window] = PrefixSpend(cost)[j - Window]
    BY <2>3, FinishSums
  <2> QED
    BY <2>4, <2>5
<1> QED
  BY <1>2, <1>3, <1>4

(* A budget that is exhausted is so for every larger spend.                *)
LEMMA ExhaustedGrows ==
  ASSUME NEW s \in Nat, NEW t \in Nat, s <= t, BudgetExhausted(s)
  PROVE  BudgetExhausted(t)
<1>1. Budget # NoBudget /\ Budget \in Nat /\ s * Grain >= Budget
  BY BudgetAssumption DEF BudgetExhausted
<1>2. s * Grain <= t * Grain /\ s * Grain \in Nat /\ t * Grain \in Nat
  BY GrainAssumption
<1> QED
  BY <1>1, <1>2 DEF BudgetExhausted

LEMMA DispatchSerial ==
  ASSUME SerialInv, NEW i \in Cases, Dispatch(i)
  PROVE  Unbilled' /\ SpentIsRecorded' /\ DispatchedInTime'
<1>1. Unbilled' /\ SpentIsRecorded'
  BY DEF SerialInv, Unbilled, SpentIsRecorded, RecordedSpend, Dispatch
<1>2. DispatchedInTime'
  <2> SUFFICES ASSUME NEW j \in Cases, j \in running' \/ outcome'[j] = "ran", j > Window
               PROVE  ~BudgetExhausted(RecordedSpend(j - Window))
    BY DEF DispatchedInTime, RecordedSpend, BudgetExhausted, Window, Dispatch
  <2>1. CASE j = i
    <3>1. cost \in Costs /\ j - Window \in 0 .. NumCases
      BY WindowType, NumCasesAssumption DEF SerialInv, RunInv, TypeOK, Costs, Cases
    <3>2. NumCases \in (j - Window) .. NumCases
      BY <3>1, NumCasesAssumption
    <3>3. PrefixSpend(cost)[j - Window] <= spent
      BY <3>1, <3>2, PrefixGrows DEF SerialInv, SpentIsRecorded, RecordedSpend
    <3>4. ~BudgetExhausted(spent) /\ spent \in Nat
      BY DEF Dispatch, SerialInv, RunInv, TypeOK
    <3>5. PrefixSpend(cost)[j - Window] \in Nat
      BY <3>1, PrefixType
    <3> QED
      BY <3>3, <3>4, <3>5, ExhaustedGrows DEF RecordedSpend
  <2>2. CASE j # i
    BY <2>2 DEF Dispatch, SerialInv, DispatchedInTime
  <2> QED
    BY <2>1, <2>2
<1> QED
  BY <1>1, <1>2

LEMMA SerialStep == SerialInv /\ [Next]_vars => SerialInv'
<1> SUFFICES ASSUME SerialInv, [Next]_vars PROVE SerialInv'
  OBVIOUS
<1>1. RunInv'
  BY NextInv DEF SerialInv
<1>2. ASSUME NEW i \in Cases, Dispatch(i) PROVE SerialInv'
  BY <1>1, <1>2, DispatchSerial DEF SerialInv
<1>3. ASSUME NEW i \in Cases, Skip(i) PROVE SerialInv'
  <2>1. Unbilled' /\ SpentIsRecorded' /\ DispatchedInTime'
    <3>1. outcome[i] # "ran"
      <4>1. i \notin Completed
        BY <1>3, NumCasesAssumption
           DEF Skip, NextInWindow, SerialInv, RunInv, TypeOK, Lifecycle, Cases
      <4> QED
        BY <4>1 DEF Completed
    <3> QED
      BY <1>3, <3>1 DEF Skip, SerialInv, RunInv, TypeOK, Unbilled, SpentIsRecorded, RecordedSpend,
                        DispatchedInTime, BudgetExhausted, Window
  <2> QED
    BY <1>1, <2>1 DEF SerialInv
<1>4. ASSUME NEW i \in Cases, NEW c \in 0 .. MaxCost, Finish(i, c) PROVE SerialInv'
  BY <1>1, <1>4, FinishSerial DEF SerialInv
<1>5. CASE Yield
  BY <1>1, <1>5 DEF Yield, SerialInv, Unbilled, SpentIsRecorded, RecordedSpend,
                    DispatchedInTime, BudgetExhausted, Window
<1>6. CASE UNCHANGED vars
  BY <1>1, <1>6 DEF vars, SerialInv, Unbilled, SpentIsRecorded, RecordedSpend,
                    DispatchedInTime, BudgetExhausted, Window
<1> QED
  BY <1>2, <1>3, <1>4, <1>5, <1>6 DEF Next, Return

-----------------------------------------------------------------------------
(* The steps of the engine as steps of the serial loop. *)

LEMMA CollectedType ==
  ASSUME SerialInv
  PROVE  /\ yielded \in 0 .. NumCases
         /\ collected \in [1 .. yielded -> [kind : Outcomes, total : Nat]]
         /\ Len(collected) = yielded
<1>1. yielded \in 0 .. NumCases /\ cost \in Costs /\ outcome \in [Cases -> Outcomes]
  BY DEF SerialInv, RunInv, TypeOK, Costs
<1>2. \A k \in 1 .. yielded : outcome[k] \in Outcomes /\ RecordedSpend(k) \in Nat
  <2> SUFFICES ASSUME NEW k \in 1 .. yielded
               PROVE  outcome[k] \in Outcomes /\ RecordedSpend(k) \in Nat
    OBVIOUS
  <2>1. k \in Cases /\ k \in 0 .. NumCases
    BY <1>1, NumCasesAssumption DEF Cases
  <2> QED
    BY <1>1, <2>1, PrefixType DEF RecordedSpend
<1>3. collected \in [1 .. yielded -> [kind : Outcomes, total : Nat]]
  BY <1>2 DEF collected
<1> QED
  BY <1>1, <1>3, NumCasesAssumption

(* The running total of the serial loop.                                   *)
LEMMA TotalIsRecorded ==
  ASSUME SerialInv, NEW k \in Int, k <= yielded
  PROVE  Sequential!Total(k) = IF k <= 0 THEN 0 ELSE RecordedSpend(k)
<1>1. k > 0 => k \in 1 .. yielded
  BY CollectedType, NumCasesAssumption
<1> QED
  BY <1>1 DEF Sequential!Total, collected

(* Nothing but Yield changes what is collected.                            *)
LEMMA Stutters ==
  ASSUME SerialInv, [Next]_vars, ~Yield
  PROVE  collected' = collected
<1>1. yielded \in Nat /\ started \in Nat /\ yielded <= started /\ outcome \in [Cases -> Outcomes]
  BY NumCasesAssumption DEF SerialInv, RunInv, TypeOK, Lifecycle
<1>2. ASSUME yielded' = yielded,
             \A k \in 1 .. yielded : /\ outcome'[k] = outcome[k]
                                     /\ PrefixSpend(cost')[k] = PrefixSpend(cost)[k]
      PROVE  collected' = collected
  BY <1>2 DEF collected, RecordedSpend
<1>3. ASSUME NEW i \in Cases, Dispatch(i) PROVE collected' = collected
  BY <1>2, <1>3 DEF Dispatch
<1>4. ASSUME NEW i \in Cases, Skip(i) PROVE collected' = collected
  <2>1. i > yielded
    BY <1>1, <1>4 DEF Skip, NextInWindow
  <2> QED
    BY <1>1, <1>2, <1>4, <2>1 DEF Skip
<1>5. ASSUME NEW i \in Cases, NEW c \in 0 .. MaxCost, Finish(i, c)
      PROVE  collected' = collected
  <2>1. yielded < i /\ \A k \in 0 .. yielded : PrefixSpend(cost')[k] = PrefixSpend(cost)[k]
    BY <1>5, FinishSums
  <2>2. yielded' = yielded /\ outcome' = [outcome EXCEPT ![i] = "ran"]
    BY <1>5 DEF Finish
  <2>3. ASSUME NEW k \in 1 .. yielded
        PROVE  /\ outcome'[k] = outcome[k]
               /\ PrefixSpend(cost')[k] = PrefixSpend(cost)[k]
    <3>1. k # i /\ k \in 0 .. yielded
      BY <1>1, <2>1
    <3> QED
      BY <1>1, <2>1, <2>2, <3>1
  <2> QED
    BY <1>2, <2>2, <2>3
<1>6. CASE UNCHANGED vars
  BY <1>2, <1>6 DEF vars
<1> QED
  BY <1>3, <1>4, <1>5, <1>6 DEF Next, Return

(* Yield is a step of the serial loop: Run if the case at the head ran,    *)
(* and Skip if it was skipped.                                             *)
LEMMA YieldIsSerial ==
  ASSUME SerialInv, Yield
  PROVE  Sequential!Next
<1> DEFINE i == yielded + 1
<1>1. /\ yielded \in Nat /\ i \in Cases /\ yielded \in 0 .. NumCases
      /\ started \in Nat /\ yielded < started
      /\ cost \in Costs /\ outcome \in [Cases -> Outcomes]
  BY NumCasesAssumption
     DEF SerialInv, RunInv, TypeOK, Costs, Yield, HeadReady, Cases
<1>2. outcome[i] \in {"ran", "skipped"}
  BY <1>1 DEF Yield, HeadReady, Outcomes
<1>3. collected' = Append(collected, [kind |-> outcome[i], total |-> RecordedSpend(i)])
  <2>1. collected' = [k \in 1 .. i |-> [kind |-> outcome[k], total |-> RecordedSpend(k)]]
    BY DEF Yield, collected, RecordedSpend
  <2> DEFINE e == [kind |-> outcome[i], total |-> RecordedSpend(i)]
             S == [kind : Outcomes, total : Nat]
  <2>2. e \in S
    BY <1>1, PrefixType DEF RecordedSpend, Cases
  <2>3. collected \in [1 .. yielded -> S] /\ Len(collected) = yielded
    BY CollectedType
  <2> HIDE DEF e, S
  <2>4. collected \in Seq(S)
    BY <1>1, <2>3
  <2>5. /\ Append(collected, e) \in Seq(S) /\ Len(Append(collected, e)) = i
        /\ \A k \in 1 .. yielded : Append(collected, e)[k] = collected[k]
        /\ Append(collected, e)[i] = e
    BY <2>2, <2>3, <2>4, AppendProperties
  <2>6. Append(collected, e) \in [1 .. i -> S]
    BY <2>5, LenProperties
  <2>7. ASSUME NEW k \in 1 .. i
        PROVE  Append(collected, e)[k] = [kind |-> outcome[k], total |-> RecordedSpend(k)]
    <3>1. CASE k = i
      BY <2>5, <3>1 DEF e
    <3>2. CASE k # i
      <4>1. k \in 1 .. yielded
        BY <1>1, <3>2
      <4> QED
        BY <2>5, <4>1 DEF collected
    <3> QED
      BY <3>1, <3>2
  <2>8. Append(collected, e) = [k \in 1 .. i |-> Append(collected, e)[k]]
    BY <2>6
  <2> QED
    BY <2>1, <2>7, <2>8 DEF e
<1>4. RecordedSpend(i) = RecordedSpend(yielded) + Micros(cost[i])
  BY <1>1, PrefixRecursion DEF RecordedSpend
<1>5. Sequential!Total(yielded) = RecordedSpend(yielded)
  <2>1. RecordedSpend(0) = 0
    BY <1>1, PrefixRecursion DEF RecordedSpend
  <2> QED
    BY <1>1, <2>1, TotalIsRecorded
<1>6. Len(collected) = yielded /\ yielded < NumCases
  BY <1>1, CollectedType, NumCasesAssumption DEF Cases
<1>7. CASE outcome[i] = "ran"
  <2>1. Sequential!NoSkipYet
    <3> SUFFICES ASSUME NEW k \in 1 .. yielded
                 PROVE  outcome[k] = "ran"
      BY <1>6 DEF Sequential!NoSkipYet, collected
    <3>1. k \in Cases /\ i \in k .. NumCases
      BY <1>1, NumCasesAssumption DEF Cases
    <3>2. outcome[k] # "none" /\ outcome[k] \in Outcomes
      BY <1>1, <3>1 DEF SerialInv, RunInv, Lifecycle
    <3>3. outcome[k] # "skipped"
      BY <1>7, <3>1 DEF SerialInv, RunInv, SkippedSuffix
    <3> QED
      BY <3>2, <3>3 DEF Outcomes
  <2>2. ~Sequential!Exhausted(Sequential!Total(yielded - (Window - 1)))
    <3>1. Window \in Nat /\ Window >= 1 /\ yielded - (Window - 1) = i - Window
      BY <1>1, WindowType
    <3>2. CASE i > Window
      <4>1. ~BudgetExhausted(RecordedSpend(i - Window))
        BY <1>1, <1>7, <3>2 DEF SerialInv, DispatchedInTime
      <4>2. Sequential!Total(i - Window) = RecordedSpend(i - Window)
        BY <1>1, <3>1, <3>2, TotalIsRecorded
      <4> QED
        BY <3>1, <4>1, <4>2 DEF Sequential!Exhausted, BudgetExhausted
    <3>3. CASE ~(i > Window)
      <4>1. Sequential!Total(i - Window) = 0
        BY <1>1, <3>1, <3>3, TotalIsRecorded
      <4> QED
        BY <3>1, <4>1, BudgetAssumption, GrainAssumption DEF Sequential!Exhausted
    <3> QED
      BY <3>2, <3>3
  <2>3. Sequential!Run(cost[i])
    <3>1. collected' = Append(collected, [kind |-> "ran",
                          total |-> Sequential!Total(yielded) + cost[i] \div Grain])
      BY <1>3, <1>4, <1>5, <1>7 DEF Micros
    <3> QED
      BY <1>6, <2>1, <2>2, <3>1 DEF Sequential!Run
  <2> QED
    BY <1>1, <2>3 DEF Sequential!Next, Costs
<1>8. CASE outcome[i] = "skipped"
  <2>1. \A j \in Cases : j > yielded => cost[j] = 0
    BY <1>1, <1>8, NumCasesAssumption
       DEF SerialInv, RunInv, SkippedSuffix, Unbilled, Cases
  <2>2. RecordedSpend(yielded) = spent
    BY <1>1, <2>1, PrefixFlat DEF SerialInv, SpentIsRecorded, RecordedSpend
  <2>3. BudgetExhausted(spent) /\ cost[i] = 0
    BY <1>1, <1>8, <2>1 DEF SerialInv, RunInv, SkipsExhausted
  <2>4. RecordedSpend(i) = RecordedSpend(yielded)
    <3>1. RecordedSpend(yielded) \in Nat /\ Micros(0) = 0
      BY <1>1, PrefixType, GrainAssumption DEF RecordedSpend, Micros
    <3> QED
      BY <1>4, <2>3, <3>1
  <2>5. Sequential!Skip
    <3>1. collected' = Append(collected, [kind |-> "skipped", total |-> Sequential!Total(yielded)])
      BY <1>3, <1>5, <1>8, <2>4
    <3>2. Sequential!Exhausted(Sequential!Total(yielded))
      BY <1>5, <2>2, <2>3 DEF Sequential!Exhausted, BudgetExhausted
    <3> QED
      BY <1>6, <3>1, <3>2 DEF Sequential!Skip
  <2> QED
    BY <2>5 DEF Sequential!Next
<1> QED
  BY <1>2, <1>7, <1>8

(* What run_suite collects is, at every moment and for every order of      *)
(* completions, what the serial loop with a budget check Window - 1 cases  *)
(* late could have produced.                                               *)
THEOREM EngineIsSerial == Spec => Sequential!Safety
<1>1. Init => Sequential!Init
  BY DEF Init, Sequential!Init, collected
<1>2. SerialInv /\ [Next]_vars => [Sequential!Next]_collected
  BY Stutters, YieldIsSerial
<1>3. Spec => []SerialInv
  BY SerialInit, SerialStep, PTL DEF Spec
<1> QED
  BY <1>1, <1>2, <1>3, PTL DEF Spec, Sequential!Safety
=============================================================================
