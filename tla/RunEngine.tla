------------------------------ MODULE RunEngine ------------------------------
(***************************************************************************)
(* The run engine of evalcore-core (src/crates/evalcore-core/src/engine.rs,*)
(* run_suite).  Cases are turned into futures in dataset order and driven  *)
(* through `buffered(concurrency.max(1))`: a window of at most Window      *)
(* futures is in progress, counting the completed ones whose predecessors  *)
(* still run; futures are first polled, and collected, in dataset order.   *)
(* One task polls them all, so the code between two awaits is one step:    *)
(*                                                                         *)
(*   Dispatch(i)   the first poll of case i finds budget left and enters   *)
(*                 run_case                                                *)
(*   Skip(i)       the first poll of case i finds the budget exhausted and *)
(*                 completes at once with a failed "skipped" result        *)
(*   Finish(i, c)  run_case returns with cost c: the spend is added, the   *)
(*                 progress sink notified, the result returned             *)
(*   Yield         `buffered` hands the completed head to `collect`        *)
(*                                                                         *)
(* Money.  Costs and the budget are f64 dollars in the code; here they are *)
(* integers counted in grains, Grain of which make one micro-USD, because  *)
(* the accumulator keeps whole micro-USD only.                             *)
(*                                                                         *)
(* A definition whose name ends in Slip is a plausible mistake in the      *)
(* definition that follows it; no specification uses it.                   *)
(***************************************************************************)
EXTENDS Integers, FiniteSets

CONSTANTS
  NumCases,      \* number of cases of the loaded datasets
  Concurrency,   \* RunOptions::concurrency as given (0 is allowed)
  Grain,         \* grains in a micro-USD
  Budget,        \* RunOptions::budget_usd in grains, or NoBudget
  NoBudget,      \* budget_usd: None
  MaxCost        \* bound on the cost a case reports, in grains (0 also is None)

(* Config validation refuses an empty suite and a non-positive budget.     *)
ASSUME NumCasesAssumption == NumCases \in Nat \ {0}
ASSUME ConcurrencyAssumption == Concurrency \in Nat
ASSUME GrainAssumption == Grain \in Nat \ {0}
ASSUME BudgetAssumption == Budget = NoBudget \/ Budget \in Nat \ {0}
ASSUME MaxCostAssumption == MaxCost \in Nat

VARIABLES
  started,   \* cases whose future has been polled: exactly 1..started
  running,   \* the cases inside run_case, awaiting a target or a scorer
  outcome,   \* outcome[i]: what the future of case i returned, if it has
  cost,      \* cost[i]: CaseResult::cost_usd of case i, in grains
  spent,     \* spent_micros, the atomic accumulator
  yielded,   \* results collected: exactly those of cases 1..yielded
  ticks      \* calls of the progress sink

vars == <<started, running, outcome, cost, spent, yielded, ticks>>

Cases == 1 .. NumCases

Outcomes == {"none", "ran", "skipped"}

(* The window of buffered(options.concurrency.max(1)).                     *)
Window == IF Concurrency = 0 THEN 1 ELSE Concurrency

Completed == {i \in Cases : outcome[i] # "none"}

(* fetch_add of `(cost * 1e6) as u64`: the cast drops the fraction of a    *)
(* micro-USD.                                                              *)
Micros(c) == c \div Grain

SpendAfterSlip(s, c) == Micros(c)
SpendAfter(s, c) == s + Micros(c)

(* `spent >= budget`, for a run that has one.                              *)
BudgetExhaustedSlip(s) == Budget # NoBudget /\ s * Grain > Budget
BudgetExhausted(s) == Budget # NoBudget /\ s * Grain >= Budget

(* The head of the window has completed: the poll of `buffered` returns it *)
(* before polling any other future, so nothing else happens first.         *)
HeadReady == yielded < started /\ outcome[yielded + 1] # "none"

(* Case i is the next to be polled first, and the window has room for it.  *)
NextInWindowSlip(i) == i = started + 1 /\ Cardinality(running) < Window
NextInWindowSlip2(i) == i = started + 1 /\ i <= Window
NextInWindow(i) == i = started + 1 /\ i <= yielded + Window

Init ==
  /\ started = 0
  /\ running = {}
  /\ outcome = [i \in Cases |-> "none"]
  /\ cost = [i \in Cases |-> 0]
  /\ spent = 0
  /\ yielded = 0
  /\ ticks = 0

Dispatch(i) ==
  /\ ~HeadReady
  /\ NextInWindow(i)
  /\ ~BudgetExhausted(spent)
  /\ started' = i
  /\ running' = running \cup {i}
  /\ UNCHANGED <<outcome, cost, spent, yielded, ticks>>

SkipSlip(i) ==
  /\ ~HeadReady
  /\ NextInWindow(i)
  /\ BudgetExhausted(spent)
  /\ started' = i
  /\ outcome' = [outcome EXCEPT ![i] = "skipped"]
  /\ UNCHANGED <<running, cost, spent, yielded, ticks>>

(* A budget-skipped case is still a completed case: it ticks the sink.     *)
Skip(i) ==
  /\ ~HeadReady
  /\ NextInWindow(i)
  /\ BudgetExhausted(spent)
  /\ started' = i
  /\ outcome' = [outcome EXCEPT ![i] = "skipped"]
  /\ ticks' = ticks + 1
  /\ UNCHANGED <<running, cost, spent, yielded>>

Finish(i, c) ==
  /\ ~HeadReady
  /\ i \in running
  /\ running' = running \ {i}
  /\ outcome' = [outcome EXCEPT ![i] = "ran"]
  /\ cost' = [cost EXCEPT ![i] = c]
  /\ spent' = SpendAfter(spent, c)
  /\ ticks' = ticks + 1
  /\ UNCHANGED <<started, yielded>>

Yield ==
  /\ HeadReady
  /\ yielded' = yielded + 1
  /\ UNCHANGED <<started, running, outcome, cost, spent, ticks>>

(* collect() has every result: run_suite returns its RunSummary.           *)
Returned == yielded = NumCases
Return == Returned /\ UNCHANGED vars

Next ==
  \/ \E i \in Cases : Dispatch(i)
  \/ \E i \in Cases : Skip(i)
  \/ \E i \in Cases, c \in 0 .. MaxCost : Finish(i, c)
  \/ Yield
  \/ Return

(* The task is polled whenever it can move, and every run_case returns.    *)
(* For the targets that speak HTTP the second is what LiveCall shows; a    *)
(* shell target or subprocess scorer has no timeout, and for them it is an *)
(* assumption on the user's command and its input (see ChildProcess).      *)
Fairness ==
  /\ WF_vars(\E i \in Cases : Dispatch(i) \/ Skip(i))
  /\ \A i \in Cases : WF_vars(\E c \in 0 .. MaxCost : Finish(i, c))
  /\ WF_vars(Yield)

Spec == Init /\ [][Next]_vars /\ Fairness

-----------------------------------------------------------------------------

TypeOK ==
  /\ started \in 0 .. NumCases
  /\ running \subseteq Cases
  /\ outcome \in [Cases -> Outcomes]
  /\ cost \in [Cases -> 0 .. MaxCost]
  /\ spent \in Nat
  /\ yielded \in 0 .. NumCases
  /\ ticks \in Nat

(* The life of a case: what is collected was completed, what runs or is    *)
(* completed was started, a started case is running or completed, and      *)
(* never both.                                                             *)
Lifecycle ==
  /\ yielded <= started
  /\ \A i \in 1 .. yielded : outcome[i] # "none"
  /\ running \cap Completed = {}
  /\ running \cup Completed = 1 .. started

(* `concurrency` is the "maximum in-flight cases" (RunOptions): at no time *)
(* are there more cases between their first poll and their collection,     *)
(* however the completions are ordered.                                    *)
InFlightBound ==
  /\ started - yielded <= Window
  /\ Cardinality(running) <= Window

(* Once the budget has stopped one case, no later case of the dataset runs:*)
(* the skipped cases are a suffix of the dataset, although the cases in    *)
(* front of them may still be running and adding to the spend.             *)
SkippedSuffix ==
  \A i \in Cases : outcome[i] = "skipped" =>
    \A j \in i .. NumCases : j \notin running /\ outcome[j] # "ran"

(* The budget is a stop line, not a ceiling: in-flight cases finish.  What *)
(* was spent when the last case was dispatched is below the budget, and at *)
(* most Window cases are unaccounted for, so the recorded spend never goes *)
(* beyond the budget by Window full cases.                                 *)
SpendBound ==
  Budget # NoBudget => spent * Grain < Budget + Window * MaxCost

(* The progress sink is "fired exactly once as each case finishes", the    *)
(* skipped ones included.                                                  *)
TickPerCase == ticks = Cardinality(Completed)

(* The run completes whatever the costs and the budget are: every case of  *)
(* the dataset gets its result and run_suite returns.                      *)
EventuallyReturns == <>Returned
=============================================================================
