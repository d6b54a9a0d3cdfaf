---------------------------- MODULE RunRefinement ----------------------------
(***************************************************************************)
(* RunEngine implements SequentialRun: the concurrent engine is the serial *)
(* loop over the dataset with a budget check that is at most Window - 1    *)
(* cases stale.                                                            *)
(***************************************************************************)
EXTENDS RunEngine, FiniteSetsExt

(* The recorded spend of the first k cases, and the exact one.             *)
PrefixSpend(c) ==
  LET prefix[k \in 0 .. NumCases] ==
        IF k = 0 THEN 0 ELSE prefix[k - 1] + Micros(c[k])
  IN prefix
RecordedSpend(k) == PrefixSpend(cost)[k]
ExactSpend == MapThenSumSet(LAMBDA i : cost[i], Cases)

collected ==
  [k \in 1 .. yielded |-> [kind |-> outcome[k], total |-> RecordedSpend(k)]]

Sequential == INSTANCE SequentialRun
  WITH Staleness <- Window - 1, results <- collected

(* Whatever the order of completions, what is collected is what the serial *)
(* pass could have produced: dataset order, one result per case, a case    *)
(* skipped only if the cases in front of it used the budget up, and run    *)
(* only if those a full window in front of it did not.                     *)
ImplementsSequentialRun == Sequential!Spec

(* engine.rs:71: "Stop dispatching new cases once accumulated cost reaches *)
(* this (USD)", for the cost as the results report it.                     *)
StopsAtBudget ==
  [][\A i \in Cases :
       Dispatch(i) => Budget = NoBudget \/ ExactSpend < Budget]_vars
=============================================================================
