---------------------------- MODULE SequentialRun ----------------------------
(***************************************************************************)
(* What run_suite promises its caller: one pass over the dataset, in       *)
(* order, that gives every case a result.  Each result carries the running *)
(* total of the recorded spend (micro-USD).  The budget check of a case    *)
(* may be Staleness cases behind the pass, for the cases in front of it    *)
(* that have not finished; with Staleness = 0 this is the serial loop      *)
(* `for case { if spent >= budget { skip } else { run } }`.                *)
(***************************************************************************)
EXTENDS Integers, Sequences

CONSTANTS
  NumCases, Grain, Budget, NoBudget, MaxCost,   \* as in RunEngine
  Staleness   \* how many cases the budget check may be behind

VARIABLE results   \* the collected results, in dataset order

Total(k) == IF k <= 0 THEN 0 ELSE results[k].total

Exhausted(s) == Budget # NoBudget /\ s * Grain >= Budget

NoSkipYet == \A k \in 1 .. Len(results) : results[k].kind = "ran"

Init == results = <<>>

(* The spend of all but the last Staleness cases must leave budget.        *)
Run(c) ==
  /\ Len(results) < NumCases
  /\ NoSkipYet
  /\ ~Exhausted(Total(Len(results) - Staleness))
  /\ results' = Append(results,
       [kind |-> "ran", total |-> Total(Len(results)) + c \div Grain])

(* A case is only skipped when the cases in front of it spent the budget.  *)
Skip ==
  /\ Len(results) < NumCases
  /\ Exhausted(Total(Len(results)))
  /\ results' = Append(results,
       [kind |-> "skipped", total |-> Total(Len(results))])

Next == (\E c \in 0 .. MaxCost : Run(c)) \/ Skip

Safety == Init /\ [][Next]_results
Spec == Safety /\ WF_results(Next)
=============================================================================
