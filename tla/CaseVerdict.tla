----------------------------- MODULE CaseVerdict -----------------------------
(***************************************************************************)
(* How a case gets its verdict, score and cost (run_single, run_multi,     *)
(* run_trial and score_one in src/crates/evalcore-core/src/engine.rs).     *)
(* The trials of a case run one after the other; each ends in an error of  *)
(* the target, or in an answer that every scorer has scored.  When all are *)
(* over they are folded into one CaseResult, in which nothing but the      *)
(* `error` and the `passed` of the scores says whether the case passed.    *)
(*                                                                         *)
(* Score values are integers (the unit does not matter), a mean is a pair  *)
(* <<sum, number>>, costs are in grains.  Latencies are left  *)
(* out; a reason is the trial it comes from.                               *)
(***************************************************************************)
EXTENDS Integers, Sequences, FiniteSets, SequencesExt, FiniteSetsExt

CONSTANTS
  NumScorers,   \* length of the list of scorers
  MaxTrials,    \* bound on run.trials.count
  Scores,       \* what a scorer may return: value, passed, cost
  TargetCosts,  \* what the target's part of a trial may cost
  NoCost        \* cost_usd or tokens absent

(* Config validation refuses an empty list of scorers and zero trials.     *)
ASSUME ScorersAssumption == NumScorers \in Nat \ {0}
ASSUME MaxTrialsAssumption == MaxTrials \in Nat \ {0}
ASSUME ScoresAssumption ==
  Scores \subseteq [value : Nat, passed : BOOLEAN, cost : Nat \cup {NoCost}]
ASSUME TargetCostsAssumption ==
  NoCost \notin Nat /\ TargetCosts \subseteq Nat \cup {NoCost}

VARIABLES
  count,     \* run.trials.count
  require,   \* run.trials.require
  trials,    \* trial_results, with the target's cost of each
  billed     \* what the target and the scorers have reported, added up

caseVars == <<count, require, trials, billed>>

Scorer == 1 .. NumScorers
Policies == {"all", "any", "majority"}

(* A scorer's Err is a failing score that costs nothing.                   *)
ScorerError == [value |-> 0, passed |-> FALSE, cost |-> NoCost]

Amount(c) == IF c = NoCost THEN 0 ELSE c

(* The costs reported in the trials of K: by the target (0), by scorer j.  *)
Reported(K) ==
  {<<k, 0, trials[k].cost>> : k \in K} \cup
  {<<k, j, trials[k].scores[j].cost>> : k \in {n \in K : trials[n].answered},
                                        j \in Scorer}

Priced(K) == {r \in Reported(K) : r[3] # NoCost}

CostOfSlip(K) ==
  LET first == {k \in K : trials[k].answered /\ \A n \in K : n < k => ~trials[n].answered}
  IN IF Priced(first) = {} THEN NoCost
     ELSE SumFunction([r \in Priced(first) |-> r[3]])

(* Some(sum) if anything was costed, else none.                            *)
CostOf(K) ==
  IF Priced(K) = {} THEN NoCost ELSE SumFunction([r \in Priced(K) |-> r[3]])

CaseInit ==
  /\ count \in 1 .. MaxTrials
  /\ require \in Policies
  /\ trials = <<>>
  /\ billed = 0

Bill(trial) ==
  Amount(trial.cost)
  + SumFunction([j \in DOMAIN trial.scores |-> Amount(trial.scores[j].cost)])

RunTrial(trial) ==
  /\ Len(trials) < count
  /\ trials' = Append(trials, trial)
  /\ billed' = billed + Bill(trial)
  /\ UNCHANGED <<count, require>>

(* The target failed: a failed trial without scores.                       *)
Unanswered == [answered |-> FALSE, cost |-> NoCost, scores |-> <<>>]
Answered(c, scores) == [answered |-> TRUE, cost |-> c, scores |-> scores]

CaseNext ==
  \/ RunTrial(Unanswered)
  \/ \E c \in TargetCosts, scores \in [Scorer -> Scores \cup {ScorerError}] :
       RunTrial(Answered(c, scores))

-----------------------------------------------------------------------------
(* The fold. *)

CaseDone == Len(trials) = count

OfAnswered == {k \in DOMAIN trials : trials[k].answered}

TrialPassed(k) ==
  k \in OfAnswered /\ \A j \in Scorer : trials[k].scores[j].passed

(* The policy over the number of passing trials.                           *)
Verdict ==
  LET passing == Cardinality({k \in DOMAIN trials : TrialPassed(k)}) IN
    CASE require = "all"      -> passing = count
      [] require = "any"      -> passing >= 1
      [] require = "majority" -> 2 * passing > count

(* Mean over the trials that produced a score; errored ones contribute     *)
(* none.                                                                   *)
Mean(j) ==
  <<SumFunction([k \in OfAnswered |-> trials[k].scores[j].value]),
    Cardinality(OfAnswered)>>

BlameSlip(j) ==
  LET failing == {k \in OfAnswered : ~TrialPassed(k)}
  IN IF Verdict \/ failing = {} THEN 0 ELSE Min(failing)

(* The trial whose reason a failing case shows for scorer j: the first in  *)
(* which that scorer failed; 0 for no reason.                              *)
Blame(j) ==
  LET failing == {k \in OfAnswered : ~trials[k].scores[j].passed}
  IN IF Verdict \/ failing = {} THEN 0 ELSE Min(failing)

(* The error of the case: only when there is no output to surface.         *)
CaseErrorSlip == OfAnswered # DOMAIN trials
CaseError == OfAnswered = {}

(* Every score of a folded case carries the case's verdict.                *)
Folded ==
  [error |-> CaseError,
   scores |-> IF OfAnswered = {} THEN <<>>
              ELSE [j \in Scorer |-> [value |-> Mean(j), passed |-> Verdict, reason |-> Blame(j)]],
   cost |-> CostOf(DOMAIN trials)]

(* The path of a run without trials.                                       *)
Single ==
  [error |-> ~trials[1].answered,
   scores |-> [j \in DOMAIN trials[1].scores |->
                 [value |-> <<trials[1].scores[j].value, 1>>,
                  passed |-> trials[1].scores[j].passed,
                  reason |-> IF trials[1].scores[j].passed THEN 0 ELSE 1]],
   cost |-> CostOf({1})]

CaseResult == IF count = 1 THEN Single ELSE Folded

CasePassed(r) == ~r.error /\ \A j \in DOMAIN r.scores : r.scores[j].passed

-----------------------------------------------------------------------------

(* The verdict that the results, gates, baselines and exit code read off   *)
(* the error and the scores of a case is the one `require` asks for over   *)
(* its trials, an errored trial counting as a failed one: `all` no failing *)
(* trial, `any` a passing one, `majority` more passing than failing ones.  *)
VerdictFollowsPolicy ==
  CaseDone =>
    LET passing == {k \in 1 .. count : TrialPassed(k)}
        failing == (1 .. count) \ passing
    IN CasePassed(CaseResult) <=>
         CASE require = "all"      -> failing = {}
           [] require = "any"      -> passing # {}
           [] require = "majority" -> Cardinality(passing) > Cardinality(failing)

(* "The terminal report's reason line stays actionable": the reasons that a*)
(* failing case shows lead to the trials that sank it.  A reason is that of*)
(* the first trial in which its own scorer failed, a passing case has none,*)
(* and a failing case without any is to blame on trials that errored.      *)
FailureIsTraceable ==
  CaseDone =>
    LET shown == {j \in DOMAIN CaseResult.scores : CaseResult.scores[j].reason # 0}
        errored == (1 .. count) \ OfAnswered
    IN /\ CasePassed(CaseResult) => shown = {}
       /\ \A j \in shown : LET k == CaseResult.scores[j].reason IN
            /\ k \in OfAnswered /\ ~trials[k].scores[j].passed
            /\ \A n \in 1 .. k - 1 : n \in errored \/ trials[n].scores[j].passed
       /\ ~CasePassed(CaseResult) /\ shown = {} => errored # {}

(* "Every trial's cost counts toward the budget": the cost of a case is    *)
(* all that its target and its scorers reported, in failed trials too, and *)
(* is absent only if nothing was reported.                                 *)
CostIsBilled ==
  CaseDone =>
    /\ Amount(CaseResult.cost) = billed
    /\ CaseResult.cost = NoCost => Priced(DOMAIN trials) = {}
=============================================================================
