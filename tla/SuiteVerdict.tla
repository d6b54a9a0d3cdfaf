----------------------------- MODULE SuiteVerdict -----------------------------
(***************************************************************************)
(* What a finished suite amounts to: compute_classification in             *)
(* src/crates/evalcore-core/src/classification.rs and evaluate_gate in     *)
(* gates.rs, over the results of the cases.  A result is reduced to the    *)
(* label expected of the case, the label its output gives (Absent when the *)
(* target errored, as there is no output then), the verdict of the case    *)
(* and the value of a score.                                               *)
(*                                                                         *)
(* Metrics are exact fractions <<numerator, denominator>>; the tolerance   *)
(* of 1e-9 that makes up for f64 rounding is left out.                     *)
(***************************************************************************)
EXTENDS Integers, Sequences, FiniteSets, SequencesExt, FiniteSetsExt

CONSTANTS
  Labels,      \* the labels that cases expect and outputs give
  CaseKinds,   \* the results that a case may have
  MaxCases,    \* bound on the number of cases
  Floors,      \* the `min` of the gates, as fractions
  Absent         \* unlabeled, no output, no score

(* A case whose target errored has no output, does not pass, and has no    *)
(* scores.  A floor of zero would ask for no more than one case.           *)
ASSUME CaseKindsAssumption ==
  /\ Absent \notin Labels
  /\ CaseKinds \subseteq [expected : Labels \cup {Absent},
                          predicted : Labels \cup {Absent},
                          passed : BOOLEAN, value : Nat \cup {Absent}]
  /\ \A r \in CaseKinds : r.predicted = Absent => ~r.passed /\ r.value = Absent
ASSUME FloorsAssumption == Floors \subseteq (Nat \ {0}) \X (Nat \ {0})

VARIABLE results   \* summary.results

SuiteInit == results = <<>>

Collect(r) ==
  /\ Len(results) < MaxCases
  /\ results' = Append(results, r)

SuiteNext == \E r \in CaseKinds : Collect(r)

-----------------------------------------------------------------------------
(* Fractions. *)

(* n / d, and 0.0 for 0/0.                                                 *)
Over(n, d) == IF d = 0 THEN <<0, 1>> ELSE <<n, d>>
Plus(a, b) == <<a[1] * b[2] + b[1] * a[2], a[2] * b[2]>>
AtLeast(a, b) == a[1] * b[2] >= b[1] * a[2]

Number(R, Test(_)) == Cardinality({i \in DOMAIN R : Test(R[i])})

-----------------------------------------------------------------------------
(* Classification of the results R. *)

IsLabeled(r) == r.expected # Absent
IsCorrect(r) == IsLabeled(r) /\ r.predicted = r.expected

Support(R, l) == Number(R, LAMBDA r : r.expected = l)
PredictedAsSlip(R, l) == Number(R, LAMBDA r : r.predicted = l)
PredictedAs(R, l) == Number(R, LAMBDA r : IsLabeled(r) /\ r.predicted = l)
CorrectAs(R, l) == Number(R, LAMBDA r : IsCorrect(r) /\ r.expected = l)

Precision(R, l) == Over(CorrectAs(R, l), PredictedAs(R, l))
Recall(R, l) == Over(CorrectAs(R, l), Support(R, l))

(* 2 * precision * recall / (precision + recall).                          *)
F1(R, l) ==
  LET p == Precision(R, l)
      r == Recall(R, l)
  IN Over(2 * p[1] * r[1], p[1] * r[2] + r[1] * p[2])

ClassesSlip(R) == {l \in Labels : Support(R, l) > 0 /\ PredictedAs(R, l) > 0}

(* The observed expected labels only.                                      *)
Classes(R) == {l \in Labels : Support(R, l) > 0}

Accuracy(R) == Over(Number(R, IsCorrect), Number(R, IsLabeled))

MacroF1(R) ==
  LET sum == FoldFunction(Plus, <<0, 1>>, [l \in Classes(R) |-> F1(R, l)])
  IN Over(sum[1], sum[2] * Cardinality(Classes(R)))

-----------------------------------------------------------------------------
(* Gates: an unmeasured one fails. *)

PassRate(R) == Over(Number(R, LAMBDA r : r.passed), Len(R))

MeanScore(R) ==
  LET scored == {i \in DOMAIN R : R[i].value # Absent}
  IN Over(SumFunction([i \in scored |-> R[i].value]), Cardinality(scored))

PassRateGate(R, min) == R # <<>> /\ AtLeast(PassRate(R), min)
MeanScoreGate(R, min) ==
  (\E i \in DOMAIN R : R[i].value # Absent) /\ AtLeast(MeanScore(R), min)
AccuracyGate(R, min) == Classes(R) # {} /\ AtLeast(Accuracy(R), min)
MacroF1Gate(R, min) == Classes(R) # {} /\ AtLeast(MacroF1(R), min)

-----------------------------------------------------------------------------

(* What one more case may do.  "An error storm sinks this gate": an errored*)
(* one lowers the pass rate, and the accuracy if it is labeled, unless     *)
(* nothing is left to lower; it never raises macro-F1, even as the first of*)
(* its class, nor enters the mean score; and no gate opens that was closed *)
(* without it.  An unlabeled one, whatever its output, leaves each class   *)
(* and both classification metrics alone.                                  *)
CountsOnce(new) ==
  LET Sinks(Metric(_)) ==
        Metric(results)[1] > 0 => ~AtLeast(Metric(results'), Metric(results))
      Opens(Gate(_, _)) ==
        \E min \in Floors : Gate(results', min) /\ ~Gate(results, min)
  IN /\ new.predicted = Absent =>
          /\ Sinks(PassRate)
          /\ IsLabeled(new) => Sinks(Accuracy)
          /\ AtLeast(MacroF1(results), MacroF1(results'))
          /\ MeanScore(results') = MeanScore(results)
          /\ ~Opens(PassRateGate) /\ ~Opens(MeanScoreGate)
          /\ ~Opens(AccuracyGate) /\ ~Opens(MacroF1Gate)
     /\ ~IsLabeled(new) =>
          /\ Classes(results') = Classes(results)
          /\ \A l \in Labels : F1(results', l) = F1(results, l)
          /\ Accuracy(results') = Accuracy(results)
          /\ MacroF1(results') = MacroF1(results)

CasesCountOnce == [][results' # <<>> /\ CountsOnce(Last(results'))]_results

(* The aggregates reward what they are read for: if a labeled case that    *)
(* was wrong or errored had been answered with its label, accuracy would   *)
(* be higher and macro-F1 no lower, although the case moves between the    *)
(* denominators of two classes.                                            *)
FixingHelps ==
  \A i \in DOMAIN results :
    IsLabeled(results[i]) /\ ~IsCorrect(results[i]) =>
      LET fixed == [results EXCEPT ![i].predicted = results[i].expected]
      IN /\ ~AtLeast(Accuracy(results), Accuracy(fixed))
         /\ AtLeast(MacroF1(fixed), MacroF1(results))
=============================================================================
