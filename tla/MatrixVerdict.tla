----------------------------- MODULE MatrixVerdict -----------------------------
(***************************************************************************)
(* The comparison of the arms of a matrix: compare_arms in                 *)
(* src/crates/evalcore-core/src/comparison.rs.  Every arm has run the same *)
(* suite; of its result for a case the comparison looks at the mean of the *)
(* scores, which a case without scores (an error, a budget skip) lacks.    *)
(***************************************************************************)
EXTENDS Integers, Sequences, FiniteSets, FiniteSetsExt

CONSTANTS
  MatrixCases,   \* the cases of the suite
  MeanScores,    \* the means a case may reach, in units of the rounding error
  NoMean,        \* a case without scores
  Tolerance,     \* WINNER_TOLERANCE, in the same unit
  MaxArms        \* bound on the number of arms

ASSUME MatrixAssumption ==
  /\ MeanScores \subseteq Nat /\ NoMean \notin Nat
  /\ Tolerance \in Nat /\ IsFiniteSet(MatrixCases)

VARIABLE matrix   \* matrix[a][c]: the mean score of case c in arm a

MatrixInit == matrix = <<>>

(* One more arm is run.                                                    *)
AddArm(means) ==
  /\ Len(matrix) < MaxArms
  /\ matrix' = Append(matrix, means)

MatrixNext ==
  \E means \in [MatrixCases -> MeanScores \cup {NoMean}] : AddArm(means)

-----------------------------------------------------------------------------

Row(m, c) == [a \in DOMAIN m |-> m[a][c]]

ScoredArms(row) == {a \in DOMAIN row : row[a] # NoMean}
Best(row) == Max({row[a] : a \in ScoredArms(row)})
AtMax(row) == {a \in ScoredArms(row) : Best(row) - row[a] <= Tolerance}

FirstSlip(row) == IF AtMax(row) = {} THEN 0 ELSE Min(AtMax(row))

(* The only arm at the maximum; 0 (None) if there is none or more than one.*)
PickWinner(row) ==
  IF Cardinality(AtMax(row)) = 1 THEN CHOOSE a \in AtMax(row) : TRUE ELSE 0

Wins(m, a) == Cardinality({c \in MatrixCases : PickWinner(Row(m, c)) = a})

-----------------------------------------------------------------------------

(* Comparing with one more target can take wins from the arms there are but*)
(* never give them any: an arm does not look better for the company it is  *)
(* shown in.                                                               *)
NewArmGivesNoWins ==
  [][\A a \in DOMAIN matrix : Wins(matrix', a) <= Wins(matrix, a)]_matrix
=============================================================================
