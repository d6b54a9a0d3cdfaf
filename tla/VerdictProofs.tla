---------------------------- MODULE VerdictProofs ----------------------------
(***************************************************************************)
(* What evalcore makes of the outputs of a run, for every list of scorers, *)
(* number of trials, suite, trajectory, export and matrix: the verdict,    *)
(* reasons and cost of a case (CaseVerdict), the rules over an agent's     *)
(* calls (TrajectoryRules), the winners of a matrix (MatrixVerdict), the   *)
(* reading of a trace (TraceExport), the metrics and gates of a suite      *)
(* (SuiteVerdict).                                                         *)
(***************************************************************************)
EXTENDS CaseVerdict, SuiteVerdict, TrajectoryRules, MatrixVerdict, TraceExport, DataLemmas

-----------------------------------------------------------------------------
(* CaseVerdict. *)

CaseSpec == CaseInit /\ [][CaseNext]_caseVars

TrialResults ==
  {Unanswered} \cup
  {Answered(c, scores) : c \in TargetCosts, scores \in [Scorer -> Scores \cup {ScorerError}]}

CaseTypeOK ==
  /\ count \in 1 .. MaxTrials
  /\ require \in Policies
  /\ trials \in Seq(TrialResults)

LEMMA CaseTypeInit == CaseInit => CaseTypeOK
BY DEF CaseInit, CaseTypeOK

LEMMA CaseTypeStep == CaseTypeOK /\ [CaseNext]_caseVars => CaseTypeOK'
<1>. SUFFICES ASSUME CaseTypeOK, [CaseNext]_caseVars
              PROVE  CaseTypeOK'
  OBVIOUS
<1>1. ASSUME NEW trial \in TrialResults, RunTrial(trial)
      PROVE  CaseTypeOK'
  BY <1>1, AppendProperties DEF RunTrial, CaseTypeOK
<1>2. CASE UNCHANGED caseVars
  BY <1>2 DEF caseVars, CaseTypeOK
<1>. QED
  BY <1>1, <1>2 DEF CaseNext, TrialResults

(* An answered trial has a score of every scorer; the others have none.    *)
LEMMA TrialFacts ==
  ASSUME CaseTypeOK, CaseDone
  PROVE  /\ count \in Nat /\ count >= 1 /\ DOMAIN trials = 1 .. count
         /\ \A k \in 1 .. count : trials[k].answered \in BOOLEAN
         /\ \A k \in 1 .. count : trials[k].answered =>
              /\ DOMAIN trials[k].scores = Scorer
              /\ \A j \in Scorer : trials[k].scores[j].passed \in BOOLEAN
<1>1. count \in Nat /\ count >= 1
  BY MaxTrialsAssumption DEF CaseTypeOK
<1>2. DOMAIN trials = 1 .. count /\ \A k \in 1 .. count : trials[k] \in TrialResults
  BY LenProperties DEF CaseTypeOK, CaseDone
<1>3. \A s \in Scores \cup {ScorerError} : s.passed \in BOOLEAN
  <2>1. \A s \in Scores : s.passed \in BOOLEAN
    BY ScoresAssumption
  <2>2. ScorerError.passed \in BOOLEAN
    BY DEF ScorerError
  <2>. QED
    BY <2>1, <2>2
<1>4. ASSUME NEW r \in TrialResults
      PROVE  /\ r.answered \in BOOLEAN
             /\ r.answered => /\ DOMAIN r.scores = Scorer
                              /\ \A j \in Scorer : r.scores[j].passed \in BOOLEAN
  <2>1. r = Unanswered => r.answered = FALSE
    BY DEF Unanswered
  <2>2. ASSUME NEW c \in TargetCosts, NEW scores \in [Scorer -> Scores \cup {ScorerError}],
               r = Answered(c, scores)
        PROVE  /\ r.answered = TRUE
               /\ DOMAIN r.scores = Scorer
               /\ \A j \in Scorer : r.scores[j] \in Scores \cup {ScorerError}
    BY <2>2 DEF Answered
  <2>3. r = Unanswered \/ \E c \in TargetCosts, scores \in [Scorer -> Scores \cup {ScorerError}] :
                             r = Answered(c, scores)
    BY DEF TrialResults
  <2>. QED
    BY <1>3, <2>1, <2>2, <2>3
<1>. QED
  BY <1>1, <1>2, <1>4

(* The policies, one by one.                                               *)
LEMMA VerdictByCount ==
  ASSUME CaseTypeOK
  PROVE  LET p == Cardinality({k \in DOMAIN trials : TrialPassed(k)}) IN
           /\ Verdict \in BOOLEAN
           /\ require \in {"all", "any", "majority"}
           /\ require = "all" => Verdict = (p = count)
           /\ require = "any" => Verdict = (p >= 1)
           /\ require = "majority" => Verdict = (2 * p > count)
<1> DEFINE p == Cardinality({k \in DOMAIN trials : TrialPassed(k)})
<1>1. require \in {"all", "any", "majority"}
  BY DEF CaseTypeOK, Policies
<1>2. Verdict = CASE require = "all"      -> p = count
                  [] require = "any"      -> p >= 1
                  [] require = "majority" -> 2 * p > count
  BY DEF Verdict
<1>. HIDE DEF p
<1>3. require = "all" => Verdict = (p = count)
  BY <1>2
<1>4. require = "any" => Verdict = (p >= 1)
  BY <1>2
<1>5. require = "majority" => Verdict = (2 * p > count)
  BY <1>2
<1>6. Verdict \in BOOLEAN
  <2>1. (p = count) \in BOOLEAN /\ (p >= 1) \in BOOLEAN /\ (2 * p > count) \in BOOLEAN
    OBVIOUS
  <2>. QED
    BY <1>1, <1>3, <1>4, <1>5, <2>1
<1>. QED
  BY <1>1, <1>3, <1>4, <1>5, <1>6 DEF p

(* Counting passing trials, as the code does, decides what the policy says *)
(* about the sets of passing and failing ones.                             *)
LEMMA CountDecides ==
  ASSUME CaseTypeOK, CaseDone
  PROVE  LET passing == {k \in 1 .. count : TrialPassed(k)}
             failing == (1 .. count) \ passing
         IN Verdict <=> CASE require = "all"      -> failing = {}
                          [] require = "any"      -> passing # {}
                          [] require = "majority" -> Cardinality(passing) > Cardinality(failing)
<1> DEFINE passing == {k \in 1 .. count : TrialPassed(k)}
           failing == (1 .. count) \ passing
           p == Cardinality(passing)
           f == Cardinality(failing)
<1>1. count \in Nat /\ count >= 1 /\ DOMAIN trials = 1 .. count
  BY TrialFacts
<1>2. IsFiniteSet(1 .. count) /\ Cardinality(1 .. count) = count
  BY <1>1, FS_Interval
<1>3. IsFiniteSet(passing) /\ IsFiniteSet(failing) /\ p \in Nat /\ f \in Nat
  BY <1>2, FS_Subset, FS_CardinalityType
<1>4. f = count - p
  <2>1. passing = (1 .. count) \cap passing
    OBVIOUS
  <2>. HIDE DEF passing
  <2>2. Cardinality((1 .. count) \ passing)
          = Cardinality(1 .. count) - Cardinality((1 .. count) \cap passing)
    BY <1>2, FS_Difference
  <2>. QED
    BY <1>2, <2>1, <2>2
<1>5. (failing = {} <=> f = 0) /\ (passing # {} <=> p # 0)
  BY <1>3, FS_EmptySet
<1>6. Verdict <=> CASE require = "all"      -> p = count
                    [] require = "any"      -> p >= 1
                    [] require = "majority" -> 2 * p > count
  BY <1>1 DEF Verdict
<1>. HIDE DEF p, f
<1>7. /\ p = count <=> f = 0
      /\ p >= 1 <=> p # 0
      /\ 2 * p > count <=> p > f
  BY <1>1, <1>3, <1>4
<1>. HIDE DEF passing, failing
<1>8. require \in {"all", "any", "majority"}
  BY DEF CaseTypeOK, Policies
<1>9. Verdict <=> CASE require = "all"      -> failing = {}
                    [] require = "any"      -> passing # {}
                    [] require = "majority" -> p > f
  BY <1>5, <1>6, <1>7, <1>8
<1>. QED
  BY <1>9 DEF passing, failing, p, f

(* The verdict is what can be read off the error and the scores: of a case *)
(* with trials, whose scores all carry it ...                              *)
LEMMA FoldedCarriesVerdict ==
  ASSUME CaseTypeOK, CaseDone
  PROVE  CasePassed(Folded) <=> Verdict
<1>1. /\ count \in Nat /\ count >= 1 /\ DOMAIN trials = 1 .. count
      /\ 1 \in Scorer
  BY TrialFacts, ScorersAssumption DEF Scorer
<1>2. CASE OfAnswered = {}
  <2>1. Folded.error = TRUE
    BY <1>2 DEF Folded, CaseError
  <2>2. {k \in 1 .. count : TrialPassed(k)} = {}
    BY <1>2 DEF TrialPassed
  <2>3. ~Verdict
    <3>1. Cardinality({k \in DOMAIN trials : TrialPassed(k)}) = 0
      BY <1>1, <2>2, FS_EmptySet
    <3>. QED
      BY <1>1, <3>1, VerdictByCount
  <2>. QED
    BY <2>1, <2>3 DEF CasePassed
<1>3. CASE OfAnswered # {}
  <2>1. /\ Folded.error = FALSE
        /\ DOMAIN Folded.scores = Scorer
        /\ \A j \in Scorer : Folded.scores[j].passed = Verdict
    BY <1>3 DEF Folded, CaseError
  <2>2. Verdict \in BOOLEAN
    BY VerdictByCount
  <2>. QED
    BY <1>1, <2>1, <2>2 DEF CasePassed
<1>. QED
  BY <1>2, <1>3

(* ... and of a single trial, where the policy makes no difference.        *)
LEMMA SingleIsVerdict ==
  ASSUME CaseTypeOK, CaseDone, count = 1
  PROVE  CasePassed(Single) <=> Verdict
<1>1. /\ DOMAIN trials = 1 .. 1 /\ 1 \in DOMAIN trials
      /\ trials[1].answered \in BOOLEAN
      /\ trials[1].answered => DOMAIN trials[1].scores = Scorer
  BY TrialFacts
<1>2. CasePassed(Single) <=> TrialPassed(1)
  <2>1. Single.error = ~trials[1].answered
    BY DEF Single
  <2>2. /\ DOMAIN Single.scores = DOMAIN trials[1].scores
        /\ \A j \in DOMAIN trials[1].scores :
             Single.scores[j].passed = trials[1].scores[j].passed
    BY DEF Single
  <2>3. CASE trials[1].answered
    BY <1>1, <2>1, <2>2, <2>3 DEF CasePassed, TrialPassed, OfAnswered
  <2>4. CASE ~trials[1].answered
    BY <1>1, <2>1, <2>4 DEF CasePassed, TrialPassed, OfAnswered
  <2>. QED
    BY <2>3, <2>4
<1>3. Verdict <=> TrialPassed(1)
  <2> DEFINE passing == {k \in DOMAIN trials : TrialPassed(k)}
  <2>1. passing = IF TrialPassed(1) THEN {1} ELSE {}
    BY <1>1
  <2>2. Cardinality(passing) = IF TrialPassed(1) THEN 1 ELSE 0
    BY <2>1, FS_EmptySet, FS_Singleton
  <2>. QED
    BY <2>2, VerdictByCount
<1>. QED
  BY <1>2, <1>3

LEMMA TypeGivesPolicy == CaseTypeOK => VerdictFollowsPolicy
<1>. SUFFICES ASSUME CaseTypeOK, CaseDone
              PROVE  VerdictFollowsPolicy
  BY DEF VerdictFollowsPolicy
<1>1. CasePassed(CaseResult) <=> Verdict
  BY FoldedCarriesVerdict, SingleIsVerdict DEF CaseResult
<1>. QED
  BY <1>1, CountDecides DEF VerdictFollowsPolicy

(* The verdict follows the policy (VerdictFollowsPolicy).                  *)
THEOREM PolicyDecides == CaseSpec => []VerdictFollowsPolicy
<1>. QED
  BY CaseTypeInit, CaseTypeStep, TypeGivesPolicy, PTL DEF CaseSpec

-----------------------------------------------------------------------------
(* The cost of a case. *)

(* What a trial holds, unanswered ones included.                           *)
LEMMA TrialParts ==
  ASSUME NEW trial \in TrialResults
  PROVE  /\ trial.cost \in Nat \cup {NoCost}
         /\ DOMAIN trial.scores = IF trial.answered THEN Scorer ELSE {}
         /\ \A j \in DOMAIN trial.scores : trial.scores[j].cost \in Nat \cup {NoCost}
<1>1. CASE trial = Unanswered
  BY <1>1 DEF Unanswered
<1>2. ASSUME NEW c \in TargetCosts, NEW scores \in [Scorer -> Scores \cup {ScorerError}],
             trial = Answered(c, scores)
      PROVE  /\ trial.cost \in Nat \cup {NoCost}
             /\ DOMAIN trial.scores = IF trial.answered THEN Scorer ELSE {}
             /\ \A j \in DOMAIN trial.scores : trial.scores[j].cost \in Nat \cup {NoCost}
  <2>1. trial.cost = c /\ trial.answered = TRUE /\ trial.scores = scores
    BY <1>2 DEF Answered
  <2>2. \A s \in Scores \cup {ScorerError} : s.cost \in Nat \cup {NoCost}
    BY ScoresAssumption DEF ScorerError
  <2> QED
    BY <2>1, <2>2, TargetCostsAssumption
<1> QED
  BY <1>1, <1>2 DEF TrialResults

LEMMA AmountType ==
  ASSUME NEW c \in Nat \cup {NoCost}
  PROVE  Amount(c) \in Nat /\ (c = NoCost => Amount(c) = 0) /\ (c # NoCost => Amount(c) = c)
BY DEF Amount

LEMMA ScorersFinite == IsFiniteSet(Scorer)
BY FS_Interval, ScorersAssumption DEF Scorer

LEMMA BillType ==
  ASSUME NEW trial \in TrialResults
  PROVE  Bill(trial) \in Nat
<1> DEFINE f == [j \in DOMAIN trial.scores |-> Amount(trial.scores[j].cost)]
<1>1. IsFiniteSet(DOMAIN f) /\ \A j \in DOMAIN f : f[j] \in Nat
  BY TrialParts, ScorersFinite, FS_EmptySet, AmountType
<1>2. SumFunction(f) \in Nat
  BY <1>1, SumType DEF SumFunction
<1>3. Amount(trial.cost) \in Nat
  BY TrialParts, AmountType
<1>4. Bill(trial) = Amount(trial.cost) + SumFunction(f)
  BY DEF Bill
<1> HIDE DEF f
<1> QED
  BY <1>2, <1>3, <1>4

(* What was billed is the sum of the bills of the trials.                  *)
Bills == [k \in DOMAIN trials |-> Bill(trials[k])]
BilledInv == CaseTypeOK /\ billed = SumFunction(Bills)

LEMMA BilledInit == CaseInit => BilledInv
<1> SUFFICES ASSUME CaseInit
             PROVE  billed = SumFunction(Bills)
  BY CaseTypeInit DEF BilledInv
<1>1. DOMAIN Bills = {} /\ billed = 0
  BY DEF CaseInit, Bills
<1> QED
  BY <1>1, FS_EmptySet, SumEquations DEF SumFunction

LEMMA BilledStep == BilledInv /\ [CaseNext]_caseVars => BilledInv'
<1> SUFFICES ASSUME BilledInv, [CaseNext]_caseVars
             PROVE  (billed = SumFunction(Bills))'
  BY CaseTypeStep DEF BilledInv
<1>1. ASSUME NEW trial \in TrialResults, RunTrial(trial)
      PROVE  (billed = SumFunction(Bills))'
  <2> DEFINE n == Len(trials)
             f == Bills
             g == [k \in DOMAIN trials' |-> Bill(trials'[k])]
  <2>1. /\ n \in Nat /\ DOMAIN trials = 1 .. n /\ \A k \in 1 .. n : trials[k] \in TrialResults
        /\ DOMAIN trials' = 1 .. n + 1 /\ trials'[n + 1] = trial
        /\ \A k \in 1 .. n : trials'[k] = trials[k]
    BY <1>1, AppendProperties, LenProperties DEF BilledInv, CaseTypeOK, RunTrial
  <2>2. /\ DOMAIN f = 1 .. n /\ DOMAIN g = (1 .. n) \cup {n + 1} /\ n + 1 \notin 1 .. n
        /\ \A k \in 1 .. n : g[k] = f[k]
        /\ g[n + 1] = Bill(trial)
    BY <2>1 DEF Bills
  <2>3. \A k \in (1 .. n) \cup {n + 1} : g[k] \in Nat
    BY <1>1, <2>1, BillType
  <2>4. IsFiniteSet(1 .. n)
    BY <2>1, FS_Interval
  <2> HIDE DEF f, g
  <2>5. SumFunctionOnSet(g, (1 .. n) \cup {n + 1}) = SumFunctionOnSet(g, 1 .. n) + g[n + 1]
    BY <2>2, <2>3, <2>4, SumAdd
  <2>6. SumFunctionOnSet(g, 1 .. n) = SumFunctionOnSet(f, 1 .. n)
    BY <2>2, <2>4, SumCongruent
  <2>7. SumFunction(g) = SumFunction(f) + Bill(trial)
    BY <2>2, <2>5, <2>6 DEF SumFunction
  <2>8. billed' = billed + Bill(trial) /\ billed = SumFunction(f)
    BY <1>1 DEF RunTrial, BilledInv, f
  <2>9. Bills' = g
    BY DEF Bills, g, Bill, Amount
  <2> QED
    BY <2>7, <2>8, <2>9 DEF SumFunction
<1>2. CASE UNCHANGED caseVars
  BY <1>2 DEF BilledInv, Bills, Bill, Amount, caseVars
<1> QED
  BY <1>1, <1>2 DEF CaseNext, TrialResults

(* The slips of trial k: what the target reported, and what each scorer.   *)
Slips(k) ==
  {<<k, 0, trials[k].cost>>} \cup
  {<<k, j, trials[k].scores[j].cost>> : j \in DOMAIN trials[k].scores}

LEMMA SlipsAddUp ==
  ASSUME CaseTypeOK, NEW k \in DOMAIN trials, NEW R, Slips(k) \subseteq R
  PROVE  /\ IsFiniteSet(Slips(k))
         /\ \A r \in Slips(k) : r[1] = k /\ r[3] \in Nat \cup {NoCost}
         /\ SumFunctionOnSet([r \in R |-> Amount(r[3])], Slips(k)) = Bill(trials[k])
<1> DEFINE trial == trials[k]
           D == DOMAIN trial.scores
           p == [j \in D |-> <<k, j, trial.scores[j].cost>>]
           f == [r \in R |-> Amount(r[3])]
           theirs == {p[j] : j \in D}
           own == <<k, 0, trial.cost>>
           g == [j \in D |-> Amount(trial.scores[j].cost)]
<1>1. trial \in TrialResults
  BY ElementOfSeq DEF CaseTypeOK
<1>2. /\ trial.cost \in Nat \cup {NoCost}
      /\ D \subseteq Scorer /\ IsFiniteSet(D) /\ 0 \notin D
      /\ \A j \in D : trial.scores[j].cost \in Nat \cup {NoCost}
  <2>1. trial.cost \in Nat \cup {NoCost} /\ \A j \in D : trial.scores[j].cost \in Nat \cup {NoCost}
    BY <1>1, TrialParts
  <2>2. D \subseteq Scorer
    BY <1>1, TrialParts
  <2>3. IsFiniteSet(D)
    BY <2>2, ScorersFinite, FS_Subset
  <2>4. 0 \notin Scorer
    BY DEF Scorer
  <2> HIDE DEF D
  <2> QED
    BY <2>1, <2>2, <2>3, <2>4
<1>3. Slips(k) = theirs \cup {own} /\ own \notin theirs
  BY <1>2 DEF Slips
<1>4. /\ \A j \in D : p[j] \in R /\ f[p[j]] = g[j] /\ f[p[j]] \in Nat
      /\ own \in R /\ f[own] = Amount(trial.cost) /\ f[own] \in Nat
      /\ \A i, j \in D : p[i] = p[j] => i = j
  BY <1>2, <1>3, AmountType
<1>5. \A r \in Slips(k) : r[1] = k /\ r[3] \in Nat \cup {NoCost}
  BY <1>2 DEF Slips
<1>6. g = [j \in D |-> f[p[j]]] /\ SumFunction(g) = SumFunctionOnSet(g, D)
  BY <1>4 DEF SumFunction
<1>7. Bill(trial) = Amount(trial.cost) + SumFunction(g)
  BY DEF Bill
<1> HIDE DEF p, f, g, D, own, trial
<1>8. SumFunctionOnSet(f, theirs) = SumFunctionOnSet(g, D)
  BY <1>2, <1>4, <1>6, SumReindex
<1>9. IsFiniteSet(theirs)
  BY <1>2, FiniteImage
<1> HIDE DEF theirs
<1>10. \A r \in theirs \cup {own} : f[r] \in Nat
  BY <1>4 DEF theirs
<1>11. SumFunctionOnSet(f, theirs \cup {own}) = SumFunctionOnSet(f, theirs) + f[own]
  BY <1>3, <1>9, <1>10, SumAdd
<1>12. SumFunctionOnSet(f, Slips(k)) = Bill(trial)
  <2>1. SumFunctionOnSet(f, theirs) \in Nat /\ f[own] \in Nat
    BY <1>4, <1>9, <1>10, SumType
  <2> QED
    BY <1>3, <1>4, <1>6, <1>7, <1>8, <1>11, <2>1
<1>13. IsFiniteSet(Slips(k))
  BY <1>3, <1>9, FS_AddElement
<1> QED
  BY <1>5, <1>12, <1>13 DEF f, trial

LEMMA ReportedIsSlips ==
  ASSUME CaseTypeOK, NEW K \in SUBSET DOMAIN trials
  PROVE  Reported(K) = UNION {Slips(k) : k \in K}
<1>1. \A k \in K : DOMAIN trials[k].scores = IF trials[k].answered THEN Scorer ELSE {}
  BY ElementOfSeq, TrialParts DEF CaseTypeOK
<1> QED
  BY <1>1 DEF Reported, Slips

LEMMA ReportedAddsUp ==
  ASSUME CaseTypeOK
  PROVE  /\ IsFiniteSet(Reported(DOMAIN trials))
         /\ \A r \in Reported(DOMAIN trials) : r[3] \in Nat \cup {NoCost}
         /\ SumFunctionOnSet([r \in Reported(DOMAIN trials) |-> Amount(r[3])],
                             Reported(DOMAIN trials)) = SumFunction(Bills)
<1> DEFINE D == DOMAIN trials
           R == Reported(D)
           f == [r \in R |-> Amount(r[3])]
           P == {K \in SUBSET D : /\ IsFiniteSet(Reported(K))
                                  /\ SumFunctionOnSet(f, Reported(K)) = SumFunctionOnSet(Bills, K)}
<1>1. IsFiniteSet(D) /\ DOMAIN Bills = D
  BY LenProperties, FS_Interval DEF CaseTypeOK, Bills
<1>2. \A K \in SUBSET D : Reported(K) = UNION {Slips(k) : k \in K}
  BY ReportedIsSlips
<1>3. \A k \in D : Slips(k) \subseteq R
  BY <1>2
<1>4. \A k \in D : /\ IsFiniteSet(Slips(k))
                   /\ \A r \in Slips(k) : r[1] = k /\ r[3] \in Nat \cup {NoCost}
                   /\ SumFunctionOnSet(f, Slips(k)) = Bill(trials[k])
                   /\ Bill(trials[k]) \in Nat
  <2> SUFFICES ASSUME NEW k \in D
               PROVE  /\ IsFiniteSet(Slips(k))
                      /\ \A r \in Slips(k) : r[1] = k /\ r[3] \in Nat \cup {NoCost}
                      /\ SumFunctionOnSet(f, Slips(k)) = Bill(trials[k])
                      /\ Bill(trials[k]) \in Nat
    OBVIOUS
  <2>1. Slips(k) \subseteq R
    BY <1>3
  <2>2. Bill(trials[k]) \in Nat
    BY BillType, ElementOfSeq DEF CaseTypeOK
  <2>3. k \in DOMAIN trials
    OBVIOUS
  <2> HIDE DEF R, D
  <2>4. /\ IsFiniteSet(Slips(k))
        /\ \A r \in Slips(k) : r[1] = k /\ r[3] \in Nat \cup {NoCost}
        /\ SumFunctionOnSet(f, Slips(k)) = Bill(trials[k])
    BY <2>1, <2>3, SlipsAddUp, Zenon
  <2> QED
    BY <2>2, <2>4, Zenon
<1>5. \A r \in R : r[3] \in Nat \cup {NoCost}
  <2>1. R = UNION {Slips(k) : k \in D}
    BY <1>2
  <2> HIDE DEF R, f
  <2> QED
    BY <1>4, <2>1
<1>6. {} \in P
  <2>1. Reported({}) = {}
    BY <1>2
  <2> QED
    BY <2>1, FS_EmptySet, SumEquations
<1>7. ASSUME NEW K \in SUBSET D, NEW k \in D, K \in P, k \notin K
      PROVE  K \cup {k} \in P
  <2>1. Reported(K \cup {k}) = Reported(K) \cup Slips(k)
    BY <1>2
  <2>2. Reported(K) \cap Slips(k) = {}
    BY <1>2, <1>4, <1>7
  <2>3. \A r \in Reported(K) \cup Slips(k) : f[r] \in Nat
    <3>1. Reported(K) \cup Slips(k) \subseteq R
      BY <1>2, <1>3
    <3>2. \A r \in R : Amount(r[3]) \in Nat
      BY <1>5, AmountType
    <3> HIDE DEF R
    <3> QED
      BY <3>1, <3>2
  <2>4. IsFiniteSet(Reported(K)) /\ IsFiniteSet(Slips(k))
    BY <1>4, <1>7
  <2>5. SumFunctionOnSet(f, Reported(K)) = SumFunctionOnSet(Bills, K)
    BY <1>7
  <2>6. IsFiniteSet(K) /\ \A n \in K \cup {k} : Bills[n] \in Nat /\ Bills[n] = Bill(trials[n])
    BY <1>1, <1>4, FS_Subset DEF Bills
  <2> HIDE DEF f, P
  <2>7. SumFunctionOnSet(f, Reported(K) \cup Slips(k))
          = SumFunctionOnSet(f, Reported(K)) + SumFunctionOnSet(f, Slips(k))
    BY <2>2, <2>3, <2>4, SumUnion
  <2>8. SumFunctionOnSet(Bills, K \cup {k}) = SumFunctionOnSet(Bills, K) + Bills[k]
    BY <1>7, <2>6, SumAdd
  <2>9. IsFiniteSet(Reported(K \cup {k}))
    BY <2>1, <2>4, FS_Union
  <2>10. SumFunctionOnSet(f, Reported(K \cup {k})) = SumFunctionOnSet(Bills, K \cup {k})
    BY <1>4, <2>1, <2>5, <2>6, <2>7, <2>8
  <2> QED
    BY <2>9, <2>10 DEF P
<1>8. D \in P
  <2> HIDE DEF P, D
  <2> QED
    BY <1>1, <1>6, <1>7, SubsetInduction
<1> QED
  BY <1>1, <1>5, <1>8 DEF SumFunction

(* What has no price adds nothing.                                         *)
LEMMA PricedAddsUp ==
  ASSUME CaseTypeOK
  PROVE  /\ SumFunction([r \in Priced(DOMAIN trials) |-> r[3]]) = SumFunction(Bills)
         /\ SumFunction(Bills) \in Nat
<1> DEFINE R == Reported(DOMAIN trials)
           Q == Priced(DOMAIN trials)
           f == [r \in R |-> Amount(r[3])]
           g == [r \in Q |-> r[3]]
<1>1. IsFiniteSet(R) /\ \A r \in R : r[3] \in Nat \cup {NoCost}
  BY ReportedAddsUp
<1>2. Q \subseteq R /\ \A r \in R : r \in Q <=> r[3] # NoCost
  BY DEF Priced
<1>3. IsFiniteSet(Q) /\ IsFiniteSet(R \ Q)
  BY <1>1, <1>2, FS_Subset
<1>4. /\ \A r \in R : f[r] \in Nat
      /\ \A r \in Q : f[r] = g[r]
      /\ \A r \in R \ Q : f[r] = 0
  BY <1>1, <1>2, AmountType
<1>5. DOMAIN g = Q /\ Q \cup (R \ Q) = R
  BY <1>2
<1>6. SumFunctionOnSet(f, R) = SumFunction(Bills)
  BY ReportedAddsUp
<1> HIDE DEF f, g, R, Q
<1>7. SumFunctionOnSet(f, Q \cup (R \ Q)) = SumFunctionOnSet(f, Q) + SumFunctionOnSet(f, R \ Q)
  BY <1>3, <1>4, <1>5, SumUnion
<1>8. SumFunctionOnSet(f, R \ Q) = 0
  BY <1>3, <1>4, SumZero
<1>9. SumFunctionOnSet(f, Q) = SumFunctionOnSet(g, Q)
  BY <1>3, <1>4, SumCongruent
<1>10. SumFunctionOnSet(f, Q) \in Nat
  <2>1. \A r \in Q : f[r] \in Nat
    BY <1>4, <1>5
  <2> QED
    BY <1>3, <2>1, SumType
<1>11. SumFunction(g) = SumFunction(Bills) /\ SumFunction(Bills) \in Nat
  <2>1. SumFunctionOnSet(f, Q \cup (R \ Q)) = SumFunctionOnSet(g, Q)
    BY <1>7, <1>8, <1>9, <1>10
  <2> QED
    BY <1>5, <1>6, <1>9, <1>10, <2>1 DEF SumFunction
<1> QED
  BY <1>11 DEF g, Q

LEMMA BilledGivesCost == BilledInv => CostIsBilled
<1> SUFFICES ASSUME BilledInv, CaseDone
             PROVE  /\ Amount(CaseResult.cost) = billed
                    /\ CaseResult.cost = NoCost => Priced(DOMAIN trials) = {}
  BY DEF CostIsBilled
<1> DEFINE all == SumFunction([r \in Priced(DOMAIN trials) |-> r[3]])
<1>0. CaseTypeOK /\ billed = SumFunction(Bills)
  BY DEF BilledInv
<1>1. CaseResult.cost = CostOf(DOMAIN trials)
  <2>1. count = 1 => DOMAIN trials = {1}
    BY <1>0, TrialFacts
  <2> QED
    BY <2>1 DEF CaseResult, Single, Folded
<1>2. all = billed /\ billed \in Nat
  BY <1>0, PricedAddsUp
<1>3. Priced(DOMAIN trials) = {} => all = 0
  BY FS_EmptySet, SumEquations DEF SumFunction
<1>4. CostOf(DOMAIN trials) = IF Priced(DOMAIN trials) = {} THEN NoCost ELSE all
  BY DEF CostOf
<1> HIDE DEF all
<1>5. Amount(NoCost) = 0 /\ Amount(all) = all /\ all # NoCost
  BY <1>2, AmountType, TargetCostsAssumption
<1> QED
  BY <1>1, <1>2, <1>3, <1>4, <1>5

(* The cost of a case is what was billed (CostIsBilled).                   *)
THEOREM CostsAddUp == CaseSpec => []CostIsBilled
<1> QED
  BY BilledInit, BilledStep, BilledGivesCost, PTL DEF CaseSpec
-----------------------------------------------------------------------------
(* The reasons a case shows. *)

(* Blame names the first answered trial in which the scorer failed.        *)
LEMMA BlameIsFirst ==
  ASSUME CaseTypeOK, CaseDone, NEW j \in Scorer
  PROVE  LET failing == {k \in OfAnswered : ~trials[k].scores[j].passed} IN
           /\ Verdict \/ failing = {} => Blame(j) = 0
           /\ ~Verdict /\ failing # {} =>
                Blame(j) \in failing /\ \A k \in failing : Blame(j) <= k
           /\ failing \subseteq 1 .. count
<1> DEFINE failing == {k \in OfAnswered : ~trials[k].scores[j].passed}
<1>1. failing \subseteq 1 .. count
  BY TrialFacts DEF OfAnswered
<1>2. failing # {} => Min(failing) \in failing /\ \A k \in failing : Min(failing) <= k
  <2>1. failing \subseteq Nat
    BY <1>1
  <2> HIDE DEF failing
  <2> QED
    BY <2>1, MinIsLeast
<1>3. Blame(j) = IF Verdict \/ failing = {} THEN 0 ELSE Min(failing)
  BY DEF Blame
<1> HIDE DEF failing
<1> QED
  BY <1>1, <1>2, <1>3 DEF failing

(* A case all of whose trials pass has the verdict, whatever the policy.   *)
LEMMA AllPassing ==
  ASSUME CaseTypeOK, CaseDone, \A k \in 1 .. count : TrialPassed(k)
  PROVE  Verdict
<1>1. {k \in DOMAIN trials : TrialPassed(k)} = 1 .. count
  BY TrialFacts
<1>2. count \in Nat /\ count >= 1 /\ Cardinality(1 .. count) = count
  BY TrialFacts, FS_Interval
<1>3. Cardinality({k \in DOMAIN trials : TrialPassed(k)}) = count
  BY <1>1, <1>2
<1>4. count >= 1 /\ 2 * count > count
  BY <1>2
<1> QED
  BY <1>3, <1>4, VerdictByCount

LEMMA FoldedIsTraceable ==
  ASSUME CaseTypeOK, CaseDone
  PROVE  LET shown == {j \in DOMAIN Folded.scores : Folded.scores[j].reason # 0}
             errored == (1 .. count) \ OfAnswered
         IN /\ CasePassed(Folded) => shown = {}
            /\ \A j \in shown : LET k == Folded.scores[j].reason IN
                 /\ k \in OfAnswered /\ ~trials[k].scores[j].passed
                 /\ \A n \in 1 .. k - 1 : n \in errored \/ trials[n].scores[j].passed
            /\ ~CasePassed(Folded) /\ shown = {} => errored # {}
<1> DEFINE shown == {j \in DOMAIN Folded.scores : Folded.scores[j].reason # 0}
           errored == (1 .. count) \ OfAnswered
           failing(j) == {k \in OfAnswered : ~trials[k].scores[j].passed}
<1>1. CasePassed(Folded) <=> Verdict
  BY FoldedCarriesVerdict
<1>2. /\ count \in Nat /\ count >= 1
      /\ OfAnswered \subseteq 1 .. count
  BY TrialFacts DEF OfAnswered
<1>3. CASE OfAnswered = {}
  <2>1. DOMAIN Folded.scores = {}
    BY <1>3 DEF Folded
  <2>2. 1 \in errored
    BY <1>2, <1>3
  <2> QED
    BY <2>1, <2>2
<1>4. CASE OfAnswered # {}
  <2>1. DOMAIN Folded.scores = Scorer /\ \A j \in Scorer : Folded.scores[j].reason = Blame(j)
    BY <1>4 DEF Folded
  <2>2. shown = {j \in Scorer : Blame(j) # 0}
    BY <2>1
  <2>3. ASSUME NEW j \in Scorer
        PROVE  /\ Verdict \/ failing(j) = {} => Blame(j) = 0
               /\ ~Verdict /\ failing(j) # {} =>
                    Blame(j) \in failing(j) /\ \A k \in failing(j) : Blame(j) <= k
               /\ failing(j) \subseteq 1 .. count
    BY BlameIsFirst
  <2>4. Verdict => shown = {}
    <3>1. Verdict => \A j \in Scorer : Blame(j) = 0
      BY <2>3
    <3> QED
      BY <2>2, <3>1
  <2> HIDE DEF shown
  <2>5. ASSUME NEW j \in shown
        PROVE  /\ Blame(j) \in OfAnswered /\ ~trials[Blame(j)].scores[j].passed
               /\ \A n \in 1 .. Blame(j) - 1 : n \in errored \/ trials[n].scores[j].passed
    <3>1. j \in Scorer /\ Blame(j) # 0
      BY <2>2
    <3> DEFINE sunk == failing(j)
    <3>0. /\ Verdict \/ sunk = {} => Blame(j) = 0
          /\ ~Verdict /\ sunk # {} => Blame(j) \in sunk /\ \A k \in sunk : Blame(j) <= k
          /\ sunk \subseteq 1 .. count
      BY <2>3, <3>1
    <3> HIDE DEF sunk
    <3>2. Blame(j) \in sunk /\ \A k \in sunk : Blame(j) <= k
      BY <3>0, <3>1
    <3>3. Blame(j) \in 1 .. count
      BY <3>0, <3>2
    <3>4. ASSUME NEW n \in 1 .. Blame(j) - 1, n \notin errored
          PROVE  trials[n].scores[j].passed
      <4>1. n \in OfAnswered /\ n \notin sunk
        BY <1>2, <3>2, <3>3, <3>4
      <4> QED
        BY <4>1 DEF sunk
    <3> QED
      BY <3>2, <3>4 DEF sunk
  <2>6. ASSUME ~Verdict, shown = {}
        PROVE  errored # {}
    <3> SUFFICES ASSUME errored = {}
                 PROVE  FALSE
      OBVIOUS
    <3>1. \A j \in Scorer : failing(j) = {}
      <4> SUFFICES ASSUME NEW j \in Scorer, failing(j) # {}
                   PROVE  FALSE
        OBVIOUS
      <4>1. Blame(j) \in 1 .. count
        <5> DEFINE sunk == failing(j)
        <5>1. /\ sunk # {} /\ sunk \subseteq 1 .. count
              /\ sunk # {} => Blame(j) \in sunk
          BY <2>3, <2>6
        <5> HIDE DEF sunk
        <5> QED
          BY <5>1
      <4>2. Blame(j) = 0
        BY <2>2, <2>6
      <4> QED
        BY <4>1, <4>2
    <3>2. \A k \in 1 .. count : TrialPassed(k)
      BY <3>1 DEF TrialPassed, failing
    <3> QED
      BY <2>6, <3>2, AllPassing
  <2> QED
    BY <1>1, <2>1, <2>4, <2>5, <2>6 DEF shown
<1> QED
  BY <1>3, <1>4

LEMMA SingleIsTraceable ==
  ASSUME CaseTypeOK, CaseDone, count = 1
  PROVE  LET shown == {j \in DOMAIN Single.scores : Single.scores[j].reason # 0}
             errored == (1 .. count) \ OfAnswered
         IN /\ CasePassed(Single) => shown = {}
            /\ \A j \in shown : LET k == Single.scores[j].reason IN
                 /\ k \in OfAnswered /\ ~trials[k].scores[j].passed
                 /\ \A n \in 1 .. k - 1 : n \in errored \/ trials[n].scores[j].passed
            /\ ~CasePassed(Single) /\ shown = {} => errored # {}
<1>1. /\ DOMAIN trials = 1 .. 1 /\ 1 \in DOMAIN trials
      /\ trials[1].answered \in BOOLEAN
      /\ trials[1].answered => /\ DOMAIN trials[1].scores = Scorer
                              /\ \A j \in Scorer : trials[1].scores[j].passed \in BOOLEAN
  BY TrialFacts
<1>2. trials[1] \in TrialResults
  BY <1>1, ElementOfSeq DEF CaseTypeOK
<1>3. ~trials[1].answered => DOMAIN trials[1].scores = {}
  BY <1>2, TrialParts
<1>4. /\ Single.error = ~trials[1].answered
      /\ DOMAIN Single.scores = DOMAIN trials[1].scores
      /\ \A j \in DOMAIN trials[1].scores :
           /\ Single.scores[j].passed = trials[1].scores[j].passed
           /\ Single.scores[j].reason = IF trials[1].scores[j].passed THEN 0 ELSE 1
  BY DEF Single
<1>5. 1 \in OfAnswered <=> trials[1].answered
  BY <1>1 DEF OfAnswered
<1>6. CASE trials[1].answered
  <2> DEFINE shown == {j \in DOMAIN Single.scores : Single.scores[j].reason # 0}
  <2>1. shown = {j \in Scorer : ~trials[1].scores[j].passed}
    BY <1>1, <1>4, <1>6
  <2>2. \A j \in shown : Single.scores[j].reason = 1 /\ ~trials[1].scores[j].passed
    BY <1>1, <1>4, <1>6, <2>1
  <2>3. CasePassed(Single) <=> shown = {}
    BY <1>1, <1>4, <1>6, <2>1 DEF CasePassed
  <2>4. \A j \in shown : LET k == Single.scores[j].reason IN
          /\ k \in OfAnswered /\ ~trials[k].scores[j].passed
          /\ \A n \in 1 .. k - 1 : n \in (1 .. count) \ OfAnswered \/ trials[n].scores[j].passed
    <3> HIDE DEF shown
    <3> QED
      BY <1>5, <1>6, <2>2
  <2> HIDE DEF shown
  <2>5. CasePassed(Single) => shown = {}
    BY <2>3
  <2>6. ~CasePassed(Single) /\ shown = {} => (1 .. count) \ OfAnswered # {}
    BY <2>3
  <2> QED
    BY <2>4, <2>5, <2>6 DEF shown
<1>7. CASE ~trials[1].answered
  BY <1>1, <1>3, <1>4, <1>5, <1>7 DEF CasePassed
<1> QED
  BY <1>6, <1>7, <1>1

LEMMA TypeGivesTrace == CaseTypeOK => FailureIsTraceable
<1> SUFFICES ASSUME CaseTypeOK, CaseDone
             PROVE  FailureIsTraceable
  BY DEF FailureIsTraceable
<1>1. CASE count = 1
  <2>1. CaseResult = Single
    BY <1>1 DEF CaseResult
  <2> QED
    BY <1>1, <2>1, SingleIsTraceable DEF FailureIsTraceable
<1>2. CASE count # 1
  <2>1. CaseResult = Folded
    BY <1>2 DEF CaseResult
  <2> QED
    BY <2>1, FoldedIsTraceable DEF FailureIsTraceable
<1> QED
  BY <1>1, <1>2

(* A failing case shows what sank it (FailureIsTraceable).                 *)
THEOREM FailuresAreTraced == CaseSpec => []FailureIsTraceable
<1> QED
  BY CaseTypeInit, CaseTypeStep, TypeGivesTrace, PTL DEF CaseSpec
-----------------------------------------------------------------------------
(* The trajectory rules. *)

RulesSpec == RulesInit /\ [][RulesNext]_steps

ToolCalls == [tool : Tools, matches : BOOLEAN]

RulesTypeOK == steps \in Seq(ToolCalls)

LEMMA FirstIndexIs ==
  ASSUME NEW S \in Seq(ToolCalls), NEW tool
  PROVE  LET first == FirstIndex(S, tool) IN
           /\ first \in Nat
           /\ first = 0 => \A i \in 1 .. Len(S) : S[i].tool # tool
           /\ first # 0 => /\ first \in 1 .. Len(S) /\ S[first].tool = tool
                           /\ \A i \in 1 .. Len(S) : i < first => S[i].tool # tool
<1> DEFINE I == {i \in 1 .. Len(S) : S[i].tool = tool}
<1>1. FirstIndex(S, tool) = IF I # {} THEN Min(I) ELSE 0
  BY DEF FirstIndex, SelectInSeq
<1>3. I \subseteq 1 .. Len(S)
  OBVIOUS
<1>2. I # {} => Min(I) \in I /\ \A i \in I : Min(I) <= i
  <2>1. I \subseteq Nat
    BY <1>3
  <2> HIDE DEF I
  <2> QED
    BY <2>1, MinIsLeast
<1> DEFINE least == Min(I)
<1>4. FirstIndex(S, tool) = IF I # {} THEN least ELSE 0
  BY <1>1
<1>5. I # {} => least \in I /\ \A i \in I : least <= i
  BY <1>2
<1> HIDE DEF least
<1> QED
  BY <1>3, <1>4, <1>5

LEMMA FirstIndexStays ==
  ASSUME NEW S \in Seq(ToolCalls), NEW e \in ToolCalls, NEW tool,
         FirstIndex(S, tool) # 0
  PROVE  FirstIndex(Append(S, e), tool) = FirstIndex(S, tool)
<1> DEFINE T == Append(S, e)
           f == FirstIndex(S, tool)
           g == FirstIndex(T, tool)
<1>1. T \in Seq(ToolCalls) /\ Len(T) = Len(S) + 1 /\ \A i \in 1 .. Len(S) : T[i] = S[i]
  OBVIOUS
<1>2. /\ f \in 1 .. Len(S) /\ S[f].tool = tool
      /\ \A i \in 1 .. Len(S) : i < f => S[i].tool # tool
  BY FirstIndexIs
<1>3. /\ g \in Nat
      /\ g = 0 => \A i \in 1 .. Len(T) : T[i].tool # tool
      /\ g # 0 => /\ g \in 1 .. Len(T) /\ T[g].tool = tool
                  /\ \A i \in 1 .. Len(T) : i < g => T[i].tool # tool
  BY <1>1, FirstIndexIs
<1>4. Len(S) \in Nat
  OBVIOUS
<1> HIDE DEF T, f, g
<1>5. T[f].tool = tool /\ f \in 1 .. Len(T)
  BY <1>1, <1>2, <1>4
<1>6. g # 0 /\ g <= f
  BY <1>3, <1>5, <1>4, <1>1, <1>2
<1>7. g \in 1 .. Len(S) /\ S[g].tool = tool
  BY <1>1, <1>2, <1>3, <1>4, <1>6
<1>8. f <= g
  BY <1>2, <1>4, <1>7
<1> QED
  BY <1>6, <1>8, <1>2, <1>3, <1>4 DEF f, g, T

(* One more call.                                                          *)
LEMMA MustCallStays ==
  ASSUME NEW S \in Seq(ToolCalls), NEW e \in ToolCalls, NEW rule \in MustCalls,
         MustCallHolds(rule, S)
  PROVE  MustCallHolds(rule, Append(S, e))
<1> DEFINE T == Append(S, e)
           start == IF rule.after = NoTool THEN 0 ELSE FirstIndex(S, rule.after)
<1>1. Len(T) = Len(S) + 1 /\ Len(S) \in Nat /\ \A i \in 1 .. Len(S) : T[i] = S[i]
  OBVIOUS
<1>2. start \in Nat
  BY FirstIndexIs
<1>3. rule.after # NoTool => start > 0
  BY DEF MustCallHolds
<1>4. rule.after # NoTool => FirstIndex(S, rule.after) # 0
  BY <1>3
<1>5. start = IF rule.after = NoTool THEN 0 ELSE FirstIndex(T, rule.after)
  BY <1>4, FirstIndexStays
<1>6. PICK i \in start + 1 .. Len(S) : S[i].tool = rule.tool /\ (rule.with => S[i].matches)
  BY DEF MustCallHolds
<1> HIDE DEF start, T
<1>7. i \in start + 1 .. Len(T) /\ T[i] = S[i]
  BY <1>1, <1>2, <1>6
<1>8. \E k \in start + 1 .. Len(T) : T[k].tool = rule.tool /\ (rule.with => T[k].matches)
  BY <1>6, <1>7
<1> QED
  BY <1>3, <1>5, <1>8 DEF MustCallHolds, T

(* MustNotCallHolds, spelled out.                                          *)
LEMMA MustNotCallIs ==
  ASSUME NEW S \in Seq(ToolCalls), NEW rule \in MustNotCalls
  PROVE  LET guard == IF rule.before = NoTool THEN 0 ELSE FirstIndex(S, rule.before)
         IN /\ guard \in 0 .. Len(S)
            /\ guard = 0 => (MustNotCallHolds(rule, S) <=>
                               \A i \in 1 .. Len(S) : S[i].tool # rule.tool)
            /\ guard # 0 => (MustNotCallHolds(rule, S) <=>
                               \A i \in 1 .. guard - 1 : S[i].tool # rule.tool)
<1>1. FirstIndex(S, rule.before) \in 0 .. Len(S)
  <2>1. /\ FirstIndex(S, rule.before) \in Nat
        /\ FirstIndex(S, rule.before) # 0 => FirstIndex(S, rule.before) \in 1 .. Len(S)
    BY FirstIndexIs
  <2>2. Len(S) \in Nat
    OBVIOUS
  <2> QED
    BY <2>1, <2>2
<1>2. 0 \in 0 .. Len(S)
  OBVIOUS
<1> QED
  BY <1>1, <1>2 DEF MustNotCallHolds

LEMMA MustNotCallMoves ==
  ASSUME NEW S \in Seq(ToolCalls), NEW e \in ToolCalls, NEW rule \in MustNotCalls
  PROVE  /\ MustNotCallHolds(rule, Append(S, e)) => MustNotCallHolds(rule, S)
         /\ \/ \E i \in DOMAIN S : S[i].tool = rule.before
            \/ e.tool # rule.tool
            => (MustNotCallHolds(rule, Append(S, e)) <=> MustNotCallHolds(rule, S))
<1> DEFINE T == Append(S, e)
           guard(U) == IF rule.before = NoTool THEN 0 ELSE FirstIndex(U, rule.before)
           f == guard(S)
           g == guard(T)
<1>1. /\ T \in Seq(ToolCalls) /\ Len(T) = Len(S) + 1 /\ Len(S) \in Nat
      /\ DOMAIN S = 1 .. Len(S)
      /\ \A i \in 1 .. Len(S) : T[i] = S[i]
      /\ T[Len(S) + 1] = e
  OBVIOUS
<1>2. /\ f \in 0 .. Len(S)
      /\ f = 0 => (MustNotCallHolds(rule, S) <=>
                     \A i \in 1 .. Len(S) : S[i].tool # rule.tool)
      /\ f # 0 => (MustNotCallHolds(rule, S) <=>
                     \A i \in 1 .. f - 1 : S[i].tool # rule.tool)
  BY MustNotCallIs
<1>3. /\ g \in 0 .. Len(T)
      /\ g = 0 => (MustNotCallHolds(rule, T) <=>
                     \A i \in 1 .. Len(T) : T[i].tool # rule.tool)
      /\ g # 0 => (MustNotCallHolds(rule, T) <=>
                     \A i \in 1 .. g - 1 : T[i].tool # rule.tool)
  <2>1. T \in Seq(ToolCalls)
    BY <1>1
  <2> HIDE DEF T
  <2> QED
    BY <2>1, MustNotCallIs
<1>4. f # 0 => g = f
  BY FirstIndexStays
<1>5. f = 0 => g = 0 \/ g = Len(S) + 1
  <2>1. CASE rule.before = NoTool
    BY <2>1
  <2>2. CASE rule.before # NoTool
    <3>1. f = 0 => \A i \in 1 .. Len(S) : S[i].tool # rule.before
      BY <2>2, FirstIndexIs
    <3>2. g # 0 => g \in 1 .. Len(T) /\ T[g].tool = rule.before
      BY <1>1, <2>2, FirstIndexIs
    <3> HIDE DEF T, f, g
    <3> QED
      BY <1>1, <3>1, <3>2
  <2> QED
    BY <2>1, <2>2
<1>6. (\E i \in DOMAIN S : S[i].tool = rule.before) => f # 0
  <2> SUFFICES ASSUME NEW i \in DOMAIN S, S[i].tool = rule.before
               PROVE  f # 0
    OBVIOUS
  <2>1. S[i].tool \in Tools
    <3>1. S[i] \in ToolCalls
      BY ElementOfSeq, <1>1
    <3> QED
      BY <3>1 DEF ToolCalls
  <2>2. rule.before # NoTool
    BY <2>1, NoToolAssumption
  <2> QED
    BY <1>1, <2>2, FirstIndexIs
<1> DEFINE holdsS == MustNotCallHolds(rule, S)
           holdsT == MustNotCallHolds(rule, T)
<1>7. CASE f # 0
  <2> HIDE DEF T, f, g
  <2>1. g = f /\ f \in 1 .. Len(S)
    BY <1>2, <1>4, <1>7, <1>1
  <2>2. \A i \in 1 .. f - 1 : T[i] = S[i]
    BY <1>1, <2>1
  <2>3. MustNotCallHolds(rule, T) <=> MustNotCallHolds(rule, S)
    BY <1>2, <1>3, <1>7, <2>1, <2>2
  <2> QED
    BY <2>3 DEF T
<1>8. CASE f = 0
  <2>1. MustNotCallHolds(rule, S) <=> \A i \in 1 .. Len(S) : S[i].tool # rule.tool
    BY <1>2, <1>8
  <2>2. MustNotCallHolds(rule, T) => MustNotCallHolds(rule, S)
    <3> HIDE DEF T, f, g
    <3> QED
      BY <1>1, <1>3, <1>5, <1>8, <2>1
  <2>3. e.tool # rule.tool /\ MustNotCallHolds(rule, S) => MustNotCallHolds(rule, T)
    <3> HIDE DEF T, f, g
    <3> QED
      BY <1>1, <1>3, <1>5, <1>8, <2>1
  <2> QED
    BY <1>6, <1>8, <2>2, <2>3
<1> QED
  BY <1>7, <1>8

LEMMA RulesTypeInit == RulesInit => RulesTypeOK
  BY DEF RulesInit, RulesTypeOK

LEMMA RulesTypeStep == RulesTypeOK /\ [RulesNext]_steps => RulesTypeOK'
<1> SUFFICES ASSUME steps \in Seq(ToolCalls), [RulesNext]_steps
             PROVE  steps' \in Seq(ToolCalls)
  BY DEF RulesTypeOK
<1>1. ASSUME NEW tool \in Tools, NEW matches \in BOOLEAN, Call(tool, matches)
      PROVE  steps' \in Seq(ToolCalls)
  <2>1. [tool |-> tool, matches |-> matches] \in ToolCalls
    BY DEF ToolCalls
  <2> QED
    BY <1>1, <2>1, AppendProperties DEF Call
<1> QED
  BY <1>1 DEF RulesNext

(* Later calls do not undo a verdict of the calls so far (RulesSettle).    *)
THEOREM VerdictsOnCallsStand == RulesSpec => RulesSettle
<1>1. ASSUME RulesTypeOK, RulesNext
      PROVE  /\ \A rule \in MustCalls : Holds(rule, steps) => Holds(rule, steps')
             /\ \A rule \in MustNotCalls \cup MaxStepses :
                  Holds(rule, steps') => Holds(rule, steps)
             /\ \A rule \in MustNotCalls :
                  \/ \E i \in DOMAIN steps : steps[i].tool = rule.before
                  \/ steps' # <<>> /\ Last(steps').tool # rule.tool
                  => (Holds(rule, steps') <=> Holds(rule, steps))
  <2>1. PICK e \in ToolCalls : steps' = Append(steps, e)
    BY <1>1 DEF RulesNext, Call, ToolCalls
  <2>2. steps \in Seq(ToolCalls)
    BY <1>1 DEF RulesTypeOK
  <2>3. ASSUME NEW rule \in MustCalls, Holds(rule, steps)
        PROVE  Holds(rule, steps')
    <3>1. rule.kind = "must_call"
      BY DEF MustCalls
    <3>2. MustCallHolds(rule, steps)
      BY <2>3, <3>1 DEF Holds
    <3> QED
      BY <2>1, <2>2, <3>1, <3>2, MustCallStays DEF Holds
  <2>4. ASSUME NEW rule \in MustNotCalls
        PROVE  /\ Holds(rule, steps') => Holds(rule, steps)
               /\ \/ \E i \in DOMAIN steps : steps[i].tool = rule.before
                  \/ steps' # <<>> /\ Last(steps').tool # rule.tool
                  => (Holds(rule, steps') <=> Holds(rule, steps))
    <3>1. rule.kind = "must_not_call"
      BY DEF MustNotCalls
    <3>2. /\ Holds(rule, steps) <=> MustNotCallHolds(rule, steps)
          /\ Holds(rule, steps') <=> MustNotCallHolds(rule, steps')
      BY <3>1 DEF Holds
    <3>3. Last(steps') = e
      BY <2>1, <2>2 DEF Last
    <3>4. /\ MustNotCallHolds(rule, steps') => MustNotCallHolds(rule, steps)
          /\ \/ \E i \in DOMAIN steps : steps[i].tool = rule.before
             \/ e.tool # rule.tool
             => (MustNotCallHolds(rule, steps') <=> MustNotCallHolds(rule, steps))
      BY <2>1, <2>2, MustNotCallMoves
    <3> QED
      BY <3>2, <3>3, <3>4
  <2>5. ASSUME NEW rule \in MaxStepses, Holds(rule, steps')
        PROVE  Holds(rule, steps)
    <3>1. rule.kind = "max_steps" /\ rule.limit \in Nat
      BY LimitsAssumption DEF MaxStepses
    <3>2. Len(steps') = Len(steps) + 1 /\ Len(steps) \in Nat
      BY <2>1, <2>2
    <3> QED
      BY <2>5, <3>1, <3>2 DEF Holds
  <2> QED
    BY <2>3, <2>4, <2>5
<1> QED
  BY <1>1, RulesTypeInit, RulesTypeStep, PTL DEF RulesSpec, RulesSettle
-----------------------------------------------------------------------------
(* The winners of a matrix. *)

MatrixSpec == MatrixInit /\ [][MatrixNext]_matrix

Arms == [MatrixCases -> MeanScores \cup {NoMean}]

MatrixTypeOK == matrix \in Seq(Arms)

(* The best mean among n arms, and who is at it.                           *)
LEMMA BestIsReached ==
  ASSUME NEW n \in Nat, NEW row,
         DOMAIN row = 1 .. n, \A a \in 1 .. n : row[a] \in MeanScores \cup {NoMean},
         ScoredArms(row) # {}
  PROVE  /\ \E a \in ScoredArms(row) : row[a] = Best(row)
         /\ \A a \in ScoredArms(row) : row[a] <= Best(row)
         /\ Best(row) \in Nat
<1> DEFINE means == {row[a] : a \in ScoredArms(row)}
<1>1. ScoredArms(row) \in SUBSET (1 .. n)
  BY DEF ScoredArms
<1>2. IsFiniteSet(ScoredArms(row))
  BY <1>1, FS_Interval, FS_Subset
<1>3. IsFiniteSet(means) /\ means # {}
  BY <1>2, FiniteImage
<1>4. means \subseteq Nat
  BY <1>1, MatrixAssumption DEF ScoredArms
<1>5. Best(row) = Max(means)
  BY DEF Best
<1>6. Max(means) \in means /\ \A m \in means : m <= Max(means)
  <2> HIDE DEF means
  <2> QED
    BY <1>3, <1>4, MaxIsGreatest
<1>7. Best(row) \in means /\ \A m \in means : m <= Best(row)
  BY <1>5, <1>6
<1> QED
  BY <1>4, <1>7

(* Whoever wins among more arms wins among fewer.                          *)
LEMMA WinnerAmongFewer ==
  ASSUME NEW n \in Nat, NEW row, NEW more,
         DOMAIN row = 1 .. n, DOMAIN more = 1 .. n + 1,
         \A a \in 1 .. n : more[a] = row[a],
         \A a \in 1 .. n + 1 : more[a] \in MeanScores \cup {NoMean},
         NEW a \in 1 .. n, PickWinner(more) = a
  PROVE  PickWinner(row) = a
<1>1. AtMax(more) \in SUBSET (1 .. n + 1) /\ AtMax(row) \in SUBSET (1 .. n)
  BY DEF AtMax, ScoredArms
<1>2. IsFiniteSet(AtMax(more)) /\ IsFiniteSet(AtMax(row))
  <2>1. IsFiniteSet(1 .. n + 1) /\ IsFiniteSet(1 .. n)
    BY FS_Interval
  <2> QED
    BY <1>1, <2>1, FS_Subset
<1>3. AtMax(more) = {a}
  <2>1. a # 0
    OBVIOUS
  <2>2. Cardinality(AtMax(more)) = 1 /\ a = CHOOSE w \in AtMax(more) : TRUE
    BY <2>1 DEF PickWinner
  <2>3. PICK w : AtMax(more) = {w}
    BY <1>2, <2>2, FS_Singleton
  <2> QED
    BY <2>2, <2>3
<1> DEFINE top == Best(more)
           best == Best(row)
<1>4. a \in ScoredArms(more) /\ top - more[a] <= Tolerance
  BY <1>3 DEF AtMax
<1>5. /\ ScoredArms(row) = ScoredArms(more) \cap (1 .. n)
      /\ ScoredArms(more) \subseteq 1 .. n + 1
      /\ \A b \in ScoredArms(more) : more[b] \in Nat
  <2>1. \A b \in 1 .. n + 1 : more[b] # NoMean => more[b] \in Nat
    BY MatrixAssumption
  <2>2. 1 .. n \subseteq 1 .. n + 1
    OBVIOUS
  <2>3. ScoredArms(more) = {b \in 1 .. n + 1 : more[b] # NoMean}
    BY DEF ScoredArms
  <2>4. ScoredArms(row) = {b \in 1 .. n : more[b] # NoMean}
    BY DEF ScoredArms
  <2> QED
    BY <2>1, <2>2, <2>3, <2>4
<1>6. a \in ScoredArms(row)
  BY <1>4, <1>5
<1>7. /\ \E b \in ScoredArms(more) : more[b] = top
      /\ \A b \in ScoredArms(more) : more[b] <= top
      /\ top \in Nat
  BY <1>4, BestIsReached
<1>8. /\ \E b \in ScoredArms(row) : row[b] = best
      /\ \A b \in ScoredArms(row) : row[b] <= best
      /\ best \in Nat
  BY <1>6, BestIsReached
<1>9. best <= top
  <2>1. PICK b \in ScoredArms(row) : row[b] = best
    BY <1>8
  <2>2. b \in ScoredArms(more) /\ more[b] = best
    BY <2>1, <1>5
  <2> QED
    BY <1>7, <2>2
<1>10. \A b \in ScoredArms(more) : top - more[b] <= Tolerance => b = a
  BY <1>3 DEF AtMax
<1>11. \A b \in ScoredArms(row) : b \in AtMax(row) <=> best - row[b] <= Tolerance
  BY DEF AtMax
<1>12. AtMax(row) \subseteq ScoredArms(row)
  BY DEF AtMax
<1> HIDE DEF top, best
<1>13. more[a] \in Nat /\ row[a] = more[a] /\ Tolerance \in Nat
  BY <1>4, <1>5, MatrixAssumption
<1>14. a \in AtMax(row)
  <2>1. best - row[a] <= Tolerance
    BY <1>4, <1>7, <1>8, <1>9, <1>13
  <2> QED
    BY <1>6, <1>11, <2>1
<1>15. best = top
  <2> SUFFICES ASSUME best # top
               PROVE  FALSE
    OBVIOUS
  <2>1. PICK b \in ScoredArms(more) : more[b] = top
    BY <1>7
  <2>2. b \notin 1 .. n
    <3> SUFFICES ASSUME b \in 1 .. n
                 PROVE  FALSE
      OBVIOUS
    <3>1. b \in ScoredArms(row) /\ row[b] = top
      BY <1>5, <2>1
    <3> QED
      BY <1>7, <1>8, <1>9, <3>1
  <2>3. top - more[b] <= Tolerance
    BY <1>7, <1>13, <2>1
  <2> QED
    BY <1>10, <2>1, <2>2, <2>3
<1>16. AtMax(row) = {a}
  <2>1. ASSUME NEW b \in AtMax(row)
        PROVE  b = a
    <3>1. b \in ScoredArms(row) /\ b \in ScoredArms(more) /\ more[b] = row[b]
      BY <1>5, <1>12
    <3>2. top - more[b] <= Tolerance
      BY <1>11, <1>15, <3>1
    <3> QED
      BY <1>10, <3>1, <3>2
  <2> QED
    BY <1>14, <2>1
<1> QED
  BY <1>16, FS_Singleton DEF PickWinner

LEMMA MatrixTypeInit == MatrixInit => MatrixTypeOK
  BY DEF MatrixInit, MatrixTypeOK

LEMMA MatrixTypeStep == MatrixTypeOK /\ [MatrixNext]_matrix => MatrixTypeOK'
<1> SUFFICES ASSUME matrix \in Seq(Arms), [MatrixNext]_matrix
             PROVE  matrix' \in Seq(Arms)
  BY DEF MatrixTypeOK
<1>1. ASSUME NEW means \in Arms, AddArm(means)
      PROVE  matrix' \in Seq(Arms)
  BY <1>1, AppendProperties DEF AddArm
<1> QED
  BY <1>1 DEF MatrixNext, Arms

(* No arm gains a win from one more arm (NewArmGivesNoWins).               *)
THEOREM NoWinsFromCompany == MatrixSpec => NewArmGivesNoWins
<1>1. ASSUME MatrixTypeOK, MatrixNext
      PROVE  \A a \in DOMAIN matrix : Wins(matrix', a) <= Wins(matrix, a)
  <2>1. PICK means \in Arms : matrix' = Append(matrix, means)
    BY <1>1 DEF MatrixNext, AddArm, Arms
  <2>2. matrix \in Seq(Arms) /\ matrix' \in Seq(Arms)
    BY <1>1, MatrixTypeStep DEF MatrixTypeOK
  <2> DEFINE n == Len(matrix)
  <2>3. /\ n \in Nat /\ DOMAIN matrix = 1 .. n /\ DOMAIN matrix' = 1 .. n + 1
        /\ \A a \in 1 .. n : matrix'[a] = matrix[a]
    BY <2>1, <2>2
  <2>4. \A a \in 1 .. n + 1 : matrix'[a] \in Arms
    BY <2>2, <2>3, ElementOfSeq
  <2> HIDE DEF n
  <2> SUFFICES ASSUME NEW a \in 1 .. n
               PROVE  Wins(matrix', a) <= Wins(matrix, a)
    BY <2>3
  <2>5. ASSUME NEW c \in MatrixCases, PickWinner(Row(matrix', c)) = a
        PROVE  PickWinner(Row(matrix, c)) = a
    <3> DEFINE row == Row(matrix, c)
               more == Row(matrix', c)
    <3>1. /\ DOMAIN row = 1 .. n /\ DOMAIN more = 1 .. n + 1
          /\ \A b \in 1 .. n : more[b] = row[b]
          /\ \A b \in 1 .. n + 1 : more[b] = matrix'[b][c]
      BY <2>3 DEF Row
    <3>2. \A b \in 1 .. n + 1 : more[b] \in MeanScores \cup {NoMean}
      BY <2>4, <3>1 DEF Arms
    <3> HIDE DEF row, more
    <3>3. PickWinner(more) = a
      BY <2>5 DEF more
    <3>4. PickWinner(row) = a
      BY <2>3, <3>1, <3>2, <3>3, WinnerAmongFewer
    <3> QED
      BY <3>4 DEF row
  <2> DEFINE before == {c \in MatrixCases : PickWinner(Row(matrix, c)) = a}
             after == {c \in MatrixCases : PickWinner(Row(matrix', c)) = a}
  <2>6. after \in SUBSET before
    BY <2>5
  <2>7. before \in SUBSET MatrixCases
    OBVIOUS
  <2>8. IsFiniteSet(before)
    BY <2>7, FS_Subset, MatrixAssumption
  <2>9. Cardinality(after) <= Cardinality(before)
    BY <2>6, <2>8, FS_Subset
  <2> QED
    BY <2>9 DEF Wins
<1> QED
  BY <1>1, MatrixTypeInit, MatrixTypeStep, PTL DEF MatrixSpec, NewArmGivesNoWins
-----------------------------------------------------------------------------
(* The reading of a trace. *)

TraceSpec == TraceInit /\ [][TraceNext]_spans

TraceTypeOK == spans \in Seq(Spans)

LEMMA TraceTypeInit == TraceInit => TraceTypeOK
  BY DEF TraceInit, TraceTypeOK

LEMMA TraceTypeStep == TraceTypeOK /\ [TraceNext]_spans => TraceTypeOK'
<1> SUFFICES ASSUME spans \in Seq(Spans), [TraceNext]_spans
             PROVE  spans' \in Seq(Spans)
  BY DEF TraceTypeOK
<1>1. ASSUME NEW s \in Spans, Export(s)
      PROVE  spans' \in Seq(Spans)
  BY <1>1, AppendProperties DEF Export
<1> QED
  BY <1>1 DEF TraceNext

LEMMA SpanParts ==
  ASSUME NEW S \in Seq(Spans)
  PROVE  /\ Len(S) \in Nat /\ DOMAIN S = 1 .. Len(S)
         /\ \A i \in DOMAIN S : /\ S[i].start \in (Nat \ {0}) \cup {Missing}
                                /\ S[i].end \in Nat \cup {Missing}
                                /\ S[i].tokens \in Nat \cup {Missing}
<1>1. Len(S) \in Nat /\ DOMAIN S = 1 .. Len(S)
  OBVIOUS
<1>2. \A i \in DOMAIN S : S[i] \in Spans
  BY <1>1, ElementOfSeq
<1> QED
  BY <1>1, <1>2, SpansAssumption

(* Precedes orders the spans of an export, one after the other.            *)
LEMMA PrecedesOrders ==
  ASSUME NEW S \in Seq(Spans)
  PROVE  /\ \A i \in DOMAIN S : ~Precedes(S, i, i)
         /\ \A i, j \in DOMAIN S : i # j => Precedes(S, i, j) \/ Precedes(S, j, i)
         /\ \A i, j, k \in DOMAIN S :
              Precedes(S, i, j) /\ Precedes(S, j, k) => Precedes(S, i, k)
<1>1. /\ DOMAIN S \subseteq Nat
      /\ \A i \in DOMAIN S : S[i].start \in Nat \cup {Missing}
  BY SpanParts
<1>2. ASSUME NEW i \in DOMAIN S
      PROVE  ~Precedes(S, i, i)
  BY <1>1 DEF Precedes, Earlier
<1>3. ASSUME NEW i \in DOMAIN S, NEW j \in DOMAIN S, i # j
      PROVE  Precedes(S, i, j) \/ Precedes(S, j, i)
  BY <1>1, <1>3 DEF Precedes, Earlier
<1>4. ASSUME NEW i \in DOMAIN S, NEW j \in DOMAIN S, NEW k \in DOMAIN S,
             Precedes(S, i, j), Precedes(S, j, k)
      PROVE  Precedes(S, i, k)
  BY <1>1, <1>4 DEF Precedes, Earlier
<1> QED
  BY <1>2, <1>3, <1>4

(* The ranks are the numbers of the places, each once.                     *)
LEMMA RanksArePlaces ==
  ASSUME NEW S \in Seq(Spans)
  PROVE  /\ \A i \in DOMAIN S : Rank(S, i) \in DOMAIN S
         /\ \A i, j \in DOMAIN S : Rank(S, i) = Rank(S, j) => i = j
         /\ \A r \in DOMAIN S : \E i \in DOMAIN S : Rank(S, i) = r
<1> DEFINE n == Len(S)
           upto(i) == {j \in DOMAIN S : j = i \/ Precedes(S, j, i)}
<1>1. n \in Nat /\ DOMAIN S = 1 .. n
  OBVIOUS
<1>2. IsFiniteSet(DOMAIN S) /\ Cardinality(DOMAIN S) = n
  <2>1. /\ IsFiniteSet(1 .. Len(S))
        /\ Cardinality(1 .. Len(S)) = IF 1 > Len(S) THEN 0 ELSE Len(S) - 1 + 1
    BY <1>1, FS_Interval
  <2> QED
    BY <1>1, <2>1
<1>3. \A i \in DOMAIN S : Rank(S, i) = Cardinality(upto(i))
  BY DEF Rank
<1>4. ASSUME NEW i \in DOMAIN S
      PROVE  /\ IsFiniteSet(upto(i)) /\ i \in upto(i)
             /\ Cardinality(upto(i)) \in 1 .. n
  <2>1. upto(i) \in SUBSET (DOMAIN S) /\ i \in upto(i)
    OBVIOUS
  <2> HIDE DEF upto, n
  <2>2. IsFiniteSet(upto(i)) /\ Cardinality(upto(i)) <= n
    BY <1>2, <2>1, FS_Subset
  <2>3. Cardinality(upto(i)) \in Nat /\ Cardinality(upto(i)) # 0
    BY <2>1, <2>2, FS_CardinalityType, FS_EmptySet
  <2> QED
    BY <1>1, <2>1, <2>2, <2>3
<1>5. ASSUME NEW i \in DOMAIN S, NEW j \in DOMAIN S, Precedes(S, i, j)
      PROVE  Rank(S, i) # Rank(S, j)
  <2>1. upto(i) \in SUBSET upto(j)
    BY <1>5, PrecedesOrders
  <2>2. j \notin upto(i)
    <3>1. ~(j = i) /\ ~Precedes(S, j, i)
      BY <1>5, PrecedesOrders
    <3> QED
      BY <3>1
  <2>3. j \in upto(j) /\ IsFiniteSet(upto(j))
    BY <1>4
  <2> HIDE DEF upto
  <2>4. Cardinality(upto(i)) # Cardinality(upto(j))
    BY <2>1, <2>2, <2>3, FS_Subset
  <2> QED
    BY <1>3, <2>4
<1>6. \A i, j \in DOMAIN S : Rank(S, i) = Rank(S, j) => i = j
  BY <1>5, PrecedesOrders
<1>7. \A i \in DOMAIN S : Rank(S, i) \in DOMAIN S
  BY <1>1, <1>3, <1>4
<1> DEFINE rank == [i \in DOMAIN S |-> Rank(S, i)]
<1>8. rank \in Injection(DOMAIN S, DOMAIN S)
  <2>1. rank \in [DOMAIN S -> DOMAIN S]
    BY <1>7
  <2>2. \A i, j \in DOMAIN S : rank[i] = rank[j] => i = j
    BY <1>6
  <2> HIDE DEF rank
  <2> QED
    BY <2>1, <2>2, Zenon DEF Injection, IsInjective
<1>9. rank \in Surjection(DOMAIN S, DOMAIN S)
  <2> HIDE DEF rank
  <2> QED
    BY <1>2, <1>8, FS_Injection
<1>10. \A r \in DOMAIN S : \E i \in DOMAIN S : Rank(S, i) = r
  <2>1. \A r \in DOMAIN S : \E i \in DOMAIN S : rank[i] = r
    <3> HIDE DEF rank
    <3> QED
      BY <1>9 DEF Surjection
  <2> QED
    BY <2>1
<1> QED
  BY <1>6, <1>7, <1>10

(* Sorted holds each span at the place of its rank.                        *)
LEMMA SortedPlaces ==
  ASSUME NEW S \in Seq(Spans)
  PROVE  /\ DOMAIN Sorted(S) = DOMAIN S
         /\ \A i \in DOMAIN S : Sorted(S)[Rank(S, i)] = S[i]
         /\ \A r \in DOMAIN S : \E i \in DOMAIN S : Rank(S, i) = r /\ Sorted(S)[r] = S[i]
<1>1. DOMAIN Sorted(S) = DOMAIN S
  BY DEF Sorted
<1>2. \A r \in DOMAIN S : Sorted(S)[r] = S[CHOOSE i \in DOMAIN S : Rank(S, i) = r]
  BY DEF Sorted
<1>3. ASSUME NEW i \in DOMAIN S
      PROVE  Sorted(S)[Rank(S, i)] = S[i]
  <2>1. Rank(S, i) \in DOMAIN S
    BY RanksArePlaces
  <2>2. \A k \in DOMAIN S : Rank(S, k) = Rank(S, i) => k = i
    BY RanksArePlaces
  <2>3. (CHOOSE k \in DOMAIN S : Rank(S, k) = Rank(S, i)) = i
    BY <2>2
  <2> QED
    BY <1>2, <2>1, <2>3
<1>4. \A r \in DOMAIN S : \E i \in DOMAIN S : Rank(S, i) = r
  BY RanksArePlaces
<1> QED
  BY <1>1, <1>3, <1>4

(* The roots that say something, and the places they are sorted to.        *)
Speaking(S) == {i \in DOMAIN S : IsRoot(S, S[i]) /\ S[i].answer # Missing}

LEMMA SpeakingAnswer ==
  ASSUME NEW S \in Seq(Spans)
  PROVE  /\ \A i \in Speaking(S) : Rank(S, i) \in Answering(S)
         /\ \A r \in Answering(S) :
              \E i \in Speaking(S) : Rank(S, i) = r /\ Sorted(S)[r] = S[i]
<1>1. ASSUME NEW i \in Speaking(S)
      PROVE  Rank(S, i) \in Answering(S)
  <2>1. i \in DOMAIN S /\ IsRoot(S, S[i]) /\ S[i].answer # Missing
    BY DEF Speaking
  <2>2. Rank(S, i) \in DOMAIN S /\ Sorted(S)[Rank(S, i)] = S[i]
    BY <2>1, RanksArePlaces, SortedPlaces
  <2> QED
    BY <2>1, <2>2 DEF Answering
<1>2. ASSUME NEW r \in Answering(S)
      PROVE  \E i \in Speaking(S) : Rank(S, i) = r /\ Sorted(S)[r] = S[i]
  <2>1. r \in DOMAIN S /\ IsRoot(S, Sorted(S)[r]) /\ Sorted(S)[r].answer # Missing
    BY DEF Answering
  <2>2. PICK i \in DOMAIN S : Rank(S, i) = r /\ Sorted(S)[r] = S[i]
    BY <2>1, SortedPlaces
  <2>3. i \in Speaking(S)
    BY <2>1, <2>2 DEF Speaking
  <2> QED
    BY <2>2, <2>3
<1> QED
  BY <1>1, <1>2

(* One of the answers is the latest.                                       *)
LEMMA LatestExists ==
  ASSUME NEW A, IsFiniteSet(A), A \subseteq Nat, A # {},
         NEW f, \A i \in A : f[i] \in Nat
  PROVE  \E i \in A : \A j \in A : f[j] < f[i] \/ (f[j] = f[i] /\ j <= i)
<1> DEFINE times == {f[i] : i \in A}
           top == Max(times)
           latest == {i \in A : f[i] = top}
<1>1. IsFiniteSet(times) /\ times # {} /\ times \subseteq Nat
  BY FiniteImage
<1>2. top \in times /\ \A t \in times : t <= top
  <2> HIDE DEF times
  <2> QED
    BY <1>1, MaxIsGreatest
<1>3. \A i \in A : f[i] <= top
  BY <1>2
<1>4. latest \in SUBSET A /\ latest # {}
  BY <1>2
<1>5. IsFiniteSet(latest) /\ latest \subseteq Nat
  <2> HIDE DEF latest
  <2> QED
    BY <1>4, FS_Subset
<1>6. Max(latest) \in latest /\ \A i \in latest : i <= Max(latest)
  <2> HIDE DEF latest
  <2> QED
    BY <1>4, <1>5, MaxIsGreatest
<1>7. top \in Nat
  BY <1>1, <1>2
<1> DEFINE last == Max(latest)
<1>8. last \in A /\ f[last] = top /\ \A i \in A : f[i] = top => i <= last
  BY <1>6
<1> HIDE DEF last, top
<1>9. \A j \in A : f[j] < f[last] \/ (f[j] = f[last] /\ j <= last)
  BY <1>3, <1>7, <1>8
<1> QED
  BY <1>8, <1>9

(* The answer of an export is that of a root that no other comes after.    *)
LEMMA AnswerIsLatest ==
  ASSUME NEW S \in Seq(Spans), Answering(S) # {}
  PROVE  \E w \in Answering(S) :
           /\ FinalAnswer(S) = Sorted(S)[w].answer
           /\ \A j \in Answering(S) : Since(Sorted(S)[j]) <= Since(Sorted(S)[w])
<1> DEFINE T == Sorted(S)
           A == Answering(S)
           since == [i \in A |-> Since(T[i])]
           w == CHOOSE i \in A : \A j \in A :
                  Since(T[j]) < Since(T[i]) \/ (Since(T[j]) = Since(T[i]) /\ j <= i)
<1>1. Len(S) \in Nat /\ DOMAIN S = 1 .. Len(S)
  OBVIOUS
<1>2. A \in SUBSET (1 .. Len(S))
  BY <1>1 DEF Answering
<1>3. IsFiniteSet(A) /\ A \subseteq Nat
  <2>1. IsFiniteSet(1 .. Len(S))
    BY <1>1, FS_Interval
  <2> QED
    BY <1>1, <1>2, <2>1, FS_Subset
<1>4. \A i \in A : Since(T[i]) \in Nat
  <2> SUFFICES ASSUME NEW i \in A
               PROVE  Since(T[i]) \in Nat
    OBVIOUS
  <2>1. PICK k \in DOMAIN S : T[i] = S[k]
    BY <1>1, <1>2, SortedPlaces
  <2>2. S[k].start \in Nat \cup {Missing}
    BY SpanParts
  <2> QED
    BY <2>1, <2>2 DEF Since
<1>5. \E i \in A : \A j \in A :
        Since(T[j]) < Since(T[i]) \/ (Since(T[j]) = Since(T[i]) /\ j <= i)
  <2>1. \A i \in A : since[i] = Since(T[i])
    OBVIOUS
  <2>2. \A i \in A : since[i] \in Nat
    BY <1>4, <2>1
  <2> HIDE DEF since, A, T
  <2>3. \E i \in A : \A j \in A :
          since[j] < since[i] \/ (since[j] = since[i] /\ j <= i)
    BY <1>3, <2>2, LatestExists DEF A
  <2> QED
    BY <2>1, <2>3
<1>6. /\ w \in A
      /\ \A j \in A : Since(T[j]) < Since(T[w]) \/ (Since(T[j]) = Since(T[w]) /\ j <= w)
  <2> HIDE DEF A, T
  <2> QED
    BY <1>5
<1>7. FinalAnswer(S) = T[w].answer
  BY DEF FinalAnswer
<1> HIDE DEF w, T
<1>8. \A j \in A : Since(T[j]) <= Since(T[w])
  BY <1>4, <1>6
<1> QED
  BY <1>6, <1>7, <1>8 DEF T

LEMMA TypeGivesLastWord == TraceTypeOK => LastWordIsGraded
<1> SUFFICES ASSUME spans \in Seq(Spans)
             PROVE  LastWordIsGraded
  BY DEF TraceTypeOK
<1>1. Speaking(spans) = {} <=> Answering(spans) = {}
  BY SpeakingAnswer
<1>2. ASSUME Answering(spans) # {}
      PROVE  \E i \in Speaking(spans) :
               /\ spans[i].answer = FinalAnswer(spans)
               /\ \A j \in Speaking(spans) : spans[j].start # Missing =>
                    spans[i].start # Missing /\ spans[j].start <= spans[i].start
  <2>1. PICK w \in Answering(spans) :
           /\ FinalAnswer(spans) = Sorted(spans)[w].answer
           /\ \A j \in Answering(spans) : Since(Sorted(spans)[j]) <= Since(Sorted(spans)[w])
    BY <1>2, AnswerIsLatest
  <2>2. PICK i \in Speaking(spans) : Sorted(spans)[w] = spans[i]
    BY SpeakingAnswer
  <2>3. ASSUME NEW j \in Speaking(spans), spans[j].start # Missing
        PROVE  spans[i].start # Missing /\ spans[j].start <= spans[i].start
    <3>1. i \in DOMAIN spans /\ j \in DOMAIN spans
      BY DEF Speaking
    <3>2. Sorted(spans)[Rank(spans, j)] = spans[j] /\ Rank(spans, j) \in Answering(spans)
      BY <3>1, SpeakingAnswer, SortedPlaces
    <3>3. Since(spans[j]) <= Since(spans[i])
      BY <2>1, <2>2, <3>2
    <3>4. /\ spans[i].start \in (Nat \ {0}) \cup {Missing}
          /\ spans[j].start \in (Nat \ {0}) \cup {Missing}
      BY <3>1, SpanParts
    <3> QED
      BY <2>3, <3>3, <3>4 DEF Since
  <2>4. spans[i].answer = FinalAnswer(spans)
    BY <2>1, <2>2
  <2> QED
    BY <2>3, <2>4
<1>3. Answering(spans) = {} => FinalAnswer(spans) = Missing
  BY DEF FinalAnswer
<1>4. \A i \in Speaking(spans) : spans[i].answer # Missing
  BY DEF Speaking
<1>5. FinalAnswer(spans) = Missing <=> Speaking(spans) = {}
  BY <1>1, <1>2, <1>3, <1>4
<1> QED
  BY <1>1, <1>2, <1>5 DEF LastWordIsGraded, Speaking

(* The last thing said at the top of a trace is graded (LastWordIsGraded). *)
THEOREM LastWordWins == TraceSpec => []LastWordIsGraded
<1> QED
  BY TraceTypeInit, TraceTypeStep, TypeGivesLastWord, PTL DEF TraceSpec

(* An export written in another order.                                     *)
Reordered(S, p) == [i \in DOMAIN S |-> S[p[i]]]

LEMMA ReorderedParts ==
  ASSUME NEW S \in Seq(Spans), NEW p \in Bijection(DOMAIN S, DOMAIN S)
  PROVE  /\ Reordered(S, p) \in Seq(Spans)
         /\ DOMAIN Reordered(S, p) = DOMAIN S
         /\ \A i \in DOMAIN S : p[i] \in DOMAIN S /\ Reordered(S, p)[i] = S[p[i]]
         /\ \A k \in DOMAIN S : \E i \in DOMAIN S : p[i] = k
         /\ \A i, j \in DOMAIN S : p[i] = p[j] => i = j
<1>1. p \in [DOMAIN S -> DOMAIN S]
  BY DEF Bijection, Surjection
<1>2. \A k \in DOMAIN S : \E i \in DOMAIN S : p[i] = k
  BY DEF Bijection, Surjection
<1>3. \A i, j \in DOMAIN S : p[i] = p[j] => i = j
  BY DEF Bijection, Injection, IsInjective
<1>4. DOMAIN S = 1 .. Len(S) /\ Len(S) \in Nat /\ \A i \in DOMAIN S : S[i] \in Spans
  BY ElementOfSeq
<1>5. \A i \in DOMAIN S : p[i] \in DOMAIN S /\ Reordered(S, p)[i] = S[p[i]]
  BY <1>1 DEF Reordered
<1>6. Reordered(S, p) \in [1 .. Len(S) -> Spans]
  BY <1>4, <1>5 DEF Reordered
<1>7. Reordered(S, p) \in Seq(Spans)
  BY <1>4, <1>6, SeqDef
<1> QED
  BY <1>2, <1>3, <1>5, <1>7 DEF Reordered

(* Where the starts are distinct the rank is the number of starts up to it.*)
LEMMA RankByStart ==
  ASSUME NEW S \in Seq(Spans), Distinct(S), NEW i \in DOMAIN S
  PROVE  Rank(S, i) = Cardinality({j \in DOMAIN S : S[j].start <= S[i].start})
<1>1. \A j \in DOMAIN S : S[j].start \in Nat /\ S[j].start # Missing
  BY SpanParts DEF Distinct
<1>2. \A j \in DOMAIN S : S[j].start = S[i].start => j = i
  BY DEF Distinct
<1>3. \A j \in DOMAIN S : j = i \/ Precedes(S, j, i) <=> S[j].start <= S[i].start
  <2> SUFFICES ASSUME NEW j \in DOMAIN S
               PROVE  j = i \/ Precedes(S, j, i) <=> S[j].start <= S[i].start
    OBVIOUS
  <2>1. Precedes(S, j, i) <=>
          S[j].start < S[i].start \/ (j < i /\ ~(S[i].start < S[j].start))
    BY <1>1 DEF Precedes, Earlier
  <2>2. S[j].start \in Nat /\ S[i].start \in Nat /\ (S[j].start = S[i].start => j = i)
    BY <1>1, <1>2
  <2>3. j \in Nat /\ i \in Nat
    OBVIOUS
  <2> QED
    BY <2>1, <2>2, <2>3
<1>4. {j \in DOMAIN S : j = i \/ Precedes(S, j, i)} = {j \in DOMAIN S : S[j].start <= S[i].start}
  BY <1>3
<1> QED
  BY <1>4 DEF Rank

LEMMA RankFollows ==
  ASSUME NEW S \in Seq(Spans), Distinct(S), NEW p \in Bijection(DOMAIN S, DOMAIN S),
         NEW i \in DOMAIN S
  PROVE  Rank(Reordered(S, p), i) = Rank(S, p[i])
<1> DEFINE U == Reordered(S, p)
           before == {j \in DOMAIN S : U[j].start <= U[i].start}
           after == {k \in DOMAIN S : S[k].start <= S[p[i]].start}
           to == [j \in before |-> p[j]]
<1>1. /\ U \in Seq(Spans) /\ DOMAIN U = DOMAIN S
      /\ \A j \in DOMAIN S : p[j] \in DOMAIN S /\ U[j] = S[p[j]]
      /\ \A k \in DOMAIN S : \E j \in DOMAIN S : p[j] = k
      /\ \A j, k \in DOMAIN S : p[j] = p[k] => j = k
  <2>1. /\ U \in Seq(Spans) /\ DOMAIN U = DOMAIN S
        /\ \A j \in DOMAIN S : p[j] \in DOMAIN S /\ U[j] = S[p[j]]
    BY ReorderedParts
  <2>2. /\ \A k \in DOMAIN S : \E j \in DOMAIN S : p[j] = k
        /\ \A j, k \in DOMAIN S : p[j] = p[k] => j = k
    BY ReorderedParts
  <2> QED
    BY <2>1, <2>2, Zenon
<1> HIDE DEF U
<1>2. Distinct(U)
  <2>1. \A k \in DOMAIN S : S[k].start # Missing
    BY DEF Distinct
  <2>2. ASSUME NEW j \in DOMAIN S, NEW k \in DOMAIN S, U[j].start = U[k].start
        PROVE  j = k
    <3>1. S[p[j]].start = S[p[k]].start /\ p[j] \in DOMAIN S /\ p[k] \in DOMAIN S
      BY <1>1, <2>2
    <3>2. p[j] = p[k]
      BY <3>1 DEF Distinct
    <3> QED
      BY <1>1, <3>2
  <2>3. ASSUME NEW j \in DOMAIN S
        PROVE  U[j].start # Missing
    <3>1. U[j] = S[p[j]] /\ p[j] \in DOMAIN S
      BY <1>1
    <3> QED
      BY <2>1, <3>1
  <2> QED
    BY <1>1, <2>2, <2>3 DEF Distinct
<1>3. Rank(U, i) = Cardinality(before)
  <2>1. Rank(U, i) = Cardinality({j \in DOMAIN U : U[j].start <= U[i].start})
    <3>1. i \in DOMAIN U
      BY <1>1
    <3>2. \A V \in Seq(Spans) : Distinct(V) => \A k \in DOMAIN V :
            Rank(V, k) = Cardinality({j \in DOMAIN V : V[j].start <= V[k].start})
      BY RankByStart
    <3>3. U \in Seq(Spans)
      BY <1>1
    <3>4. \A k \in DOMAIN U :
            Rank(U, k) = Cardinality({j \in DOMAIN U : U[j].start <= U[k].start})
      BY <1>2, <3>2, <3>3, Zenon
    <3> QED
      BY <3>1, <3>4, Zenon
  <2> QED
    BY <1>1, <2>1
<1>4. Rank(S, p[i]) = Cardinality(after)
  <2>1. \A k \in DOMAIN S : Rank(S, k) = Cardinality({j \in DOMAIN S : S[j].start <= S[k].start})
    BY RankByStart
  <2> QED
    BY <1>1, <2>1
<1>5. /\ \A j \in before : p[j] \in after
      /\ \A k \in after : \E j \in before : p[j] = k
  <2>1. \A j \in DOMAIN S : U[j].start <= U[i].start <=> S[p[j]].start <= S[p[i]].start
    BY <1>1
  <2>2. \A j \in before : p[j] \in after
    BY <1>1, <2>1
  <2>3. ASSUME NEW k \in after
        PROVE  \E j \in before : p[j] = k
    <3>1. PICK j \in DOMAIN S : p[j] = k
      BY <1>1
    <3>2. j \in before
      BY <2>1, <3>1
    <3> QED
      BY <3>1, <3>2
  <2> QED
    BY <2>2, <2>3
<1>6. to \in Bijection(before, after)
  <2>1. to \in [before -> after]
    BY <1>5
  <2>2. \A k \in after : \E j \in before : to[j] = k
    BY <1>5
  <2>3. \A j, k \in before : to[j] = to[k] => j = k
    BY <1>1
  <2> HIDE DEF to, before, after
  <2> QED
    BY <2>1, <2>2, <2>3 DEF Bijection, Injection, Surjection, IsInjective
<1>7. IsFiniteSet(before)
  <2>1. before \in SUBSET (1 .. Len(S))
    OBVIOUS
  <2>2. IsFiniteSet(1 .. Len(S))
    BY FS_Interval
  <2> HIDE DEF before
  <2> QED
    BY <2>1, <2>2, FS_Subset
<1> HIDE DEF before, after, to
<1>8. Cardinality(after) = Cardinality(before)
  BY <1>6, <1>7, FS_Bijection DEF ExistsBijection
<1> QED
  BY <1>3, <1>4, <1>8 DEF U

LEMMA SortedFollows ==
  ASSUME NEW S \in Seq(Spans), Distinct(S), NEW p \in Bijection(DOMAIN S, DOMAIN S)
  PROVE  Sorted(Reordered(S, p)) = Sorted(S)
<1> DEFINE U == Reordered(S, p)
<1>1. /\ U \in Seq(Spans) /\ DOMAIN U = DOMAIN S
      /\ \A j \in DOMAIN S : p[j] \in DOMAIN S /\ U[j] = S[p[j]]
  BY ReorderedParts
<1>2. \A i \in DOMAIN S : Rank(U, i) = Rank(S, p[i])
  BY RankFollows
<1> HIDE DEF U
<1>3. ASSUME NEW r \in DOMAIN S
      PROVE  Sorted(U)[r] = Sorted(S)[r]
  <2>1. PICK i \in DOMAIN U : Rank(U, i) = r /\ Sorted(U)[r] = U[i]
    BY <1>1, SortedPlaces
  <2>2. Rank(S, p[i]) = r /\ p[i] \in DOMAIN S
    BY <1>1, <1>2, <2>1
  <2>3. Sorted(S)[r] = S[p[i]]
    BY <2>2, SortedPlaces
  <2> QED
    BY <1>1, <2>1, <2>3
<1>4. Sorted(U) = [r \in DOMAIN S |-> Sorted(U)[r]]
  BY <1>1 DEF Sorted
<1>5. Sorted(S) = [r \in DOMAIN S |-> Sorted(S)[r]]
  BY DEF Sorted
<1>6. Sorted(U) = Sorted(S)
  BY <1>3, <1>4, <1>5
<1> QED
  BY <1>6 DEF U

LEMMA AnswerFollows ==
  ASSUME NEW S \in Seq(Spans), Distinct(S), NEW p \in Bijection(DOMAIN S, DOMAIN S)
  PROVE  /\ Steps(Reordered(S, p)) = Steps(S)
         /\ FinalAnswer(Reordered(S, p)) = FinalAnswer(S)
<1> DEFINE U == Reordered(S, p)
<1>1. /\ DOMAIN U = DOMAIN S
      /\ \A j \in DOMAIN S : p[j] \in DOMAIN S /\ U[j] = S[p[j]]
      /\ \A k \in DOMAIN S : \E j \in DOMAIN S : p[j] = k
  BY ReorderedParts
<1>2. Sorted(U) = Sorted(S)
  BY SortedFollows
<1> HIDE DEF U
<1>3. Steps(U) = Steps(S)
  BY <1>2 DEF Steps
<1>4. {U[i].id : i \in DOMAIN U} = {S[i].id : i \in DOMAIN S}
  <2>1. {U[i].id : i \in DOMAIN U} = {S[p[i]].id : i \in DOMAIN S}
    <3>1. \A i \in DOMAIN S : U[i] = S[p[i]]
      BY <1>1
    <3>2. \A x : (\E i \in DOMAIN S : x = U[i].id) <=> (\E i \in DOMAIN S : x = S[p[i]].id)
      BY <3>1, Zenon
    <3>3. {U[i].id : i \in DOMAIN S} = {S[p[i]].id : i \in DOMAIN S}
      BY <3>2, Zenon
    <3>4. DOMAIN U = DOMAIN S
      BY <1>1
    <3> QED
      BY <3>3, <3>4, Zenon
  <2>2. \A x : (\E i \in DOMAIN S : x = S[p[i]].id) <=> (\E k \in DOMAIN S : x = S[k].id)
    BY <1>1, Zenon
  <2>3. {S[p[i]].id : i \in DOMAIN S} = {S[i].id : i \in DOMAIN S}
    BY <2>2, Zenon
  <2> QED
    BY <2>1, <2>3
<1>5. \A s : IsRoot(U, s) <=> IsRoot(S, s)
  BY <1>4 DEF IsRoot
<1>6. Answering(U) = Answering(S)
  BY <1>1, <1>2, <1>5 DEF Answering
<1>7. FinalAnswer(U) = FinalAnswer(S)
  BY <1>2, <1>6 DEF FinalAnswer
<1> QED
  BY <1>3, <1>7 DEF U

LEMMA TokensFollow ==
  ASSUME NEW S \in Seq(Spans), NEW p \in Bijection(DOMAIN S, DOMAIN S)
  PROVE  Tokens(Reordered(S, p)) = Tokens(S)
<1> DEFINE U == Reordered(S, p)
           counted == {i \in DOMAIN U : U[i].tokens # Missing}
           here == {i \in DOMAIN S : S[i].tokens # Missing}
           tokens == [k \in here |-> S[k].tokens]
<1>1. /\ DOMAIN U = DOMAIN S
      /\ \A j \in DOMAIN S : p[j] \in DOMAIN S /\ U[j] = S[p[j]]
      /\ \A k \in DOMAIN S : \E j \in DOMAIN S : p[j] = k
      /\ \A j, k \in DOMAIN S : p[j] = p[k] => j = k
  BY ReorderedParts
<1> HIDE DEF U
<1>2. \A i \in DOMAIN S : i \in counted <=> p[i] \in here
  BY <1>1
<1>3. counted \in SUBSET (DOMAIN S) /\ here \in SUBSET (DOMAIN S)
  BY <1>1
<1>4. \A k \in here : tokens[k] = S[k].tokens /\ S[k].tokens \in Nat
  BY SpanParts
<1>5. \A i \in counted : U[i].tokens = tokens[p[i]]
  BY <1>1, <1>2, <1>4
<1>6. Tokens(U) = IF counted = {} THEN Missing
                  ELSE SumFunctionOnSet([i \in counted |-> U[i].tokens], counted)
  BY DEF Tokens, SumFunction
<1>7. Tokens(S) = IF here = {} THEN Missing ELSE SumFunctionOnSet(tokens, here)
  BY DEF Tokens, SumFunction
<1> DEFINE there == [i \in counted |-> U[i].tokens]
<1>8. there = [i \in counted |-> tokens[p[i]]]
  BY <1>5
<1>12. Tokens(U) = IF counted = {} THEN Missing ELSE SumFunctionOnSet(there, counted)
  BY <1>6
<1> HIDE DEF counted, here, tokens, there
<1>9. {p[i] : i \in counted} = here
  <2>1. \A i \in counted : p[i] \in here
    BY <1>2, <1>3
  <2>2. ASSUME NEW k \in here
        PROVE  \E i \in counted : p[i] = k
    <3>1. PICK i \in DOMAIN S : p[i] = k
      BY <1>1, <1>3
    <3> QED
      BY <1>2, <3>1
  <2> QED
    BY <2>1, <2>2
<1>10. IsFiniteSet(counted)
  <2>1. IsFiniteSet(DOMAIN S)
    BY FS_Interval
  <2> QED
    BY <1>3, <2>1, FS_Subset
<1>11. SumFunctionOnSet(tokens, {p[i] : i \in counted})
         = SumFunctionOnSet([i \in counted |-> tokens[p[i]]], counted)
  <2>1. \A i, j \in counted : p[i] = p[j] => i = j
    BY <1>1, <1>3
  <2>2. \A i \in counted : tokens[p[i]] \in Nat
    BY <1>2, <1>3, <1>4
  <2> QED
    BY <1>10, <2>1, <2>2, SumReindex
<1>13. SumFunctionOnSet(tokens, here) = SumFunctionOnSet(there, counted)
  BY <1>8, <1>9, <1>11
<1>14. counted = {} <=> here = {}
  BY <1>9
<1>15. Tokens(U) = Tokens(S)
  BY <1>7, <1>12, <1>13, <1>14
<1> QED
  BY <1>15 DEF U

LEMMA LatencyFollows ==
  ASSUME NEW S \in Seq(Spans), NEW p \in Bijection(DOMAIN S, DOMAIN S)
  PROVE  Latency(Reordered(S, p)) = Latency(S)
<1> DEFINE U == Reordered(S, p)
           timed(V) == {i \in DOMAIN V : Missing \notin {V[i].start, V[i].end}}
<1>1. /\ DOMAIN U = DOMAIN S
      /\ \A j \in DOMAIN S : p[j] \in DOMAIN S /\ U[j] = S[p[j]]
      /\ \A k \in DOMAIN S : \E j \in DOMAIN S : p[j] = k
  BY ReorderedParts
<1> HIDE DEF U
<1>2. \A i \in DOMAIN S : i \in timed(U) <=> p[i] \in timed(S)
  BY <1>1
<1>3. timed(U) \subseteq DOMAIN S /\ timed(S) \subseteq DOMAIN S
  BY <1>1
<1> DEFINE A == timed(U)
           B == timed(S)
<1>4. (\A i \in A : i \in DOMAIN S /\ p[i] \in B) /\ \A k \in B : \E i \in A : p[i] = k
  <2>1. (\A i \in A : i \in DOMAIN S) /\ \A k \in B : k \in DOMAIN S
    BY <1>3
  <2>2. \A i \in DOMAIN S : i \in A <=> p[i] \in B
    BY <1>2
  <2> HIDE DEF A, B
  <2> QED
    BY <1>1, <2>1, <2>2
<1>5. /\ {U[i].start : i \in A} = {S[i].start : i \in B}
      /\ {U[i].end : i \in A} = {S[i].end : i \in B}
  <2>1. \A i \in A : U[i] = S[p[i]]
    BY <1>1, <1>4
  <2> HIDE DEF A, B
  <2>2. /\ {U[i].start : i \in A} = {S[p[i]].start : i \in A}
        /\ {U[i].end : i \in A} = {S[p[i]].end : i \in A}
    BY <2>1
  <2>3. /\ \A x : (\E i \in A : x = S[p[i]].start) <=> (\E k \in B : x = S[k].start)
        /\ \A x : (\E i \in A : x = S[p[i]].end) <=> (\E k \in B : x = S[k].end)
    BY <1>4, Zenon
  <2>4. {S[p[i]].start : i \in A} = {S[i].start : i \in B}
    BY <2>3, Zenon
  <2>5. {S[p[i]].end : i \in A} = {S[i].end : i \in B}
    BY <2>3, Zenon
  <2> QED
    BY <2>2, <2>4, <2>5
<1>6. A = {} <=> B = {}
  BY <1>4
<1>7. Latency(U) = Latency(S)
  BY <1>5, <1>6 DEF Latency
<1> QED
  BY <1>7 DEF U

LEMMA TypeGivesWriteOrder == TraceTypeOK => WriteOrderIrrelevant
<1> SUFFICES ASSUME spans \in Seq(Spans), Distinct(spans),
                    NEW p \in Bijection(DOMAIN spans, DOMAIN spans)
             PROVE  TraceOutput(Reordered(spans, p)) = TraceOutput(spans)
  BY DEF TraceTypeOK, WriteOrderIrrelevant, Reordered
<1>1. /\ Steps(Reordered(spans, p)) = Steps(spans)
      /\ FinalAnswer(Reordered(spans, p)) = FinalAnswer(spans)
  BY AnswerFollows
<1>2. Tokens(Reordered(spans, p)) = Tokens(spans)
  BY TokensFollow
<1>3. Latency(Reordered(spans, p)) = Latency(spans)
  BY LatencyFollows
<1> QED
  BY <1>1, <1>2, <1>3 DEF TraceOutput

(* The order in which an export is written is not seen                     *)
(* (WriteOrderIrrelevant).                                                 *)
THEOREM AnyWriteOrder == TraceSpec => []WriteOrderIrrelevant
<1> QED
  BY TraceTypeInit, TraceTypeStep, TypeGivesWriteOrder, PTL DEF TraceSpec
-----------------------------------------------------------------------------
(* SuiteVerdict: fractions. *)

Fractions == Nat \X (Nat \ {0})

LEMMA Products ==
  /\ \A m, n \in Nat : m * n \in Nat
  /\ \A m, n \in Nat \ {0} : m * n \in Nat \ {0}
  /\ \A a, b, c \in Nat : a >= b => a * c >= b * c
  /\ \A a, b \in Nat, c \in Nat \ {0} : a * c >= b * c => a >= b
<1>1. \A m, n \in Nat : m * n \in Nat
  OBVIOUS
<1>2. \A m, n \in Nat \ {0} : m * n \in Nat \ {0}
  OBVIOUS
<1>3. ASSUME NEW a \in Nat, NEW b \in Nat, NEW c \in Nat, a >= b
      PROVE  a * c >= b * c
  <2>1. (a - b) * c \in Nat
    BY <1>1, <1>3
  <2>2. (a - b) * c = a * c - b * c /\ a * c \in Nat /\ b * c \in Nat
    BY <1>1
  <2> QED
    BY <2>1, <2>2
<1>4. ASSUME NEW a \in Nat, NEW b \in Nat, NEW c \in Nat \ {0}, a * c >= b * c, ~(a >= b)
      PROVE  FALSE
  <2>1. (b - a) * c \in Nat \ {0}
    BY <1>2, <1>4
  <2>2. (b - a) * c = b * c - a * c /\ a * c \in Nat /\ b * c \in Nat
    BY <1>1
  <2> QED
    BY <1>4, <2>1, <2>2
<1> QED
  BY <1>1, <1>2, <1>3, <1>4

LEMMA FractionParts ==
  ASSUME NEW a \in Fractions
  PROVE  a[1] \in Nat /\ a[2] \in Nat \ {0} /\ a = <<a[1], a[2]>>
BY DEF Fractions

LEMMA OverIsFraction ==
  ASSUME NEW n \in Nat, NEW d \in Nat
  PROVE  /\ Over(n, d) \in Fractions
         /\ d # 0 => Over(n, d)[1] = n /\ Over(n, d)[2] = d
         /\ d = 0 => Over(n, d)[1] = 0 /\ Over(n, d)[2] = 1
BY DEF Over, Fractions

LEMMA PlusIsFraction ==
  ASSUME NEW a \in Fractions, NEW b \in Fractions
  PROVE  /\ Plus(a, b) \in Fractions
         /\ Plus(a, b)[1] = a[1] * b[2] + b[1] * a[2]
         /\ Plus(a, b)[2] = a[2] * b[2]
<1>1. /\ a[1] \in Nat /\ a[2] \in Nat \ {0} /\ b[1] \in Nat /\ b[2] \in Nat \ {0}
  BY FractionParts
<1>2. /\ a[1] * b[2] \in Nat /\ b[1] * a[2] \in Nat /\ a[2] * b[2] \in Nat \ {0}
  BY <1>1, Products
<1> QED
  BY <1>2 DEF Plus, Fractions

LEMMA PlusZero ==
  ASSUME NEW a \in Fractions
  PROVE  Plus(<<0, 1>>, a) = a
<1>1. a[1] \in Nat /\ a[2] \in Nat /\ a = <<a[1], a[2]>>
  BY FractionParts
<1>2. Plus(<<0, 1>>, a) = <<0 * a[2] + a[1] * 1, 1 * a[2]>>
  BY DEF Plus
<1>3. 0 * a[2] + a[1] * 1 = a[1] /\ 1 * a[2] = a[2]
  BY <1>1
<1> QED
  BY <1>1, <1>2, <1>3

LEMMA PlusExchanges ==
  ASSUME NEW a \in Fractions, NEW b \in Fractions, NEW c \in Fractions
  PROVE  Plus(a, Plus(b, c)) = Plus(b, Plus(a, c))
<1>1. /\ a[1] \in Nat /\ a[2] \in Nat /\ b[1] \in Nat /\ b[2] \in Nat
      /\ c[1] \in Nat /\ c[2] \in Nat
  BY FractionParts
<1>2. \A p, q, r, s, t, u \in Nat :
        /\ p * (s * u) + (r * u + t * s) * q = r * (q * u) + (p * u + t * q) * s
        /\ q * (s * u) = s * (q * u)
  OBVIOUS
<1>3. /\ Plus(b, c)[1] = b[1] * c[2] + c[1] * b[2] /\ Plus(b, c)[2] = b[2] * c[2]
      /\ Plus(a, c)[1] = a[1] * c[2] + c[1] * a[2] /\ Plus(a, c)[2] = a[2] * c[2]
  BY PlusIsFraction
<1>4. Plus(a, Plus(b, c)) =
        <<a[1] * (b[2] * c[2]) + (b[1] * c[2] + c[1] * b[2]) * a[2], a[2] * (b[2] * c[2])>>
  BY <1>3 DEF Plus
<1>5. Plus(b, Plus(a, c)) =
        <<b[1] * (a[2] * c[2]) + (a[1] * c[2] + c[1] * a[2]) * b[2], b[2] * (a[2] * c[2])>>
  BY <1>3 DEF Plus
<1> QED
  BY <1>1, <1>2, <1>4, <1>5

LEMMA PlusKeepsOrder ==
  ASSUME NEW a \in Fractions, NEW b \in Fractions, NEW c \in Fractions, NEW d \in Fractions,
         AtLeast(a, c), AtLeast(b, d)
  PROVE  AtLeast(Plus(a, b), Plus(c, d))
<1>1. /\ a[1] \in Nat /\ a[2] \in Nat /\ b[1] \in Nat /\ b[2] \in Nat
      /\ c[1] \in Nat /\ c[2] \in Nat /\ d[1] \in Nat /\ d[2] \in Nat
  BY FractionParts
<1>2. ASSUME NEW p \in Nat, NEW q \in Nat, NEW r \in Nat, NEW s \in Nat,
             NEW t \in Nat, NEW u \in Nat, NEW v \in Nat, NEW w \in Nat,
             p * u >= t * q, r * w >= v * s
      PROVE  (p * s + r * q) * (u * w) >= (t * w + v * u) * (q * s)
  <2>1. /\ p * u \in Nat /\ t * q \in Nat /\ r * w \in Nat /\ v * s \in Nat
        /\ s * w \in Nat /\ q * u \in Nat
    BY Products
  <2>2. /\ (p * u) * (s * w) >= (t * q) * (s * w)
        /\ (r * w) * (q * u) >= (v * s) * (q * u)
    BY <1>2, <2>1, Products
  <2>3. /\ (p * s + r * q) * (u * w) = (p * u) * (s * w) + (r * w) * (q * u)
        /\ (t * w + v * u) * (q * s) = (t * q) * (s * w) + (v * s) * (q * u)
    OBVIOUS
  <2>4. /\ (p * u) * (s * w) \in Nat /\ (t * q) * (s * w) \in Nat
        /\ (r * w) * (q * u) \in Nat /\ (v * s) * (q * u) \in Nat
    BY <2>1, Products
  <2>5. \A k, l, m, n \in Nat : k >= l /\ m >= n => k + m >= l + n
    OBVIOUS
  <2>6. (p * u) * (s * w) + (r * w) * (q * u) >= (t * q) * (s * w) + (v * s) * (q * u)
    BY <2>2, <2>4, <2>5
  <2> QED
    BY <2>3, <2>6
<1>3. /\ Plus(a, b)[1] = a[1] * b[2] + b[1] * a[2] /\ Plus(a, b)[2] = a[2] * b[2]
      /\ Plus(c, d)[1] = c[1] * d[2] + d[1] * c[2] /\ Plus(c, d)[2] = c[2] * d[2]
  BY PlusIsFraction
<1>4. a[1] * c[2] >= c[1] * a[2] /\ b[1] * d[2] >= d[1] * b[2]
  BY DEF AtLeast
<1>5. (a[1] * b[2] + b[1] * a[2]) * (c[2] * d[2]) >= (c[1] * d[2] + d[1] * c[2]) * (a[2] * b[2])
  BY <1>1, <1>2, <1>4
<1> QED
  BY <1>3, <1>5 DEF AtLeast

LEMMA OrderIsTransitive ==
  ASSUME NEW a \in Fractions, NEW b \in Fractions, NEW c \in Fractions,
         AtLeast(a, b), AtLeast(b, c)
  PROVE  AtLeast(a, c)
<1>1. /\ a[1] \in Nat /\ a[2] \in Nat /\ b[1] \in Nat /\ b[2] \in Nat \ {0}
      /\ c[1] \in Nat /\ c[2] \in Nat
  BY FractionParts
<1>2. ASSUME NEW p \in Nat, NEW q \in Nat, NEW r \in Nat, NEW s \in Nat \ {0},
             NEW t \in Nat, NEW u \in Nat, p * s >= r * q, r * u >= t * s
      PROVE  p * u >= t * q
  <2>1. /\ p * s \in Nat /\ r * q \in Nat /\ r * u \in Nat /\ t * s \in Nat
        /\ p * u \in Nat /\ t * q \in Nat
    BY Products
  <2>2. (p * s) * u >= (r * q) * u /\ (r * u) * q >= (t * s) * q
    BY <1>2, <2>1, Products
  <2>3. /\ (p * s) * u = (p * u) * s /\ (r * q) * u = (r * u) * q
        /\ (t * s) * q = (t * q) * s
    OBVIOUS
  <2>4. /\ (p * u) * s \in Nat /\ (r * u) * q \in Nat /\ (t * q) * s \in Nat
    BY <2>1, Products
  <2>5. (p * u) * s >= (t * q) * s
    BY <2>2, <2>3, <2>4
  <2> QED
    BY <2>1, <2>5, Products
<1>3. a[1] * b[2] >= b[1] * a[2] /\ b[1] * c[2] >= c[1] * b[2]
  BY DEF AtLeast
<1>4. a[1] * c[2] >= c[1] * a[2]
  BY <1>1, <1>2, <1>3
<1> QED
  BY <1>4 DEF AtLeast

(* Sums of fractions, as FoldFunction takes them: like AddsUp, with Plus.  *)

FractionSum(f, S) == FoldFunctionOnSet(Plus, <<0, 1>>, f, S)
FoldsUp(f, S, h) ==
  h = [T \in SUBSET S |-> IF T = {} THEN <<0, 1>> ELSE Plus(f[Chosen(T)], h[T \ {Chosen(T)}])]

LEMMA FoldIsChosen ==
  ASSUME NEW f, NEW S
  PROVE  FractionSum(f, S) = (CHOOSE h : FoldsUp(f, S, h))[S]
BY DEF FractionSum, FoldFunctionOnSet, MapThenFoldSet, FoldsUp, Chosen

LEMMA FoldExists ==
  ASSUME NEW f, NEW S, IsFiniteSet(S)
  PROVE  \E h : FoldsUp(f, S, h)
<1> DEFINE Small(n) == {T \in SUBSET S : Cardinality(T) <= n}
           Partial(n, h) ==
             h = [T \in Small(n) |->
                    IF T = {} THEN <<0, 1>> ELSE Plus(f[Chosen(T)], h[T \ {Chosen(T)}])]
           N == {n \in Nat : \E h : Partial(n, h)}
<1>0. \A T \in SUBSET S : IsFiniteSet(T) /\ Cardinality(T) \in Nat
  BY FS_Subset, FS_CardinalityType
<1>1. 0 \in N
  <2>1. Small(0) = {{}}
    BY <1>0, FS_EmptySet
  <2>2. Partial(0, [T \in Small(0) |-> <<0, 1>>])
    BY <2>1
  <2> QED
    BY <2>2
<1>2. ASSUME NEW n \in Nat, n \in N
      PROVE  n + 1 \in N
  <2>1. PICK h : Partial(n, h)
    BY <1>2
  <2> DEFINE g == [T \in Small(n + 1) |->
                     IF T \in Small(n) THEN h[T] ELSE Plus(f[Chosen(T)], h[T \ {Chosen(T)}])]
  <2>2. ASSUME NEW T \in Small(n + 1)
        PROVE  g[T] = IF T = {} THEN <<0, 1>> ELSE Plus(f[Chosen(T)], g[T \ {Chosen(T)}])
    <3>1. CASE T = {}
      <4>1. T \in Small(n)
        BY <3>1, FS_EmptySet
      <4> QED
        BY <2>1, <3>1, <4>1
    <3>2. CASE T # {}
      <4>1. Chosen(T) \in T
        BY <3>2 DEF Chosen
      <4>2. Cardinality(T \ {Chosen(T)}) = Cardinality(T) - 1 /\ T \ {Chosen(T)} \in SUBSET S
        BY <1>0, <4>1, FS_RemoveElement
      <4>3. T \ {Chosen(T)} \in Small(n) /\ T \ {Chosen(T)} \in Small(n + 1)
        BY <1>0, <1>2, <4>2
      <4>4. g[T \ {Chosen(T)}] = h[T \ {Chosen(T)}]
        BY <4>3
      <4>5. T \in Small(n) => h[T] = Plus(f[Chosen(T)], h[T \ {Chosen(T)}])
        BY <2>1, <3>2
      <4> QED
        BY <3>2, <4>4, <4>5
    <3> QED
      BY <3>1, <3>2
  <2>3. Partial(n + 1, g)
    BY <2>2
  <2>4. n + 1 \in Nat /\ \E k : Partial(n + 1, k)
    <3> HIDE DEF Partial, g
    <3> QED
      BY <1>2, <2>3
  <2> QED
    BY <2>4
<1>3. Nat \subseteq N
  <2> HIDE DEF N
  <2> QED
    BY <1>1, <1>2, NatSetInduction
<1>4. Cardinality(S) \in N
  BY <1>0, <1>3
<1>5. Small(Cardinality(S)) = SUBSET S
  BY FS_Subset
<1>6. PICK h : Partial(Cardinality(S), h)
  BY <1>4
<1> QED
  BY <1>5, <1>6 DEF FoldsUp

LEMMA FoldsAgree ==
  ASSUME NEW f, NEW S, NEW T, NEW h, NEW k, FoldsUp(f, S, h), FoldsUp(f, T, k),
         NEW U, IsFiniteSet(U), U \subseteq S, U \subseteq T
  PROVE  h[U] = k[U]
<1> DEFINE N == {n \in Nat : \A V \in SUBSET U : Cardinality(V) = n => h[V] = k[V]}
<1>0. \A V \in SUBSET U : IsFiniteSet(V) /\ Cardinality(V) \in Nat
  BY FS_Subset, FS_CardinalityType
<1>1. 0 \in N
  <2>1. h[{}] = k[{}]
    BY DEF FoldsUp
  <2>2. \A V \in SUBSET U : Cardinality(V) = 0 => V = {}
    BY <1>0, FS_EmptySet
  <2> QED
    BY <2>1, <2>2
<1>2. ASSUME NEW n \in Nat, n \in N
      PROVE  n + 1 \in N
  <2> SUFFICES ASSUME NEW V \in SUBSET U, Cardinality(V) = n + 1
               PROVE  h[V] = k[V]
    OBVIOUS
  <2>1. V # {}
    <3>1. Cardinality({}) = 0 /\ n + 1 # 0
      BY FS_EmptySet
    <3> QED
      BY <3>1
  <2> DEFINE W == V \ {Chosen(V)}
  <2>2. Chosen(V) \in V
    BY <2>1 DEF Chosen
  <2>3. Cardinality(W) = Cardinality(V) - 1
    BY <1>0, <2>2, FS_RemoveElement
  <2>4. W \in SUBSET U /\ Cardinality(W) = n
    BY <1>2, <2>3
  <2>5. h[W] = k[W]
    BY <1>2, <2>4
  <2>6. h[V] = Plus(f[Chosen(V)], h[W]) /\ k[V] = Plus(f[Chosen(V)], k[W])
    BY <2>1 DEF FoldsUp
  <2> QED
    BY <2>5, <2>6
<1>3. Nat \subseteq N
  <2> HIDE DEF N
  <2> QED
    BY <1>1, <1>2, NatSetInduction
<1> QED
  BY <1>0, <1>3

LEMMA FractionEquations ==
  ASSUME NEW f, NEW S, IsFiniteSet(S)
  PROVE  /\ S = {} => FractionSum(f, S) = <<0, 1>>
         /\ S # {} => /\ Chosen(S) \in S
                      /\ FractionSum(f, S)
                           = Plus(f[Chosen(S)], FractionSum(f, S \ {Chosen(S)}))
<1>1. PICK h : FoldsUp(f, S, h) /\ FractionSum(f, S) = h[S]
  BY FoldExists, FoldIsChosen
<1>2. CASE S = {}
  BY <1>1, <1>2 DEF FoldsUp
<1>3. CASE S # {}
  <2>1. Chosen(S) \in S
    BY <1>3 DEF Chosen
  <2> DEFINE T == S \ {Chosen(S)}
  <2>2. IsFiniteSet(T)
    BY FS_Subset
  <2>3. PICK k : FoldsUp(f, T, k) /\ FractionSum(f, T) = k[T]
    BY <2>2, FoldExists, FoldIsChosen
  <2>4. h[T] = k[T]
    BY <1>1, <2>2, <2>3, FoldsAgree
  <2>5. h[S] = Plus(f[Chosen(S)], h[T])
    BY <1>1, <1>3 DEF FoldsUp
  <2> QED
    BY <1>1, <1>3, <2>1, <2>3, <2>4, <2>5
<1> QED
  BY <1>2, <1>3

(* The larger its terms, the larger the sum; any term may be taken out     *)
(* first; and one that is zero leaves the sum as it is.                    *)
LEMMA FractionSumGrows ==
  ASSUME NEW f, NEW g, NEW S, IsFiniteSet(S),
         \A x \in S : f[x] \in Fractions /\ g[x] \in Fractions /\ AtLeast(g[x], f[x])
  PROVE  /\ FractionSum(f, S) \in Fractions /\ FractionSum(g, S) \in Fractions
         /\ AtLeast(FractionSum(g, S), FractionSum(f, S))
<1> DEFINE Good(T) == /\ FractionSum(f, T) \in Fractions /\ FractionSum(g, T) \in Fractions
                      /\ AtLeast(FractionSum(g, T), FractionSum(f, T))
           N == {n \in Nat : \A T \in SUBSET S : Cardinality(T) = n => Good(T)}
<1>0. \A T \in SUBSET S : IsFiniteSet(T) /\ Cardinality(T) \in Nat
  BY FS_Subset, FS_CardinalityType
<1>1. 0 \in N
  <2>1. \A T \in SUBSET S : Cardinality(T) = 0 => T = {}
    BY <1>0, FS_EmptySet
  <2>2. FractionSum(f, {}) = <<0, 1>> /\ FractionSum(g, {}) = <<0, 1>>
    BY FS_EmptySet, FractionEquations
  <2>3. <<0, 1>> \in Fractions /\ AtLeast(<<0, 1>>, <<0, 1>>)
    BY DEF Fractions, AtLeast
  <2>4. Good({})
    BY <2>2, <2>3
  <2> QED
    BY <2>1, <2>4
<1>2. ASSUME NEW n \in Nat, n \in N
      PROVE  n + 1 \in N
  <2> SUFFICES ASSUME NEW T \in SUBSET S, Cardinality(T) = n + 1
               PROVE  Good(T)
    OBVIOUS
  <2>1. T # {}
    BY <1>2, FS_EmptySet
  <2> DEFINE c == Chosen(T)
             U == T \ {c}
  <2>2. /\ c \in T /\ FractionSum(f, T) = Plus(f[c], FractionSum(f, U))
        /\ FractionSum(g, T) = Plus(g[c], FractionSum(g, U))
    BY <1>0, <2>1, FractionEquations
  <2> HIDE DEF c
  <2>3. Cardinality(U) = Cardinality(T) - 1
    BY <1>0, <2>2, FS_RemoveElement
  <2>4. U \in SUBSET S /\ Cardinality(U) = n
    BY <1>2, <2>3
  <2>5. Good(U)
    BY <1>2, <2>4
  <2>6. f[c] \in Fractions /\ g[c] \in Fractions /\ AtLeast(g[c], f[c])
    BY <2>2
  <2>7. FractionSum(f, U) \in Fractions /\ FractionSum(g, U) \in Fractions
        /\ AtLeast(FractionSum(g, U), FractionSum(f, U))
    BY <2>5
  <2> HIDE DEF U
  <2>8. /\ Plus(f[c], FractionSum(f, U)) \in Fractions
        /\ Plus(g[c], FractionSum(g, U)) \in Fractions
    BY <2>6, <2>7, PlusIsFraction
  <2>9. AtLeast(Plus(g[c], FractionSum(g, U)), Plus(f[c], FractionSum(f, U)))
    BY <2>6, <2>7, PlusKeepsOrder
  <2> QED
    BY <2>2, <2>8, <2>9
<1>3. Nat \subseteq N
  <2> HIDE DEF N
  <2> QED
    BY <1>1, <1>2, NatSetInduction
<1> QED
  BY <1>0, <1>3

LEMMA FractionRemove ==
  ASSUME NEW f, NEW S, IsFiniteSet(S), \A x \in S : f[x] \in Fractions, NEW e \in S
  PROVE  FractionSum(f, S) = Plus(f[e], FractionSum(f, S \ {e}))
<1> DEFINE Splits(T) == \A x \in T : FractionSum(f, T) = Plus(f[x], FractionSum(f, T \ {x}))
           N == {n \in Nat : \A T \in SUBSET S : Cardinality(T) = n => Splits(T)}
<1>0. \A T \in SUBSET S : /\ IsFiniteSet(T) /\ Cardinality(T) \in Nat
                          /\ FractionSum(f, T) \in Fractions
  <2>1. \A a \in Fractions : AtLeast(a, a)
    BY DEF AtLeast, Fractions
  <2> QED
    BY <2>1, FS_Subset, FS_CardinalityType, FractionSumGrows
<1>1. 0 \in N
  BY <1>0, FS_EmptySet
<1>2. ASSUME NEW n \in Nat, n \in N
      PROVE  n + 1 \in N
  <2> SUFFICES ASSUME NEW T \in SUBSET S, Cardinality(T) = n + 1, NEW x \in T
               PROVE  FractionSum(f, T) = Plus(f[x], FractionSum(f, T \ {x}))
    OBVIOUS
  <2> DEFINE c == Chosen(T)
  <2>1. c \in T /\ FractionSum(f, T) = Plus(f[c], FractionSum(f, T \ {c}))
    BY <1>0, FractionEquations
  <2> HIDE DEF c
  <2>2. CASE x = c
    BY <2>1, <2>2
  <2>3. CASE x # c
    <3>1. Cardinality(T \ {c}) = Cardinality(T) - 1 /\ Cardinality(T \ {x}) = Cardinality(T) - 1
      BY <1>0, <2>1, FS_RemoveElement
    <3>2. /\ T \ {c} \in SUBSET S /\ Cardinality(T \ {c}) = n
          /\ T \ {x} \in SUBSET S /\ Cardinality(T \ {x}) = n
      BY <1>2, <3>1
    <3>3. Splits(T \ {c}) /\ Splits(T \ {x})
      BY <1>2, <3>2
    <3>4. /\ FractionSum(f, T \ {c}) = Plus(f[x], FractionSum(f, (T \ {c}) \ {x}))
          /\ FractionSum(f, T \ {x}) = Plus(f[c], FractionSum(f, (T \ {x}) \ {c}))
      BY <2>1, <2>3, <3>3
    <3>5. (T \ {c}) \ {x} = (T \ {x}) \ {c} /\ (T \ {x}) \ {c} \in SUBSET S
      OBVIOUS
    <3>6. /\ f[x] \in Fractions /\ f[c] \in Fractions
          /\ FractionSum(f, (T \ {x}) \ {c}) \in Fractions
      BY <1>0, <2>1, <3>5
    <3> DEFINE rest == FractionSum(f, (T \ {x}) \ {c})
    <3>7. Plus(f[c], Plus(f[x], rest)) = Plus(f[x], Plus(f[c], rest))
      BY <3>6, PlusExchanges
    <3>8. FractionSum(f, T \ {c}) = Plus(f[x], rest)
      BY <3>4, <3>5, Zenon
    <3>9. FractionSum(f, T \ {x}) = Plus(f[c], rest)
      BY <3>4
    <3> HIDE DEF rest
    <3> QED
      BY <2>1, <3>7, <3>8, <3>9
  <2> QED
    BY <2>2, <2>3
<1>3. Nat \subseteq N
  <2> HIDE DEF N
  <2> QED
    BY <1>1, <1>2, NatSetInduction
<1> QED
  BY <1>0, <1>3

LEMMA ZeroTerm ==
  ASSUME NEW f, NEW S, IsFiniteSet(S), \A x \in S : f[x] \in Fractions,
         NEW e, e \in S => f[e] = <<0, 1>>
  PROVE  FractionSum(f, S) = FractionSum(f, S \ {e})
<1>1. CASE e \in S
  <2>1. FractionSum(f, S) = Plus(<<0, 1>>, FractionSum(f, S \ {e}))
    BY <1>1, FractionRemove
  <2>2. FractionSum(f, S \ {e}) \in Fractions
    <3>1. \A a \in Fractions : AtLeast(a, a)
      BY DEF AtLeast, Fractions
    <3> QED
      BY <3>1, FS_Subset, FractionSumGrows
  <2> QED
    BY <2>1, <2>2, PlusZero
<1>2. CASE e \notin S
  <2>1. S \ {e} = S
    BY <1>2
  <2> QED
    BY <2>1
<1> QED
  BY <1>1, <1>2

(* The numbers behind the metrics.                                         *)

AllKinds == [expected : Labels \cup {Absent}, predicted : Labels \cup {Absent},
             passed : BOOLEAN, value : Nat \cup {Absent}]

CountIn(R, S) == Cardinality({i \in DOMAIN R : R[i] \in S})

Expecting(l) == {r \in AllKinds : r.expected = l}
TakenFor(l) == {r \in AllKinds : IsLabeled(r) /\ r.predicted = l}
RightFor(l) == {r \in AllKinds : IsCorrect(r) /\ r.expected = l}
Labeled == {r \in AllKinds : IsLabeled(r)}
Correct == {r \in AllKinds : IsCorrect(r)}
Passing == {r \in AllKinds : r.passed}

LEMMA CountType ==
  ASSUME NEW R \in Seq(AllKinds), NEW S
  PROVE  /\ IsFiniteSet({i \in DOMAIN R : R[i] \in S}) /\ CountIn(R, S) \in Nat
         /\ IsFiniteSet(DOMAIN R) /\ Cardinality(DOMAIN R) = Len(R) /\ Len(R) \in Nat
<1>1. DOMAIN R = 1 .. Len(R) /\ Len(R) \in Nat /\ 1 \in Int /\ Len(R) \in Int
  BY LenProperties
<1>2. IsFiniteSet(1 .. Len(R)) /\ Cardinality(1 .. Len(R)) = Len(R)
  BY <1>1, FS_Interval
<1>3. IsFiniteSet(DOMAIN R) /\ Cardinality(DOMAIN R) = Len(R)
  BY <1>1, <1>2
<1>4. {i \in DOMAIN R : R[i] \in S} \subseteq DOMAIN R
  OBVIOUS
<1> QED
  BY <1>1, <1>3, <1>4, FS_Subset, FS_CardinalityType DEF CountIn

LEMMA CountGrows ==
  ASSUME NEW R \in Seq(AllKinds), NEW S, NEW T, \A r \in AllKinds : r \in S => r \in T
  PROVE  CountIn(R, S) <= CountIn(R, T)
<1>1. {i \in DOMAIN R : R[i] \in S} \subseteq {i \in DOMAIN R : R[i] \in T}
  OBVIOUS
<1>2. IsFiniteSet({i \in DOMAIN R : R[i] \in T})
  BY CountType
<1> QED
  BY <1>1, <1>2, FS_Subset DEF CountIn

LEMMA CountAppend ==
  ASSUME NEW R \in Seq(AllKinds), NEW r \in AllKinds, NEW S
  PROVE  /\ r \in S => CountIn(Append(R, r), S) = CountIn(R, S) + 1
         /\ r \notin S => CountIn(Append(R, r), S) = CountIn(R, S)
<1> DEFINE Q == Append(R, r)
           n == Len(R) + 1
           was == {i \in DOMAIN R : R[i] \in S}
           is == {i \in DOMAIN Q : Q[i] \in S}
<1>1. /\ n \notin DOMAIN R /\ DOMAIN Q = DOMAIN R \cup {n} /\ Q[n] = r
      /\ \A i \in DOMAIN R : Q[i] = R[i]
  <2>1. Len(R) \in Nat /\ DOMAIN R = 1 .. Len(R)
    BY LenProperties
  <2>2. DOMAIN Q = 1 .. n
    BY AppendProperties
  <2>3. 1 .. n = 1 .. Len(R) \cup {n} /\ n \notin 1 .. Len(R)
    BY <2>1
  <2>4. Q[n] = r /\ \A i \in 1 .. Len(R) : Q[i] = R[i]
    BY AppendProperties
  <2> QED
    BY <2>1, <2>2, <2>3, <2>4
<1>2. IsFiniteSet(was) /\ Cardinality(was) \in Nat /\ n \notin was
  BY <1>1, CountType, FS_CardinalityType
<1> HIDE DEF Q, n
<1>3. (r \in S => is = was \cup {n}) /\ (r \notin S => is = was)
  BY <1>1
<1>4. CountIn(R, S) = Cardinality(was) /\ CountIn(Q, S) = Cardinality(is)
  BY DEF CountIn
<1> HIDE DEF was, is
<1>5. Cardinality(was \cup {n}) = Cardinality(was) + 1
  BY <1>2, FS_AddElement
<1>6. /\ r \in S => CountIn(Q, S) = CountIn(R, S) + 1
      /\ r \notin S => CountIn(Q, S) = CountIn(R, S)
  BY <1>3, <1>4, <1>5
<1> QED
  BY <1>6 DEF Q

LEMMA CountSwap ==
  ASSUME NEW R \in Seq(AllKinds), NEW i \in DOMAIN R, NEW Q, NEW S,
         DOMAIN Q = DOMAIN R, \A j \in DOMAIN R : j # i => Q[j] = R[j]
  PROVE  /\ Q[i] \in S /\ R[i] \notin S => CountIn(Q, S) = CountIn(R, S) + 1
         /\ Q[i] \notin S /\ R[i] \in S => CountIn(R, S) = CountIn(Q, S) + 1
         /\ (Q[i] \in S <=> R[i] \in S) => CountIn(Q, S) = CountIn(R, S)
         /\ CountIn(Q, S) \in Nat
<1> DEFINE rest == {j \in DOMAIN R \ {i} : R[j] \in S}
           was == {j \in DOMAIN R : R[j] \in S}
           is == {j \in DOMAIN Q : Q[j] \in S}
<1>1. IsFiniteSet(rest) /\ Cardinality(rest) \in Nat /\ i \notin rest
  BY CountType, FS_Subset, FS_CardinalityType
<1>2. was = IF R[i] \in S THEN rest \cup {i} ELSE rest
  OBVIOUS
<1>3. is = IF Q[i] \in S THEN rest \cup {i} ELSE rest
  OBVIOUS
<1>4. CountIn(R, S) = Cardinality(was) /\ CountIn(Q, S) = Cardinality(is)
  BY DEF CountIn
<1> HIDE DEF rest, was, is
<1>5. Cardinality(rest \cup {i}) = Cardinality(rest) + 1
  BY <1>1, FS_AddElement
<1> QED
  BY <1>1, <1>2, <1>3, <1>4, <1>5

LEMMA MetricsCount ==
  ASSUME NEW R \in Seq(AllKinds)
  PROVE  /\ \A l : /\ Support(R, l) = CountIn(R, Expecting(l))
                   /\ PredictedAs(R, l) = CountIn(R, TakenFor(l))
                   /\ CorrectAs(R, l) = CountIn(R, RightFor(l))
         /\ Accuracy(R) = Over(CountIn(R, Correct), CountIn(R, Labeled))
         /\ PassRate(R) = Over(CountIn(R, Passing), Len(R))
<1>1. \A i \in DOMAIN R : R[i] \in AllKinds
  OBVIOUS
<1>2. ASSUME NEW l
      PROVE  /\ Support(R, l) = CountIn(R, Expecting(l))
             /\ PredictedAs(R, l) = CountIn(R, TakenFor(l))
             /\ CorrectAs(R, l) = CountIn(R, RightFor(l))
  <2>1. {i \in DOMAIN R : R[i].expected = l} = {i \in DOMAIN R : R[i] \in Expecting(l)}
    BY <1>1 DEF Expecting
  <2>2. {i \in DOMAIN R : IsLabeled(R[i]) /\ R[i].predicted = l}
          = {i \in DOMAIN R : R[i] \in TakenFor(l)}
    BY <1>1 DEF TakenFor
  <2>3. {i \in DOMAIN R : IsCorrect(R[i]) /\ R[i].expected = l}
          = {i \in DOMAIN R : R[i] \in RightFor(l)}
    BY <1>1 DEF RightFor
  <2> QED
    BY <2>1, <2>2, <2>3 DEF Support, PredictedAs, CorrectAs, Number, CountIn
<1>3. Accuracy(R) = Over(CountIn(R, Correct), CountIn(R, Labeled))
  <2>1. {i \in DOMAIN R : IsCorrect(R[i])} = {i \in DOMAIN R : R[i] \in Correct}
    BY <1>1 DEF Correct
  <2>2. {i \in DOMAIN R : IsLabeled(R[i])} = {i \in DOMAIN R : R[i] \in Labeled}
    BY <1>1 DEF Labeled
  <2>3. Accuracy(R) = Over(Cardinality({i \in DOMAIN R : IsCorrect(R[i])}),
                           Cardinality({i \in DOMAIN R : IsLabeled(R[i])}))
    BY DEF Accuracy, Number
  <2> QED
    BY <2>1, <2>2, <2>3 DEF CountIn
<1>4. PassRate(R) = Over(CountIn(R, Passing), Len(R))
  <2>1. {i \in DOMAIN R : R[i].passed} = {i \in DOMAIN R : R[i] \in Passing}
    BY <1>1 DEF Passing
  <2> QED
    BY <2>1 DEF PassRate, Number, CountIn
<1> QED
  BY <1>2, <1>3, <1>4

(* F1 as one fraction of the three counts of a class.                      *)
Harmonic(c, p, s) == IF c = 0 THEN <<0, 1>> ELSE <<2 * c * c, c * s + c * p>>

LEMMA F1IsHarmonic ==
  ASSUME NEW R \in Seq(AllKinds), NEW l
  PROVE  /\ F1(R, l) = Harmonic(CorrectAs(R, l), PredictedAs(R, l), Support(R, l))
         /\ F1(R, l) \in Fractions
         /\ CorrectAs(R, l) \in Nat /\ PredictedAs(R, l) \in Nat /\ Support(R, l) \in Nat
         /\ CorrectAs(R, l) <= PredictedAs(R, l) /\ CorrectAs(R, l) <= Support(R, l)
<1> DEFINE c == CorrectAs(R, l)
           p == PredictedAs(R, l)
           s == Support(R, l)
<1>1. c \in Nat /\ p \in Nat /\ s \in Nat /\ c <= p /\ c <= s
  <2>1. \A r \in AllKinds : r \in RightFor(l) => r \in TakenFor(l) /\ r \in Expecting(l)
    BY DEF RightFor, TakenFor, Expecting, IsCorrect
  <2>2. CountIn(R, RightFor(l)) <= CountIn(R, TakenFor(l))
    BY <2>1, CountGrows
  <2>3. CountIn(R, RightFor(l)) <= CountIn(R, Expecting(l))
    BY <2>1, CountGrows
  <2>4. c = CountIn(R, RightFor(l)) /\ p = CountIn(R, TakenFor(l)) /\ s = CountIn(R, Expecting(l))
    BY MetricsCount
  <2> HIDE DEF c, p, s
  <2>5. c \in Nat /\ p \in Nat /\ s \in Nat
    BY <2>4, CountType
  <2> QED
    BY <2>2, <2>3, <2>4, <2>5
<1>2. F1(R, l) = Over(2 * Over(c, p)[1] * Over(c, s)[1],
                      Over(c, p)[1] * Over(c, s)[2] + Over(c, s)[1] * Over(c, p)[2])
  BY DEF F1, Precision, Recall
<1> HIDE DEF c, p, s
<1>3. CASE c = 0
  <2>1. Over(c, p)[1] = 0 /\ Over(c, s)[1] = 0
    BY <1>1, <1>3, OverIsFraction
  <2>2. Over(c, p)[2] \in Nat /\ Over(c, s)[2] \in Nat
    BY <1>1, OverIsFraction, FractionParts
  <2>3. 2 * 0 * 0 = 0 /\ \A m, n \in Nat : 0 * m + 0 * n = 0
    OBVIOUS
  <2>4. F1(R, l) = Over(0, 0)
    BY <1>2, <2>1, <2>2, <2>3
  <2>5. F1(R, l) = <<0, 1>>
    BY <2>4 DEF Over
  <2> QED
    BY <1>1, <1>3, <2>5 DEF Harmonic, Fractions, c, p, s
<1>4. CASE c # 0
  <2>1. p # 0 /\ s # 0
    BY <1>1, <1>4
  <2>2. /\ Over(c, p)[1] = c /\ Over(c, p)[2] = p /\ Over(c, s)[1] = c /\ Over(c, s)[2] = s
    BY <1>1, <2>1, OverIsFraction
  <2>3. F1(R, l) = Over(2 * c * c, c * s + c * p)
    BY <1>2, <2>2
  <2>4. /\ c * s \in Nat \ {0} /\ c * p \in Nat \ {0} /\ 2 * c \in Nat /\ 2 * c * c \in Nat
    BY <1>1, <1>4, <2>1, Products
  <2>5. c * s + c * p \in Nat \ {0}
    BY <2>4
  <2>6. F1(R, l) = <<2 * c * c, c * s + c * p>>
    BY <2>3, <2>5 DEF Over
  <2> QED
    BY <1>1, <1>4, <2>4, <2>5, <2>6 DEF Harmonic, Fractions, c, p, s
<1> QED
  BY <1>3, <1>4

(* A right answer more, or a wrong one less, lowers no F1; a case missed   *)
(* raises none.                                                            *)
LEMMA HarmonicGrows ==
  ASSUME NEW c \in Nat, NEW p \in Nat, NEW s \in Nat,
         NEW d \in Nat, NEW q \in Nat, NEW t \in Nat, c <= p, c <= s, d <= q, d <= t,
         \/ d = c /\ q <= p /\ t <= s
         \/ d = c + 1 /\ q = p + 1 /\ t = s
  PROVE  AtLeast(Harmonic(d, q, t), Harmonic(c, p, s))
<1>1. CASE c = 0
  <2>1. Harmonic(c, p, s)[1] = 0
    BY <1>1 DEF Harmonic
  <2>2. Harmonic(d, q, t)[1] \in Nat
    <3>1. CASE d = 0
      BY <3>1 DEF Harmonic
    <3>2. CASE d # 0
      <4>1. 2 * d * d \in Nat
        BY Products
      <4> QED
        BY <3>2, <4>1 DEF Harmonic
    <3> QED
      BY <3>1, <3>2
  <2>3. Harmonic(d, q, t)[2] \in Nat /\ Harmonic(c, p, s)[2] = 1
    <3>1. CASE d = 0
      BY <1>1, <3>1 DEF Harmonic
    <3>2. CASE d # 0
      <4>1. d * t \in Nat /\ d * q \in Nat
        BY Products
      <4>2. d * t + d * q \in Nat
        BY <4>1
      <4> QED
        BY <1>1, <3>2, <4>2 DEF Harmonic
    <3> QED
      BY <3>1, <3>2
  <2> QED
    BY <2>1, <2>2, <2>3 DEF AtLeast
<1>2. CASE c # 0
  <2>1. d # 0
    BY <1>2
  <2>2. d * (s + p) >= c * (t + q)
    <3>1. CASE d = c /\ q <= p /\ t <= s
      <4>1. s + p >= t + q /\ s + p \in Nat /\ t + q \in Nat
        BY <3>1
      <4>2. (s + p) * c >= (t + q) * c
        BY <4>1, Products
      <4>3. (s + p) * c = d * (s + p) /\ (t + q) * c = c * (t + q)
        BY <3>1
      <4> QED
        BY <4>2, <4>3
    <3>2. CASE d = c + 1 /\ q = p + 1 /\ t = s
      <4>1. d * (s + p) = c * (s + p) + (s + p) /\ c * (t + q) = c * (s + p) + c
        BY <3>2
      <4>2. c * (s + p) \in Nat /\ s + p >= c
        BY Products
      <4> QED
        BY <4>1, <4>2
    <3> QED
      BY <3>1, <3>2
  <2>3. /\ d * (s + p) \in Nat /\ c * (t + q) \in Nat /\ 2 * d * c \in Nat
    BY Products
  <2>4. (d * (s + p)) * (2 * d * c) >= (c * (t + q)) * (2 * d * c)
    BY <2>2, <2>3, Products
  <2>5. /\ (d * (s + p)) * (2 * d * c) = 2 * d * d * (c * s + c * p)
        /\ (c * (t + q)) * (2 * d * c) = 2 * c * c * (d * t + d * q)
    OBVIOUS
  <2>6. /\ Harmonic(d, q, t) = <<2 * d * d, d * t + d * q>>
        /\ Harmonic(c, p, s) = <<2 * c * c, c * s + c * p>>
    BY <1>2, <2>1 DEF Harmonic
  <2> QED
    BY <2>4, <2>5, <2>6 DEF AtLeast
<1> QED
  BY <1>1, <1>2

LEMMA ClassesAre ==
  ASSUME NEW R \in Seq(AllKinds)
  PROVE  /\ Classes(R) = {l \in Labels : \E i \in DOMAIN R : R[i].expected = l}
         /\ IsFiniteSet(Classes(R)) /\ Cardinality(Classes(R)) \in Nat
         /\ \A l \in Classes(R) : F1(R, l) \in Fractions
<1>1. ASSUME NEW l
      PROVE  Support(R, l) > 0 <=> \E i \in DOMAIN R : R[i].expected = l
  <2> DEFINE places == {i \in DOMAIN R : R[i] \in Expecting(l)}
  <2>1. /\ Support(R, l) = Cardinality(places) /\ IsFiniteSet(places)
        /\ Cardinality(places) \in Nat
    BY CountType, MetricsCount DEF CountIn
  <2>2. places = {} <=> ~\E i \in DOMAIN R : R[i].expected = l
    BY DEF Expecting
  <2> HIDE DEF places
  <2>3. Cardinality(places) = 0 <=> places = {}
    BY <2>1, FS_EmptySet
  <2> QED
    BY <2>1, <2>2, <2>3
<1>2. Classes(R) = {l \in Labels : \E i \in DOMAIN R : R[i].expected = l}
  BY <1>1 DEF Classes
<1>3. IsFiniteSet(Classes(R)) /\ Cardinality(Classes(R)) \in Nat
  <2> DEFINE p == [i \in DOMAIN R |-> R[i].expected]
  <2>1. IsFiniteSet({p[i] : i \in DOMAIN R})
    <3> HIDE DEF p
    <3> QED
      BY CountType, FiniteImage
  <2>2. Classes(R) \subseteq {p[i] : i \in DOMAIN R}
    BY <1>2
  <2> QED
    BY <2>1, <2>2, FS_Subset, FS_CardinalityType
<1> QED
  BY <1>2, <1>3, F1IsHarmonic

LEMMA MacroIsMean ==
  ASSUME NEW R \in Seq(AllKinds)
  PROVE  LET f == [l \in Classes(R) |-> F1(R, l)]
             sum == FractionSum(f, Classes(R))
         IN /\ MacroF1(R) = Over(sum[1], sum[2] * Cardinality(Classes(R)))
            /\ sum \in Fractions
            /\ MacroF1(R) \in Fractions
            /\ Classes(R) = {} => MacroF1(R) = <<0, 1>>
<1> DEFINE f == [l \in Classes(R) |-> F1(R, l)]
           sum == FractionSum(f, Classes(R))
           n == Cardinality(Classes(R))
<1>1. MacroF1(R) = Over(sum[1], sum[2] * n)
  BY DEF MacroF1, FoldFunction, FractionSum
<1>2. sum \in Fractions /\ n \in Nat
  <2>1. \A l \in Classes(R) : f[l] \in Fractions /\ AtLeast(f[l], f[l])
    <3>1. \A a \in Fractions : AtLeast(a, a)
      BY DEF AtLeast, Fractions
    <3> QED
      BY <3>1, ClassesAre
  <2> HIDE DEF f
  <2> QED
    BY <2>1, ClassesAre, FractionSumGrows
<1>3. Classes(R) = {} => n = 0
  BY FS_EmptySet
<1> HIDE DEF sum, n
<1>4. sum[1] \in Nat /\ sum[2] * n \in Nat
  BY <1>2, FractionParts, Products
<1>5. MacroF1(R) \in Fractions
  BY <1>1, <1>4, OverIsFraction
<1>6. Classes(R) = {} => MacroF1(R) = <<0, 1>>
  <2>1. \A m \in Nat : m * 0 = 0
    OBVIOUS
  <2>2. n = 0 => sum[2] * n = 0
    BY <1>2, <2>1, FractionParts
  <2> QED
    BY <1>1, <1>3, <2>2 DEF Over
<1> QED
  BY <1>1, <1>2, <1>5, <1>6 DEF sum, n

(* Macro-F1 is no higher where no class has a higher F1, be it that one    *)
(* class more counts with none.                                            *)
LEMMA MacroCompares ==
  ASSUME NEW R \in Seq(AllKinds), NEW Q \in Seq(AllKinds), NEW e, e \notin Classes(R),
         \/ Classes(Q) = Classes(R)
         \/ Classes(Q) = Classes(R) \cup {e} /\ F1(Q, e) = <<0, 1>>,
         \A l \in Classes(R) : AtLeast(F1(R, l), F1(Q, l))
  PROVE  AtLeast(MacroF1(R), MacroF1(Q))
<1> DEFINE C == Classes(R)
           D == Classes(Q)
           f == [l \in C |-> F1(R, l)]
           g == [l \in D |-> F1(Q, l)]
           a == FractionSum(f, C)
           b == FractionSum(g, D)
           n == Cardinality(C)
           m == Cardinality(D)
<1>1. /\ IsFiniteSet(C) /\ IsFiniteSet(D) /\ n \in Nat /\ m \in Nat
      /\ \A l \in C : f[l] \in Fractions
      /\ \A l \in D : g[l] \in Fractions
  BY ClassesAre
<1>2. D \ {e} = C /\ (e \in D => g[e] = <<0, 1>>)
  OBVIOUS
<1>3. b = FractionSum(g, C)
  <2> HIDE DEF C, D, g
  <2>1. b = FractionSum(g, D \ {e})
    BY <1>1, <1>2, ZeroTerm
  <2> QED
    BY <1>2, <2>1
<1>4. \A l \in C : /\ f[l] \in Fractions /\ g[l] \in Fractions /\ AtLeast(f[l], g[l])
  BY <1>1
<1>5. a \in Fractions /\ b \in Fractions /\ AtLeast(a, b)
  <2> HIDE DEF C, D, f, g
  <2>1. FractionSum(g, C) \in Fractions /\ AtLeast(a, FractionSum(g, C)) /\ a \in Fractions
    BY <1>1, <1>4, FractionSumGrows
  <2> QED
    BY <1>3, <2>1
<1>6. n <= m
  <2>1. C \subseteq D
    OBVIOUS
  <2> HIDE DEF C, D
  <2> QED
    BY <1>1, <2>1, FS_Subset
<1>7. /\ MacroF1(R) = Over(a[1], a[2] * n) /\ MacroF1(Q) = Over(b[1], b[2] * m)
  BY MacroIsMean
<1>8. n = 0 => a = <<0, 1>>
  <2> HIDE DEF C, f
  <2> QED
    BY <1>1, FS_EmptySet, FractionEquations
<1> HIDE DEF a, b, n, m
<1>9. /\ a[1] \in Nat /\ a[2] \in Nat \ {0} /\ b[1] \in Nat /\ b[2] \in Nat \ {0}
      /\ a[1] * b[2] >= b[1] * a[2]
  BY <1>5, FractionParts DEF AtLeast
<1>10. CASE n = 0
  <2>1. a[1] = 0 /\ a[2] = 1
    BY <1>8, <1>10
  <2>2. 0 * b[2] = 0 /\ b[1] * 1 = b[1]
    BY <1>9
  <2>3. b[1] = 0
    BY <1>9, <2>1, <2>2
  <2>4. b[2] * m \in Nat /\ a[2] * n \in Nat
    BY <1>1, <1>9, Products
  <2>5. Over(b[1], b[2] * m)[1] = 0 /\ Over(a[1], a[2] * n) \in Fractions
    BY <1>9, <2>3, <2>4, OverIsFraction
  <2>6. MacroF1(Q)[1] = 0 /\ MacroF1(R)[1] \in Nat /\ MacroF1(R)[2] \in Nat
    BY <1>7, <2>5, FractionParts
  <2>7. MacroF1(Q)[2] \in Nat
    BY MacroIsMean, FractionParts
  <2>8. MacroF1(R)[1] * MacroF1(Q)[2] \in Nat /\ 0 * MacroF1(R)[2] = 0
    BY <2>6, <2>7, Products
  <2> QED
    BY <2>6, <2>8 DEF AtLeast
<1>11. CASE n # 0
  <2>1. m # 0
    BY <1>1, <1>6, <1>11
  <2>2. a[2] * n \in Nat \ {0} /\ b[2] * m \in Nat \ {0}
    BY <1>1, <1>9, <1>11, <2>1, Products
  <2>3. /\ MacroF1(R)[1] = a[1] /\ MacroF1(R)[2] = a[2] * n
        /\ MacroF1(Q)[1] = b[1] /\ MacroF1(Q)[2] = b[2] * m
    <3> DEFINE v == a[2] * n
               w == b[2] * m
    <3>1. v \in Nat \ {0} /\ w \in Nat \ {0}
      BY <2>2
    <3>2. MacroF1(R) = Over(a[1], v) /\ MacroF1(Q) = Over(b[1], w)
      BY <1>7
    <3> HIDE DEF v, w
    <3>3. Over(a[1], v)[1] = a[1] /\ Over(a[1], v)[2] = v
      BY <1>9, <3>1, OverIsFraction
    <3>4. Over(b[1], w)[1] = b[1] /\ Over(b[1], w)[2] = w
      BY <1>9, <3>1, OverIsFraction
    <3> QED
      BY <3>2, <3>3, <3>4 DEF v, w
  <2>4. a[1] * (b[2] * m) >= b[1] * (a[2] * n)
    <3>1. a[1] * b[2] \in Nat /\ b[1] * a[2] \in Nat
      BY <1>9, Products
    <3>2. (a[1] * b[2]) * m >= (b[1] * a[2]) * m
      BY <1>1, <1>9, <3>1, Products
    <3>3. m * (b[1] * a[2]) >= n * (b[1] * a[2])
      <4> DEFINE k == b[1] * a[2]
      <4>1. m >= n /\ k \in Nat
        BY <1>1, <1>6, <3>1
      <4> HIDE DEF k
      <4>2. m * k >= n * k
        BY <1>1, <4>1, Products
      <4> QED
        BY <4>2 DEF k
    <3>4. \A p, q, r \in Nat : p * (q * r) = (p * q) * r /\ r * (p * q) = (p * q) * r
      OBVIOUS
    <3>5. /\ a[1] * (b[2] * m) = (a[1] * b[2]) * m /\ b[1] * (a[2] * n) = (b[1] * a[2]) * n
          /\ m * (b[1] * a[2]) = (b[1] * a[2]) * m /\ n * (b[1] * a[2]) = (b[1] * a[2]) * n
      <4>1. a[1] * (b[2] * m) = (a[1] * b[2]) * m
        BY <1>1, <1>9, <3>4
      <4>2. b[1] * (a[2] * n) = (b[1] * a[2]) * n
        BY <1>1, <1>9, <3>4
      <4>3. \A p, q \in Nat : p * q = q * p
        OBVIOUS
      <4>4. m * (b[1] * a[2]) = (b[1] * a[2]) * m
        BY <1>1, <3>1, <4>3
      <4>5. n * (b[1] * a[2]) = (b[1] * a[2]) * n
        BY <1>1, <3>1, <4>3
      <4> QED
        BY <4>1, <4>2, <4>4, <4>5
    <3>6. /\ (a[1] * b[2]) * m \in Nat /\ (b[1] * a[2]) * m \in Nat /\ (b[1] * a[2]) * n \in Nat
      BY <1>1, <3>1, Products
    <3> QED
      BY <3>2, <3>3, <3>5, <3>6
  <2> QED
    BY <2>3, <2>4 DEF AtLeast
<1> QED
  BY <1>10, <1>11

LEMMA KindFields ==
  ASSUME NEW r \in AllKinds
  PROVE  /\ r.expected \in Labels \cup {Absent} /\ r.predicted \in Labels \cup {Absent}
         /\ IsLabeled(r) <=> r.expected \in Labels
<1>1. r.expected \in Labels \cup {Absent} /\ r.predicted \in Labels \cup {Absent}
  BY DEF AllKinds
<1> QED
  BY <1>1, CaseKindsAssumption DEF IsLabeled

LEMMA AccuracyMeasures ==
  ASSUME NEW R \in Seq(AllKinds)
  PROVE  /\ CountIn(R, Correct) \in Nat /\ CountIn(R, Labeled) \in Nat
         /\ CountIn(R, Correct) <= CountIn(R, Labeled)
         /\ CountIn(R, Labeled) = 0 <=> Classes(R) = {}
         /\ \A i \in DOMAIN R : IsLabeled(R[i]) => R[i].expected \in Classes(R)
<1>1. CountIn(R, Correct) <= CountIn(R, Labeled)
  <2>1. \A r \in AllKinds : r \in Correct => r \in Labeled
    BY DEF Correct, Labeled, IsCorrect
  <2> QED
    BY <2>1, CountGrows
<1>2. Classes(R) = {l \in Labels : \E i \in DOMAIN R : R[i].expected = l}
  BY ClassesAre
<1>3. \A i \in DOMAIN R : R[i] \in Labeled <=> R[i].expected \in Labels
  <2>1. \A i \in DOMAIN R : R[i] \in AllKinds
    OBVIOUS
  <2> QED
    BY <2>1, KindFields DEF Labeled
<1>4. \A i \in DOMAIN R : IsLabeled(R[i]) => R[i].expected \in Classes(R)
  BY <1>2, <1>3 DEF Labeled
<1> DEFINE places == {i \in DOMAIN R : R[i] \in Labeled}
<1>5. CountIn(R, Labeled) = 0 <=> places = {}
  BY CountType, FS_EmptySet DEF CountIn
<1>6. places = {} <=> Classes(R) = {}
  BY <1>2, <1>3
<1> QED
  BY <1>1, <1>4, <1>5, <1>6, CountType

(* If a wrong answer had been right.                                       *)
LEMMA FixingHelpsThen ==
  ASSUME NEW R \in Seq(AllKinds), NEW i \in DOMAIN R, IsLabeled(R[i]), ~IsCorrect(R[i])
  PROVE  LET fixed == [R EXCEPT ![i].predicted = R[i].expected]
         IN /\ ~AtLeast(Accuracy(R), Accuracy(fixed))
            /\ AtLeast(MacroF1(fixed), MacroF1(R))
<1> DEFINE x == R[i].expected
           Q == [R EXCEPT ![i].predicted = x]
<1>1. /\ R[i] \in AllKinds /\ x \in Labels /\ R[i].predicted # x /\ x # Absent
      /\ R[i].predicted \in Labels \cup {Absent}
  <2>1. R[i] \in AllKinds
    OBVIOUS
  <2>2. x \in Labels /\ R[i].predicted \in Labels \cup {Absent}
    BY <2>1, KindFields
  <2> QED
    BY <2>1, <2>2 DEF IsLabeled, IsCorrect
<1>2. /\ DOMAIN Q = DOMAIN R /\ \A j \in DOMAIN R : j # i => Q[j] = R[j]
      /\ Q[i] = [R[i] EXCEPT !.predicted = x]
  OBVIOUS
<1>3. Q[i] \in AllKinds /\ Q[i].expected = x /\ Q[i].predicted = x
  BY <1>1, <1>2 DEF AllKinds
<1>4. Q \in Seq(AllKinds)
  <2>1. Len(R) \in Nat /\ DOMAIN R = 1 .. Len(R)
    BY LenProperties
  <2>2. \A j \in 1 .. Len(R) : R[j] \in AllKinds
    BY ElementOfSeq
  <2>3. \A j \in 1 .. Len(R) : Q[j] \in AllKinds
    BY <1>2, <1>3, <2>1, <2>2
  <2>4. Q = [j \in 1 .. Len(R) |-> Q[j]]
    BY <1>2, <2>1
  <2> HIDE DEF Q
  <2> QED
    BY <2>1, <2>3, <2>4
<1> HIDE DEF Q, x
<1>5. ASSUME NEW l \in Labels
      PROVE  /\ Q[i] \in Expecting(l) <=> R[i] \in Expecting(l)
             /\ Q[i] \in TakenFor(l) <=> l = x
             /\ R[i] \in TakenFor(l) <=> l = R[i].predicted
             /\ Q[i] \in RightFor(l) <=> l = x
             /\ R[i] \notin RightFor(l)
  BY <1>1, <1>3 DEF Expecting, TakenFor, RightFor, IsLabeled, IsCorrect, x
<1>6. ASSUME NEW l \in Labels
      PROVE  AtLeast(F1(Q, l), F1(R, l))
  <2> DEFINE c == CorrectAs(R, l)
             p == PredictedAs(R, l)
             s == Support(R, l)
             d == CorrectAs(Q, l)
             q == PredictedAs(Q, l)
             t == Support(Q, l)
  <2>1. t = s
    <3>1. CountIn(Q, Expecting(l)) = CountIn(R, Expecting(l))
      <4>1. Q[i] \in Expecting(l) <=> R[i] \in Expecting(l)
        BY <1>5
      <4> QED
        BY <1>2, <4>1, CountSwap
    <3> QED
      BY <1>4, <3>1, MetricsCount
  <2>2. /\ l = x => q = p + 1 /\ d = c + 1
        /\ l # x => q <= p /\ d = c
    <3>1. l = x => q = p + 1 /\ d = c + 1
      <4>1. l = x => CountIn(Q, TakenFor(l)) = CountIn(R, TakenFor(l)) + 1
        <5>1. l = x => Q[i] \in TakenFor(l) /\ R[i] \notin TakenFor(l)
          BY <1>1, <1>5
        <5> QED
          BY <1>2, <5>1, CountSwap
      <4>2. l = x => CountIn(Q, RightFor(l)) = CountIn(R, RightFor(l)) + 1
        <5>1. l = x => Q[i] \in RightFor(l) /\ R[i] \notin RightFor(l)
          BY <1>5
        <5> QED
          BY <1>2, <5>1, CountSwap
      <4>3. /\ q = CountIn(Q, TakenFor(l)) /\ d = CountIn(Q, RightFor(l))
            /\ p = CountIn(R, TakenFor(l)) /\ c = CountIn(R, RightFor(l))
        BY <1>4, MetricsCount
      <4> QED
        BY <4>1, <4>2, <4>3, Zenon
    <3>2. l # x => q <= p /\ d = c
      <4>1. l # x => CountIn(Q, RightFor(l)) = CountIn(R, RightFor(l))
        BY <1>2, <1>5, CountSwap
      <4>2. l # x => \/ CountIn(Q, TakenFor(l)) = CountIn(R, TakenFor(l))
                     \/ CountIn(R, TakenFor(l)) = CountIn(Q, TakenFor(l)) + 1
        <5>1. CASE R[i] \in TakenFor(l)
          BY <1>2, <1>5, <5>1, CountSwap
        <5>2. CASE R[i] \notin TakenFor(l)
          BY <1>2, <1>5, <5>2, CountSwap
        <5> QED
          BY <5>1, <5>2
      <4>3. CountIn(Q, TakenFor(l)) \in Nat /\ CountIn(R, TakenFor(l)) \in Nat
        BY <1>4, CountType
      <4>4. l # x => CountIn(Q, TakenFor(l)) <= CountIn(R, TakenFor(l))
        BY <4>2, <4>3
      <4> QED
        BY <1>4, <4>1, <4>4, MetricsCount
    <3> QED
      BY <3>1, <3>2
  <2>3. /\ c \in Nat /\ p \in Nat /\ s \in Nat /\ c <= p /\ c <= s
        /\ d \in Nat /\ q \in Nat /\ t \in Nat /\ d <= q /\ d <= t
        /\ F1(R, l) = Harmonic(c, p, s) /\ F1(Q, l) = Harmonic(d, q, t)
    BY <1>4, F1IsHarmonic
  <2> HIDE DEF c, p, s, d, q, t
  <2>4. t <= s
    BY <2>1, <2>3
  <2>5. CASE l = x
    <3>1. d = c + 1 /\ q = p + 1 /\ t = s
      BY <2>1, <2>2, <2>5
    <3>2. AtLeast(Harmonic(d, q, t), Harmonic(c, p, s))
      BY <2>3, <3>1, HarmonicGrows
    <3> QED
      BY <2>3, <3>2
  <2>6. CASE l # x
    <3>1. d = c /\ q <= p /\ t <= s
      BY <2>2, <2>4, <2>6
    <3>2. AtLeast(Harmonic(d, q, t), Harmonic(c, p, s))
      BY <2>3, <3>1, HarmonicGrows
    <3> QED
      BY <2>3, <3>2
  <2> QED
    BY <2>5, <2>6
<1>7. Classes(Q) = Classes(R) /\ Absent \notin Classes(Q) /\ Classes(Q) \subseteq Labels
  <2>1. \A j \in DOMAIN R : Q[j].expected = R[j].expected
    BY <1>2, <1>3 DEF x
  <2>2. /\ Classes(R) = {l \in Labels : \E j \in DOMAIN R : R[j].expected = l}
        /\ Classes(Q) = {l \in Labels : \E j \in DOMAIN Q : Q[j].expected = l}
    BY <1>4, ClassesAre
  <2> QED
    BY <1>2, <2>1, <2>2, CaseKindsAssumption
<1>8. AtLeast(MacroF1(Q), MacroF1(R))
  BY <1>4, <1>6, <1>7, MacroCompares
<1> DEFINE c == CountIn(R, Correct)
           n == CountIn(R, Labeled)
<1>9. CountIn(Q, Correct) = c + 1 /\ CountIn(Q, Labeled) = n
  <2>1. Q[i] \in Correct /\ R[i] \notin Correct /\ Q[i] \in Labeled /\ R[i] \in Labeled
    BY <1>1, <1>3 DEF Correct, Labeled, IsCorrect, IsLabeled
  <2> QED
    BY <1>2, <2>1, CountSwap
<1>10. c \in Nat /\ n \in Nat /\ c + 1 <= n
  BY <1>4, <1>9, AccuracyMeasures
<1>11. Accuracy(R) = Over(c, n) /\ Accuracy(Q) = Over(c + 1, n)
  BY <1>4, <1>9, MetricsCount
<1>12. ~AtLeast(Accuracy(R), Accuracy(Q))
  <2> HIDE DEF c, n
  <2>1. /\ Over(c, n)[1] = c /\ Over(c, n)[2] = n
        /\ Over(c + 1, n)[1] = c + 1 /\ Over(c + 1, n)[2] = n
    BY <1>10, OverIsFraction
  <2>2. (c + 1) * n = c * n + n /\ c * n \in Nat /\ n > 0
    BY <1>10, Products
  <2>3. ~(c * n >= (c + 1) * n)
    BY <1>10, <2>2
  <2> QED
    BY <1>11, <2>1, <2>3 DEF AtLeast
<1>13. Q = [R EXCEPT ![i].predicted = R[i].expected]
  BY DEF Q, x
<1> QED
  BY <1>8, <1>12, <1>13

SuiteSpec == SuiteInit /\ [][SuiteNext]_results

SuiteTypeOK == results \in Seq(CaseKinds)

LEMMA SuiteStarts == SuiteInit => SuiteTypeOK
BY DEF SuiteInit, SuiteTypeOK

LEMMA SuiteSteps == SuiteTypeOK /\ [SuiteNext]_results => SuiteTypeOK'
BY DEF SuiteTypeOK, SuiteNext, Collect

LEMMA TypeGivesFixing == SuiteTypeOK => FixingHelps
<1> SUFFICES ASSUME SuiteTypeOK
             PROVE  FixingHelps
  OBVIOUS
<1>1. results \in Seq(AllKinds)
  <2>1. CaseKinds \subseteq AllKinds
    BY CaseKindsAssumption DEF AllKinds
  <2> QED
    BY <2>1 DEF SuiteTypeOK
<1> QED
  BY <1>1, FixingHelpsThen DEF FixingHelps

(* Answering a case right that was wrong improves the metrics              *)
(* (FixingHelps).                                                          *)
THEOREM RightAnswersHelp == SuiteSpec => []FixingHelps
<1> QED
  BY SuiteStarts, SuiteSteps, TypeGivesFixing, PTL DEF SuiteSpec

(* A rate with one more to divide by.                                      *)
LEMMA RateSinks ==
  ASSUME NEW p \in Nat, NEW n \in Nat, p <= n
  PROVE  /\ AtLeast(Over(p, n), Over(p, n + 1))
         /\ Over(p, n)[1] > 0 => ~AtLeast(Over(p, n + 1), Over(p, n))
<1>1. /\ Over(p, n + 1)[1] = p /\ Over(p, n + 1)[2] = n + 1
  BY OverIsFraction
<1>2. CASE n = 0
  <2>1. Over(p, n)[1] = 0 /\ Over(p, n)[2] = 1 /\ p = 0
    BY <1>2, OverIsFraction
  <2> QED
    BY <1>1, <1>2, <2>1 DEF AtLeast
<1>3. CASE n # 0
  <2>1. Over(p, n)[1] = p /\ Over(p, n)[2] = n
    BY <1>3, OverIsFraction
  <2>2. p * (n + 1) = p * n + p /\ p * n \in Nat
    BY Products
  <2>3. p * (n + 1) >= p * n /\ (p > 0 => ~(p * n >= p * (n + 1)))
    BY <2>2
  <2> QED
    BY <1>1, <2>1, <2>3 DEF AtLeast
<1> QED
  BY <1>2, <1>3

LEMMA SuiteGrows ==
  ASSUME NEW R \in Seq(AllKinds), NEW r \in AllKinds
  PROVE  /\ Append(R, r) \in Seq(AllKinds) /\ Append(R, r) # <<>> /\ Last(Append(R, r)) = r
         /\ Len(Append(R, r)) = Len(R) + 1 /\ Len(R) \in Nat
         /\ DOMAIN R = 1 .. Len(R) /\ DOMAIN Append(R, r) = 1 .. Len(R) + 1
         /\ Append(R, r)[Len(R) + 1] = r
         /\ \A i \in 1 .. Len(R) : Append(R, r)[i] = R[i]
<1>1. /\ Append(R, r) \in Seq(AllKinds) /\ Len(Append(R, r)) = Len(R) + 1
      /\ Append(R, r)[Len(R) + 1] = r
      /\ \A i \in 1 .. Len(R) : Append(R, r)[i] = R[i]
  BY AppendProperties
<1>2. /\ Len(R) \in Nat /\ DOMAIN R = 1 .. Len(R)
      /\ DOMAIN Append(R, r) = 1 .. Len(R) + 1
  BY <1>1, LenProperties
<1>3. Append(R, r) # <<>>
  <2>1. Len(R) + 1 # 0 /\ Len(<<>>) = 0
    BY <1>2
  <2> QED
    BY <1>1, <2>1, Zenon
<1> QED
  BY <1>1, <1>2, <1>3 DEF Last

(* One more case of a class that the output did not name.                  *)
LEMMA MissedCaseCounts ==
  ASSUME NEW R \in Seq(AllKinds), NEW r \in AllKinds, r.predicted = Absent
  PROVE  /\ AtLeast(MacroF1(R), MacroF1(Append(R, r)))
         /\ CountIn(Append(R, r), Correct) = CountIn(R, Correct)
<1> DEFINE Q == Append(R, r)
           e == r.expected
<1>1. Q \in Seq(AllKinds)
  BY SuiteGrows
<1>2. ASSUME NEW l \in Labels
      PROVE  /\ CorrectAs(Q, l) = CorrectAs(R, l) /\ PredictedAs(Q, l) = PredictedAs(R, l)
             /\ l = e => Support(Q, l) = Support(R, l) + 1
             /\ l # e => Support(Q, l) = Support(R, l)
  <2>1. r \notin RightFor(l) /\ r \notin TakenFor(l) /\ (r \in Expecting(l) <=> l = e)
    BY CaseKindsAssumption DEF RightFor, TakenFor, Expecting, IsCorrect, IsLabeled
  <2>2. /\ CountIn(Q, RightFor(l)) = CountIn(R, RightFor(l))
        /\ CountIn(Q, TakenFor(l)) = CountIn(R, TakenFor(l))
    BY <2>1, CountAppend
  <2>3. /\ l = e => CountIn(Q, Expecting(l)) = CountIn(R, Expecting(l)) + 1
        /\ l # e => CountIn(Q, Expecting(l)) = CountIn(R, Expecting(l))
    BY <2>1, CountAppend
  <2> HIDE DEF Q, e
  <2> QED
    BY <1>1, <2>2, <2>3, MetricsCount
<1>3. ASSUME NEW l \in Labels
      PROVE  /\ AtLeast(F1(R, l), F1(Q, l))
             /\ Support(R, l) = 0 => F1(Q, l) = <<0, 1>>
  <2> DEFINE c == CorrectAs(Q, l)
             p == PredictedAs(Q, l)
             s == Support(Q, l)
             d == CorrectAs(R, l)
             q == PredictedAs(R, l)
             t == Support(R, l)
  <2>1. /\ c \in Nat /\ p \in Nat /\ s \in Nat /\ c <= p /\ c <= s
        /\ d \in Nat /\ q \in Nat /\ t \in Nat /\ d <= q /\ d <= t
        /\ F1(R, l) = Harmonic(d, q, t) /\ F1(Q, l) = Harmonic(c, p, s)
    BY <1>1, F1IsHarmonic
  <2>2. d = c /\ q = p /\ (s = t + 1 \/ s = t)
    BY <1>2
  <2> HIDE DEF c, p, s, d, q, t
  <2>3. q <= p /\ t <= s
    BY <2>1, <2>2
  <2>4. AtLeast(Harmonic(d, q, t), Harmonic(c, p, s))
    BY <2>1, <2>2, <2>3, HarmonicGrows
  <2>5. t = 0 => c = 0
    BY <2>1, <2>2
  <2>6. t = 0 => F1(Q, l) = <<0, 1>>
    BY <2>1, <2>5 DEF Harmonic
  <2> QED
    BY <2>1, <2>4, <2>6 DEF t
<1>4. /\ Classes(R) \subseteq Labels /\ Absent \notin Classes(R)
      /\ Classes(Q) = IF e \in Labels THEN Classes(R) \cup {e} ELSE Classes(R)
  <2>1. /\ Classes(R) = {l \in Labels : Support(R, l) > 0}
        /\ Classes(Q) = {l \in Labels : Support(Q, l) > 0}
    BY DEF Classes
  <2>2. \A l \in Labels : Support(R, l) \in Nat
    BY F1IsHarmonic
  <2>3. \A l \in Labels : Support(Q, l) > 0 <=> Support(R, l) > 0 \/ l = e
    BY <1>2, <2>2
  <2> HIDE DEF e, Q
  <2> QED
    BY <2>1, <2>3, CaseKindsAssumption
<1>5. AtLeast(MacroF1(R), MacroF1(Q))
  <2> HIDE DEF Q, e
  <2>1. CASE e \in Labels /\ e \notin Classes(R)
    <3>1. Support(R, e) = 0
      <4>1. ~(Support(R, e) > 0) /\ Support(R, e) \in Nat
        BY <2>1, F1IsHarmonic DEF Classes
      <4> QED
        BY <4>1
    <3>2. F1(Q, e) = <<0, 1>> /\ Classes(Q) = Classes(R) \cup {e}
      BY <1>3, <1>4, <2>1, <3>1
    <3> QED
      BY <1>1, <1>3, <1>4, <2>1, <3>2, MacroCompares
  <2>2. CASE e \notin Labels \/ e \in Classes(R)
    <3>1. Classes(Q) = Classes(R)
      BY <1>4, <2>2
    <3> QED
      BY <1>1, <1>3, <1>4, <3>1, MacroCompares
  <2> QED
    BY <2>1, <2>2
<1>6. CountIn(Q, Correct) = CountIn(R, Correct)
  <2>1. r \notin Correct
    BY DEF Correct, IsCorrect, IsLabeled
  <2> QED
    BY <2>1, CountAppend
<1> QED
  BY <1>5, <1>6

LEMMA UnlabeledCaseCounts ==
  ASSUME NEW R \in Seq(AllKinds), NEW r \in AllKinds, ~IsLabeled(r)
  PROVE  LET Q == Append(R, r)
         IN /\ Classes(Q) = Classes(R)
            /\ \A l \in Labels : F1(Q, l) = F1(R, l)
            /\ Accuracy(Q) = Accuracy(R)
            /\ MacroF1(Q) = MacroF1(R)
<1> DEFINE Q == Append(R, r)
<1>1. Q \in Seq(AllKinds)
  BY SuiteGrows
<1>2. r \notin Correct /\ r \notin Labeled
  BY DEF Correct, Labeled, IsCorrect
<1>3. CountIn(Q, Correct) = CountIn(R, Correct) /\ CountIn(Q, Labeled) = CountIn(R, Labeled)
  BY <1>2, CountAppend
<1>4. ASSUME NEW l \in Labels
      PROVE  /\ Support(Q, l) = Support(R, l)
             /\ PredictedAs(Q, l) = PredictedAs(R, l) /\ CorrectAs(Q, l) = CorrectAs(R, l)
  <2>1. r \notin Expecting(l) /\ r \notin TakenFor(l) /\ r \notin RightFor(l)
    BY CaseKindsAssumption DEF Expecting, TakenFor, RightFor, IsCorrect, IsLabeled
  <2>2. /\ CountIn(Q, Expecting(l)) = CountIn(R, Expecting(l))
        /\ CountIn(Q, TakenFor(l)) = CountIn(R, TakenFor(l))
        /\ CountIn(Q, RightFor(l)) = CountIn(R, RightFor(l))
    BY <2>1, CountAppend
  <2> HIDE DEF Q
  <2> QED
    BY <1>1, <2>2, MetricsCount
<1>5. Accuracy(Q) = Accuracy(R)
  BY <1>1, <1>3, MetricsCount
<1> HIDE DEF Q
<1>6. \A l \in Labels : F1(Q, l) = F1(R, l)
  BY <1>1, <1>4, F1IsHarmonic
<1>7. Classes(Q) = Classes(R)
  BY <1>4 DEF Classes
<1>8. MacroF1(Q) = MacroF1(R)
  <2>1. Classes(R) \subseteq Labels
    BY DEF Classes
  <2>2. [l \in Classes(Q) |-> F1(Q, l)] = [l \in Classes(R) |-> F1(R, l)]
    BY <1>6, <1>7, <2>1
  <2> DEFINE f == [l \in Classes(R) |-> F1(R, l)]
             g == [l \in Classes(Q) |-> F1(Q, l)]
             Average(h, C) == Over(FractionSum(h, C)[1], FractionSum(h, C)[2] * Cardinality(C))
  <2>3. MacroF1(R) = Average(f, Classes(R)) /\ MacroF1(Q) = Average(g, Classes(Q))
    BY <1>1, MacroIsMean
  <2>4. g = f
    BY <2>2
  <2> HIDE DEF f, g, Average
  <2> QED
    BY <1>7, <2>3, <2>4
<1> QED
  BY <1>5, <1>6, <1>7, <1>8 DEF Q

LEMMA ErroredCaseScores ==
  ASSUME NEW R \in Seq(AllKinds), NEW r \in AllKinds, r.value = Absent
  PROVE  /\ MeanScore(Append(R, r)) = MeanScore(R)
         /\ (\E i \in DOMAIN Append(R, r) : Append(R, r)[i].value # Absent)
              <=> \E i \in DOMAIN R : R[i].value # Absent
<1> DEFINE Q == Append(R, r)
           scored == {i \in DOMAIN R : R[i].value # Absent}
           now == {i \in DOMAIN Q : Q[i].value # Absent}
<1>1. /\ Len(R) \in Nat /\ DOMAIN R = 1 .. Len(R) /\ DOMAIN Q = 1 .. Len(R) + 1
      /\ Q[Len(R) + 1] = r /\ \A i \in 1 .. Len(R) : Q[i] = R[i]
  BY SuiteGrows
<1> HIDE DEF Q
<1>2. \A i : i \in 1 .. Len(R) + 1 <=> i \in 1 .. Len(R) \/ i = Len(R) + 1
  BY <1>1
<1>3. now = scored /\ \A i \in scored : Q[i].value = R[i].value
  BY <1>1, <1>2
<1> HIDE DEF now, scored
<1>4. [i \in now |-> Q[i].value] = [i \in scored |-> R[i].value]
  BY <1>3
<1>5. /\ MeanScore(Q) = Over(SumFunction([i \in now |-> Q[i].value]), Cardinality(now))
      /\ MeanScore(R) = Over(SumFunction([i \in scored |-> R[i].value]), Cardinality(scored))
  BY DEF MeanScore, now, scored
<1>6. MeanScore(Q) = MeanScore(R)
  BY <1>3, <1>4, <1>5, Zenon
<1>7. (\E i \in DOMAIN Q : Q[i].value # Absent) <=> \E i \in DOMAIN R : R[i].value # Absent
  BY <1>3 DEF now, scored
<1> QED
  BY <1>6, <1>7 DEF Q

(* A gate that was closed stays so if its metric is no higher.             *)
LEMMA ClosedGates ==
  ASSUME NEW R \in Seq(AllKinds), NEW Q \in Seq(AllKinds), NEW min \in Floors
  PROVE  /\ AtLeast(PassRate(R), PassRate(Q)) /\ PassRateGate(Q, min) => PassRateGate(R, min)
         /\ AtLeast(Accuracy(R), Accuracy(Q)) /\ AccuracyGate(Q, min) => AccuracyGate(R, min)
         /\ AtLeast(MacroF1(R), MacroF1(Q)) /\ MacroF1Gate(Q, min) => MacroF1Gate(R, min)
<1>1. min \in Fractions /\ min[1] > 0 /\ min[1] \in Nat
  BY FloorsAssumption DEF Fractions
<1>2. \A S \in Seq(AllKinds) : /\ PassRate(S) \in Fractions /\ Accuracy(S) \in Fractions
                               /\ MacroF1(S) \in Fractions
  <2> SUFFICES ASSUME NEW S \in Seq(AllKinds)
               PROVE  /\ PassRate(S) \in Fractions /\ Accuracy(S) \in Fractions
                      /\ MacroF1(S) \in Fractions
    OBVIOUS
  <2>1. /\ CountIn(S, Passing) \in Nat /\ CountIn(S, Correct) \in Nat
        /\ CountIn(S, Labeled) \in Nat /\ Len(S) \in Nat
    BY CountType
  <2>2. /\ PassRate(S) = Over(CountIn(S, Passing), Len(S))
        /\ Accuracy(S) = Over(CountIn(S, Correct), CountIn(S, Labeled))
    BY MetricsCount
  <2>3. PassRate(S) \in Fractions /\ Accuracy(S) \in Fractions
    BY <2>1, <2>2, OverIsFraction
  <2>4. MacroF1(S) \in Fractions
    BY MacroIsMean
  <2> QED
    BY <2>3, <2>4
<1>3. ASSUME NEW a \in Fractions, NEW b \in Fractions, AtLeast(a, b), AtLeast(b, min)
      PROVE  AtLeast(a, min) /\ a[1] # 0
  <2>1. AtLeast(a, min)
    BY <1>1, <1>3, OrderIsTransitive
  <2>2. a[1] # 0
    <3>1. /\ a[1] \in Nat /\ a[2] \in Nat \ {0} /\ min[1] \in Nat \ {0} /\ min[2] \in Nat
      BY <1>1, FractionParts
    <3>2. /\ min[1] * a[2] \in Nat \ {0}
          /\ 0 * min[2] = 0
      <4>1. min[1] * a[2] \in Nat \ {0}
        BY <3>1, Products
      <4>2. 0 * min[2] = 0
        BY <3>1
      <4> QED
        BY <4>1, <4>2
    <3>3. a[1] * min[2] >= min[1] * a[2]
      BY <2>1 DEF AtLeast
    <3> QED
      BY <3>1, <3>2, <3>3
  <2> QED
    BY <2>1, <2>2
<1>4. PassRate(R)[1] # 0 => R # <<>>
  <2>1. PassRate(R) = Over(CountIn(R, Passing), Len(R)) /\ CountIn(R, Passing) \in Nat
    BY MetricsCount, CountType
  <2>2. Over(CountIn(R, Passing), 0)[1] = 0
    BY <2>1, OverIsFraction
  <2>3. Len(<<>>) = 0
    OBVIOUS
  <2> QED
    BY <2>1, <2>2, <2>3, Zenon
<1>5. Accuracy(R)[1] # 0 => Classes(R) # {}
  <2>1. Accuracy(R) = Over(CountIn(R, Correct), CountIn(R, Labeled))
    BY MetricsCount
  <2>2. CountIn(R, Correct) \in Nat /\ (CountIn(R, Labeled) = 0 <=> Classes(R) = {})
    BY AccuracyMeasures
  <2>3. Over(CountIn(R, Correct), 0)[1] = 0
    BY <2>2, OverIsFraction
  <2> QED
    BY <2>1, <2>2, <2>3, Zenon
<1>6. MacroF1(R)[1] # 0 => Classes(R) # {}
  <2>1. Classes(R) = {} => MacroF1(R) = <<0, 1>>
    BY MacroIsMean
  <2>2. <<0, 1>>[1] = 0
    OBVIOUS
  <2> QED
    BY <2>1, <2>2
<1>7. AtLeast(PassRate(R), PassRate(Q)) /\ PassRateGate(Q, min) => PassRateGate(R, min)
  BY <1>2, <1>3, <1>4 DEF PassRateGate
<1>8. AtLeast(Accuracy(R), Accuracy(Q)) /\ AccuracyGate(Q, min) => AccuracyGate(R, min)
  BY <1>2, <1>3, <1>5 DEF AccuracyGate
<1>9. AtLeast(MacroF1(R), MacroF1(Q)) /\ MacroF1Gate(Q, min) => MacroF1Gate(R, min)
  BY <1>2, <1>3, <1>6 DEF MacroF1Gate
<1> QED
  BY <1>7, <1>8, <1>9

LEMMA OneMoreCase ==
  ASSUME NEW r \in CaseKinds, results \in Seq(AllKinds), results' = Append(results, r)
  PROVE  results' # <<>> /\ CountsOnce(Last(results'))
<1> DEFINE R == results
           Q == Append(R, r)
<1>1. /\ r \in AllKinds
      /\ r.predicted = Absent => ~r.passed /\ r.value = Absent
  BY CaseKindsAssumption DEF AllKinds
<1>2. R \in Seq(AllKinds) /\ Q \in Seq(AllKinds) /\ Q # <<>> /\ Last(Q) = r
  BY <1>1, SuiteGrows
<1>3. ASSUME r.predicted = Absent
      PROVE  /\ AtLeast(PassRate(R), PassRate(Q))
             /\ PassRate(R)[1] > 0 => ~AtLeast(PassRate(Q), PassRate(R))
             /\ AtLeast(Accuracy(R), Accuracy(Q))
             /\ IsLabeled(r) /\ Accuracy(R)[1] > 0 => ~AtLeast(Accuracy(Q), Accuracy(R))
             /\ AtLeast(MacroF1(R), MacroF1(Q))
             /\ MeanScore(Q) = MeanScore(R)
             /\ (\E i \in DOMAIN Q : Q[i].value # Absent) <=> \E i \in DOMAIN R : R[i].value # Absent
  <2>1. /\ AtLeast(PassRate(R), PassRate(Q))
        /\ PassRate(R)[1] > 0 => ~AtLeast(PassRate(Q), PassRate(R))
    <3> DEFINE p == CountIn(R, Passing)
               n == Len(R)
    <3>1. CountIn(Q, Passing) = p /\ Len(Q) = n + 1
      <4>1. r \notin Passing
        BY <1>1, <1>3 DEF Passing
      <4> QED
        BY <1>1, <1>2, <4>1, CountAppend, SuiteGrows
    <3>2. p \in Nat /\ n \in Nat /\ p <= n
      <4>1. /\ {i \in DOMAIN R : R[i] \in Passing} \subseteq DOMAIN R
            /\ IsFiniteSet(DOMAIN R) /\ Cardinality(DOMAIN R) = n
            /\ p \in Nat /\ n \in Nat
        BY <1>2, CountType
      <4>2. Cardinality({i \in DOMAIN R : R[i] \in Passing}) <= Cardinality(DOMAIN R)
        BY <4>1, FS_Subset
      <4> QED
        BY <4>1, <4>2 DEF CountIn
    <3>3. PassRate(R) = Over(p, n) /\ PassRate(Q) = Over(p, n + 1)
      BY <1>2, <3>1, MetricsCount
    <3> HIDE DEF p, n
    <3> QED
      BY <3>2, <3>3, RateSinks
  <2>2. AtLeast(MacroF1(R), MacroF1(Q)) /\ CountIn(Q, Correct) = CountIn(R, Correct)
    BY <1>1, <1>2, <1>3, MissedCaseCounts
  <2>3. /\ AtLeast(Accuracy(R), Accuracy(Q))
        /\ IsLabeled(r) /\ Accuracy(R)[1] > 0 => ~AtLeast(Accuracy(Q), Accuracy(R))
    <3> DEFINE c == CountIn(R, Correct)
               n == CountIn(R, Labeled)
    <3>1. /\ IsLabeled(r) => CountIn(Q, Labeled) = n + 1
          /\ ~IsLabeled(r) => CountIn(Q, Labeled) = n
      <4>1. IsLabeled(r) <=> r \in Labeled
        BY <1>1 DEF Labeled
      <4> QED
        BY <1>1, <1>2, <4>1, CountAppend
    <3>2. c \in Nat /\ n \in Nat /\ c <= n
      BY <1>2, AccuracyMeasures
    <3>3. Accuracy(R) = Over(c, n) /\ Accuracy(Q) = Over(c, CountIn(Q, Labeled))
      BY <1>2, <2>2, MetricsCount
    <3> HIDE DEF c, n
    <3>4. CASE IsLabeled(r)
      <4>1. Accuracy(Q) = Over(c, n + 1)
        BY <3>1, <3>3, <3>4
      <4> QED
        BY <3>2, <3>3, <4>1, RateSinks
    <3>5. CASE ~IsLabeled(r)
      <4>1. Accuracy(Q) = Accuracy(R) /\ Over(c, n) \in Fractions
        BY <3>1, <3>2, <3>3, <3>5, OverIsFraction
      <4>2. \A a \in Fractions : AtLeast(a, a)
        BY DEF AtLeast, Fractions
      <4> QED
        BY <3>3, <3>5, <4>1, <4>2
    <3> QED
      BY <3>4, <3>5
  <2>4. /\ MeanScore(Q) = MeanScore(R)
        /\ (\E i \in DOMAIN Q : Q[i].value # Absent) <=> \E i \in DOMAIN R : R[i].value # Absent
    BY <1>1, <1>2, <1>3, ErroredCaseScores
  <2> QED
    BY <2>1, <2>2, <2>3, <2>4
<1>4. ASSUME ~IsLabeled(r)
      PROVE  /\ Classes(Q) = Classes(R) /\ \A l \in Labels : F1(Q, l) = F1(R, l)
             /\ Accuracy(Q) = Accuracy(R) /\ MacroF1(Q) = MacroF1(R)
  BY <1>1, <1>2, <1>4, UnlabeledCaseCounts
<1>5. results' = Q
  OBVIOUS
<1> HIDE DEF Q
<1>6. ASSUME r.predicted = Absent, NEW min \in Floors
      PROVE  /\ ~(PassRateGate(Q, min) /\ ~PassRateGate(R, min))
             /\ ~(MeanScoreGate(Q, min) /\ ~MeanScoreGate(R, min))
             /\ ~(AccuracyGate(Q, min) /\ ~AccuracyGate(R, min))
             /\ ~(MacroF1Gate(Q, min) /\ ~MacroF1Gate(R, min))
  <2>1. MeanScoreGate(Q, min) <=> MeanScoreGate(R, min)
    BY <1>3, <1>6 DEF MeanScoreGate
  <2> QED
    BY <1>2, <1>3, <1>6, <2>1, ClosedGates
<1>7. CountsOnce(r)
  BY <1>3, <1>4, <1>5, <1>6 DEF CountsOnce
<1> QED
  BY <1>2, <1>5, <1>7

(* An errored case sinks what it should and an unlabeled one nothing       *)
(* (CasesCountOnce).                                                       *)
THEOREM ErrorsSinkGates == SuiteSpec => CasesCountOnce
<1>1. SuiteTypeOK /\ [SuiteNext]_results => [results' # <<>> /\ CountsOnce(Last(results'))]_results
  <2> SUFFICES ASSUME SuiteTypeOK, SuiteNext
               PROVE  results' # <<>> /\ CountsOnce(Last(results'))
    OBVIOUS
  <2>1. PICK r \in CaseKinds : results' = Append(results, r)
    BY DEF SuiteNext, Collect
  <2>2. results \in Seq(AllKinds)
    <3>1. CaseKinds \subseteq AllKinds
      BY CaseKindsAssumption DEF AllKinds
    <3> QED
      BY <3>1 DEF SuiteTypeOK
  <2> QED
    BY <2>1, <2>2, OneMoreCase
<1> QED
  BY <1>1, SuiteStarts, SuiteSteps, PTL DEF SuiteSpec, CasesCountOnce
=============================================================================
