-------------------------------- MODULE Report --------------------------------
(***************************************************************************)
(* What the reporters of evalcore-report say about a run: terminal, JSON,  *)
(* JUnit XML and HTML, the section on a baseline (compare in               *)
(* evalcore-core/src/baseline.rs), and the forms for a matrix.             *)
(*                                                                         *)
(* A document is the record of what it states: marks, counts and reasons,  *)
(* in their order, without wording, escaping and layout; of a list that is *)
(* filtered it keeps the places that are left, or their ids, which are in  *)
(* the same order.  `shown` is the summary of the run, `other` that of the *)
(* baseline it is compared with, or of the second arm of a matrix.         *)
(***************************************************************************)
EXTENDS Integers, Sequences, FiniteSets, SequencesExt, FiniteSetsExt

CONSTANTS
  ResultKinds,   \* what a CaseResult may hold, its id apart
  OtherKinds,    \* the same, of the other run
  GateLists,     \* the gate results of the run
  NumIds,        \* the ids of cases are 1..NumIds, in dataset order
  NoTrials       \* trials: None

(* The engine leaves out the scores of a case that errored, and sets       *)
(* trials only if there is more than one.                                  *)
ASSUME ResultKindsAssumption ==
  \A r \in ResultKinds \cup OtherKinds :
    /\ r.error => r.scores = <<>>
    /\ r.trials = NoTrials \/ (r.trials \in Seq(Range(r.trials)) /\ Len(r.trials) > 1)

VARIABLES shown, other, gates

reportVars == <<shown, other, gates>>

-----------------------------------------------------------------------------
(* CaseResult and RunSummary. *)

Passed(r) == ~r.error /\ \A j \in DOMAIN r.scores : r.scores[j].passed

(* The target's error, or a reason for each failing score: its own, or     *)
(* just "failed".                                                          *)
Reasons(r) ==
  IF r.error THEN <<"target error">>
  ELSE [j \in {n \in DOMAIN r.scores : ~r.scores[n].passed} |->
          <<r.scores[j].scorer, IF r.scores[j].reason THEN "own" ELSE "failed">>]

PassedIn(R) == Cardinality({k \in DOMAIN R : Passed(R[k])})
FailedIn(R) == Len(R) - PassedIn(R)
AllPassed(R) == FailedIn(R) = 0

TrialsPassed(ts) == Cardinality({k \in DOMAIN ts : ts[k].passed})

Flaky(r) ==
  r.trials # NoTrials /\ TrialsPassed(r.trials) \in 1 .. (Len(r.trials) - 1)

-----------------------------------------------------------------------------
(* The single-run reporters. *)

CaseLine(r) ==
  [mark |-> IF Passed(r) THEN "PASS" ELSE "FAIL",
   id |-> r.id,
   trials |-> IF r.trials = NoTrials THEN <<>>
              ELSE <<TrialsPassed(r.trials), Len(r.trials)>>,
   reasons |-> IF Passed(r) THEN <<>> ELSE Reasons(r)]

Headline(R) == [passed |-> PassedIn(R), failed |-> FailedIn(R), total |-> Len(R)]

GateLine(g) == [mark |-> IF g.passed THEN "PASS" ELSE "FAIL", gate |-> g.gate]

(* `quiet` leaves out passing cases, nothing else; the number of flaky     *)
(* cases is stated if any case had trials.                                 *)
Terminal(R, gs, quiet) ==
  [cases |-> [k \in {n \in DOMAIN R : ~(quiet /\ Passed(R[n]))} |-> CaseLine(R[k])],
   headline |-> Headline(R),
   flaky |-> IF \E k \in DOMAIN R : R[k].trials # NoTrials
             THEN {Cardinality({k \in DOMAIN R : Flaky(R[k])})} ELSE {},
   gates |-> [k \in DOMAIN gs |-> GateLine(gs[k])]]

(* scorer_trial_stats: over the trials that gave a score.                  *)
TrialStats(ts) ==
  LET Scorers == UNION {{ts[k].scores[j].scorer : j \in DOMAIN ts[k].scores} : k \in DOMAIN ts}
      Given(s) == {p \in UNION {{k} \X DOMAIN ts[k].scores : k \in DOMAIN ts} :
                     ts[p[1]].scores[p[2]].scorer = s}
      Value(p) == ts[p[1]].scores[p[2]].value
  IN [passed |-> <<TrialsPassed(ts), Len(ts)>>,
      scorers |-> [s \in Scorers |->
        [mean |-> <<MapThenSumSet(Value, Given(s)), Cardinality(Given(s))>>,
         range |-> <<Min({Value(p) : p \in Given(s)}), Max({Value(p) : p \in Given(s)})>>]]]

(* The summary itself, with the statistics of the cases that had trials.   *)
JsonCase(r) ==
  [result |-> r, stats |-> IF r.trials = NoTrials THEN {} ELSE {TrialStats(r.trials)}]
Json(R, gs) == [results |-> [k \in DOMAIN R |-> JsonCase(R[k])], gates |-> gs]

JunitCaseSlip(r) ==
  [name |-> r.id,
   failure |-> IF \A j \in DOMAIN r.scores : r.scores[j].passed THEN <<>> ELSE Reasons(r)]

(* No <failure> for a passing case, one with all reasons for a failing one.*)
JunitCase(r) == [name |-> r.id, failure |-> IF Passed(r) THEN <<>> ELSE Reasons(r)]
JunitSuite(name, R) ==
  [name |-> name, tests |-> Len(R), failures |-> FailedIn(R),
   cases |-> [k \in DOMAIN R |-> JunitCase(R[k])]]
Junit(R) ==
  [tests |-> Len(R), failures |-> FailedIn(R), suites |-> <<JunitSuite("evalcore", R)>>]

HtmlTrials(ts) ==
  [rows |-> [k \in DOMAIN ts |->
               [badge |-> ts[k].passed,
                detail |-> IF ts[k].error THEN "target error" ELSE "scores"]],
   stats |-> TrialStats(ts)]

(* A reason is shown next to its score.                                    *)
HtmlCase(r) ==
  [badge |-> IF Passed(r) THEN "PASS" ELSE "FAIL",
   id |-> r.id,
   error |-> r.error,
   scores |-> [j \in DOMAIN r.scores |->
                 <<r.scores[j].scorer, r.scores[j].passed, r.scores[j].reason>>],
   trials |-> IF r.trials = NoTrials THEN {} ELSE {HtmlTrials(r.trials)}]

(* push_report_body: the headline says "all passed" or "failing" of the    *)
(* cases alone.                                                            *)
HtmlBody(R, gs) ==
  [overall |-> IF AllPassed(R) THEN "all passed" ELSE "failing",
   headline |-> Headline(R),
   gates |-> [k \in DOMAIN gs |-> GateLine(gs[k])],
   cases |-> [k \in DOMAIN R |-> HtmlCase(R[k])]]

-----------------------------------------------------------------------------
(* The baseline section. *)

(* collect() into a map: of equal ids the last one counts.                 *)
IdsIn(R) == {R[k].id : k \in DOMAIN R}
VerdictOf(R, id) == Passed(R[Max({k \in DOMAIN R : R[k].id = id})])

IdsWhere(R, Test(_)) == {R[k].id : k \in {n \in DOMAIN R : Test(R[n])}}

DiffSlip(base, R) ==
  LET Then(r) == r.id \in IdsIn(base) /\ VerdictOf(base, r.id)
  IN [regressions |-> IdsWhere(R, LAMBDA r : Then(r) /\ ~Passed(r)),
      newFailing |-> {},
      fixed |-> IdsWhere(R, LAMBDA r : ~Then(r) /\ Passed(r)),
      removed |-> IdsWhere(base, LAMBDA b : b.id \notin IdsIn(R)),
      was |-> Headline(base), now |-> Headline(R)]
Diff(base, R) ==
  LET Known(r) == r.id \in IdsIn(base)
  IN [regressions |-> IdsWhere(R, LAMBDA r : Known(r) /\ VerdictOf(base, r.id) /\ ~Passed(r)),
      newFailing |-> IdsWhere(R, LAMBDA r : ~Known(r) /\ ~Passed(r)),
      fixed |-> IdsWhere(R, LAMBDA r : Known(r) /\ ~VerdictOf(base, r.id) /\ Passed(r)),
      removed |-> IdsWhere(base, LAMBDA b : b.id \notin IdsIn(R)),
      was |-> Headline(base), now |-> Headline(R)]

DiffGateFailed(d) == d.regressions # {} \/ d.newFailing # {}

Lines(word, ids) == {[mark |-> word, id |-> id] : id \in ids}
Groups(d) ==
  <<Lines("REGRESSED", d.regressions), Lines("NEW FAIL", d.newFailing),
    Lines("FIXED", d.fixed), Lines("REMOVED", d.removed)>>

(* The section after the terminal report, and the one in the HTML page,    *)
(* where a group without lines has no heading either.                      *)
BaselineSection(d) ==
  [header |-> <<d.was, d.now>>,
   lines |-> Groups(d),
   gate |-> IF DiffGateFailed(d) THEN "FAIL" ELSE "OK"]

HtmlBaseline(d) ==
  [header |-> <<d.was, d.now>>,
   gate |-> IF DiffGateFailed(d) THEN "FAIL" ELSE "OK",
   groups |-> [g \in {n \in DOMAIN Groups(d) : Groups(d)[n] # {}} |-> Groups(d)[g]]]

-----------------------------------------------------------------------------
(* Matrix forms, of arms that ran the same cases, and of the gate results  *)
(* of each arm; JUnit has no gates, and JSON no statistics here.  (Who wins *)
(* a row, and how often, is in MatrixVerdict.)                             *)

MatrixRows(arms) ==
  [k \in DOMAIN arms[1] |->
     [id |-> arms[1][k].id,
      cells |-> [a \in DOMAIN arms |->
        IF arms[1][k].id \in IdsIn(arms[a])
        THEN IF VerdictOf(arms[a], arms[1][k].id) THEN "PASS" ELSE "FAIL"
        ELSE "FAIL"]]]

TerminalMatrix(arms, gs, quiet) ==
  [arms |-> [a \in DOMAIN arms |-> Terminal(arms[a], gs[a], quiet)], grid |-> MatrixRows(arms)]
JsonMatrix(arms, gs) ==
  [arms |-> [a \in DOMAIN arms |-> [results |-> arms[a], gates |-> gs[a]]],
   comparison |-> MatrixRows(arms)]
HtmlMatrix(arms, gs) ==
  [comparison |-> MatrixRows(arms), arms |-> [a \in DOMAIN arms |-> HtmlBody(arms[a], gs[a])]]
JunitMatrix(arms) ==
  [tests |-> SumFunction([a \in DOMAIN arms |-> Len(arms[a])]),
   failures |-> SumFunction([a \in DOMAIN arms |-> FailedIn(arms[a])]),
   suites |-> [a \in DOMAIN arms |-> JunitSuite(a, arms[a])]]

-----------------------------------------------------------------------------
(* Two runs take shape, case by case in dataset order. *)

ReportInit == shown = <<>> /\ other = <<>> /\ gates \in GateLists

Follows(R, id) == \A k \in DOMAIN R : R[k].id < id
Result(id, kind) ==
  [id |-> id, error |-> kind.error, scores |-> kind.scores, trials |-> kind.trials]

ShowCase(id, kind) ==
  /\ Follows(shown, id)
  /\ shown' = Append(shown, Result(id, kind))
  /\ UNCHANGED <<other, gates>>

OtherCase(id, kind) ==
  /\ shown = <<>> /\ Follows(other, id)
  /\ other' = Append(other, Result(id, kind))
  /\ UNCHANGED <<shown, gates>>

ReportNext ==
  \E id \in 1 .. NumIds :
    \/ \E kind \in ResultKinds : ShowCase(id, kind)
    \/ \E kind \in OtherKinds : OtherCase(id, kind)

-----------------------------------------------------------------------------

FailingIds(cases) == {cases[k].id : k \in {n \in DOMAIN cases : cases[n].mark = "FAIL"}}

(* Whichever report one reads, it tells of the same run: every format, the *)
(* quiet one included, marks the same cases as failed and gives each of    *)
(* them as many reasons, at least one; the counts in each headline are     *)
(* those of its own rows, in a matrix those of all arms; and the flaky     *)
(* count of the terminal is what the trials in JSON and HTML show.         *)
ReportersAgree ==
  shown # <<>> =>
  LET full == Terminal(shown, gates, FALSE)
      quiet == Terminal(shown, gates, TRUE)
      xml == Junit(shown)
      page == HtmlBody(shown, gates)
      data == Json(shown, gates)
      arms == <<shown, other>>
      Elements(s) == {s.cases[k].name : k \in {n \in DOMAIN s.cases : s.cases[n].failure # <<>>}}
      Split(stats) == stats.passed[1] > 0 /\ stats.passed[1] < stats.passed[2]
  IN /\ FailingIds(quiet.cases) = FailingIds(full.cases)
     /\ FailingIds(full.cases) = Elements(xml.suites[1])
     /\ FailingIds(full.cases) = {page.cases[k].id : k \in
                                    {n \in DOMAIN page.cases : page.cases[n].badge = "FAIL"}}
     /\ \A k \in DOMAIN full.cases : full.cases[k].mark = "FAIL" =>
          /\ full.cases[k].reasons # <<>>
          /\ full.cases[k].reasons = xml.suites[1].cases[k].failure
          /\ Cardinality(DOMAIN full.cases[k].reasons) =
               IF page.cases[k].error THEN 1
               ELSE Cardinality({j \in DOMAIN page.cases[k].scores : ~page.cases[k].scores[j][2]})
     /\ full.headline = page.headline
     /\ full.headline.failed = Cardinality(FailingIds(full.cases))
     /\ page.overall = "all passed" <=> FailingIds(quiet.cases) = {}
     /\ \A n \in full.flaky : n =
          Cardinality({k \in DOMAIN data.results : \E s \in data.results[k].stats : Split(s)})
     /\ \A k \in DOMAIN page.cases : {t.stats : t \in page.cases[k].trials} = data.results[k].stats
     /\ LET all == JunitMatrix(arms) IN
          all.failures = Cardinality(Elements(all.suites[1])) + Cardinality(Elements(all.suites[2]))

(* Why a run is refused can be read off its report: if a case, a gate or   *)
(* the comparison with the baseline sends the exit code to 1, the terminal *)
(* and the page show a failing mark for it, under --quiet too; and the     *)
(* diff accounts for every case of both runs, so that the two headlines it *)
(* begins with differ by what it lists.                                    *)
RefusalIsShown ==
  shown # <<>> =>
  LET quiet == Terminal(shown, gates, TRUE)
      page == HtmlBody(shown, gates)
      d == Diff(other, shown)
      text == BaselineSection(d)
      Red(marks) == \E k \in DOMAIN marks : marks[k].mark = "FAIL"
      Listed(word) == {l.id : l \in {n \in UNION Range(text.lines) : n.mark = word}}
      Bad == {r \in Range(shown) : ~Passed(r)}
  IN /\ Bad # {} => Red(quiet.cases) /\ page.overall = "failing"
     /\ (\E k \in DOMAIN gates : ~gates[k].passed) => Red(quiet.gates) /\ Red(page.gates)
     /\ text.gate = HtmlBaseline(d).gate
     /\ text.gate = "OK" <=>
          \A r \in Bad : r.id \in IdsIn(other) /\ ~VerdictOf(other, r.id)
     /\ UNION Range(HtmlBaseline(d).groups) = UNION Range(text.lines)
     /\ d.now.failed - d.was.failed =
          Cardinality(Listed("REGRESSED")) + Cardinality(Listed("NEW FAIL"))
          - Cardinality(Listed("FIXED"))
          - Cardinality({id \in Listed("REMOVED") : ~VerdictOf(other, id)})
=============================================================================
