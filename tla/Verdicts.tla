------------------------------- MODULE Verdicts -------------------------------
(***************************************************************************)
(* The parts of evalcore that share no state with each other, side by      *)
(* side: what turns a run's outputs into verdicts (scorers, the fold of a  *)
(* case's trials, the aggregates and gates of a suite, the reading of a    *)
(* trace, trajectory rules, the winners of a matrix), what surrounds a run *)
(* (its configuration, its reports, what it writes to the terminal), and   *)
(* the viewer.  Each has variables and a next-state action of its own; a   *)
(* behaviour is about one of them, its `subject`, so that none is          *)
(* multiplied by the others.                                               *)
(***************************************************************************)
EXTENDS CaseVerdict, SuiteVerdict, TraceExport, TrajectoryRules,
        MatrixVerdict, Scorers, Configuration, Report, Presentation, Viewer

(* There is something to configure, to print and to report.                *)
ASSUME SomeAssumption ==
  Drafts # {} /\ Reporters # {} /\ Environments # {} /\ <<>> \in GateLists

VARIABLE subject

verdictVars ==
  <<subject, caseVars, results, spans, steps, matrix, scorerVars, configVars,
    reportVars, presentationVars, viewerVars>>

(* The parts with more than one initial state, while they are not the      *)
(* subject.                                                                *)
CaseRests == CaseInit /\ count = 1 /\ require = "all"
ConfigRests ==
  /\ config = CHOOSE draft \in Drafts : TRUE
  /\ env = FALSE /\ recording = {} /\ edits = 0
ReportRests == shown = <<>> /\ other = <<>> /\ gates = <<>>
PresentationRests ==
  /\ opts = CHOOSE o \in Options : TRUE
  /\ doing = "suite" /\ arm = 1 /\ ticked = 0 /\ line = {}
  /\ out = <<>> /\ err = <<>> /\ file = <<>>

Init ==
  /\ subject \in {"case", "suite", "trace", "rules", "matrix", "scorers",
                  "config", "report", "terminal", "viewer"}
  /\ IF subject = "case" THEN CaseInit ELSE CaseRests
  /\ IF subject = "config" THEN ConfigInit ELSE ConfigRests
  /\ IF subject = "report" THEN ReportInit ELSE ReportRests
  /\ IF subject = "terminal" THEN PresentationInit ELSE PresentationRests
  /\ SuiteInit /\ TraceInit /\ RulesInit /\ MatrixInit /\ ScorersInit /\ ViewerInit

Ended ==
  \/ subject = "case" /\ CaseDone
  \/ subject = "suite" /\ Len(results) = MaxCases
  \/ subject = "trace" /\ Len(spans) = MaxSpans
  \/ subject = "rules" /\ Len(steps) = MaxCalls
  \/ subject = "matrix" /\ Len(matrix) = MaxArms
  \/ /\ subject = "scorers" /\ Len(grades) = MaxGrades
     /\ \A n \in DOMAIN grades : grades[n].at = "done"
  \/ subject = "config" /\ edits = MaxEdits
  \/ subject = "report" /\ shown # <<>> /\ Last(shown).id = NumIds
  \/ subject = "terminal" /\ doing = "done"
  \/ subject = "viewer" /\ Len(rows) = MaxRows

(* Only the subject moves.                                                 *)
Rest ==
  /\ UNCHANGED subject
  /\ subject # "case" => UNCHANGED caseVars
  /\ subject # "suite" => UNCHANGED results
  /\ subject # "trace" => UNCHANGED spans
  /\ subject # "rules" => UNCHANGED steps
  /\ subject # "matrix" => UNCHANGED matrix
  /\ subject # "scorers" => UNCHANGED scorerVars
  /\ subject # "config" => UNCHANGED configVars
  /\ subject # "report" => UNCHANGED reportVars
  /\ subject # "terminal" => UNCHANGED presentationVars
  /\ subject # "viewer" => UNCHANGED viewerVars

Next ==
  \/ subject = "case" /\ CaseNext /\ Rest
  \/ subject = "suite" /\ SuiteNext /\ Rest
  \/ subject = "trace" /\ TraceNext /\ Rest
  \/ subject = "rules" /\ RulesNext /\ Rest
  \/ subject = "matrix" /\ MatrixNext /\ Rest
  \/ subject = "scorers" /\ ScorersNext /\ Rest
  \/ subject = "config" /\ ConfigNext /\ Rest
  \/ subject = "report" /\ ReportNext /\ Rest
  \/ subject = "terminal" /\ PresentationNext /\ Rest
  \/ subject = "viewer" /\ ViewerNext /\ Rest
  \/ Ended /\ UNCHANGED verdictVars

Spec == Init /\ [][Next]_verdictVars
=============================================================================
