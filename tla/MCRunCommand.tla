----------------------------- MODULE MCRunCommand -----------------------------
(* RunCommand on small instances: the invocations.                         *)
EXTENDS RunCommand

(* A plain run of a local target over two cases.                           *)
Plain ==
  [cache |-> "auto", targets |-> <<"local">>, matrix |-> FALSE,
   judge |-> FALSE, similarity |-> FALSE, key |-> TRUE,
   baseline |-> FALSE, save |-> FALSE, history |-> TRUE, html |-> FALSE,
   files |-> << <<"a", "blank", "b">> >>]

Saving == [Plain EXCEPT !.save = TRUE, !.history = FALSE, !.files = << <<"b">> >>]
Gated == [Plain EXCEPT !.baseline = TRUE, !.history = FALSE]
Rolling == [Plain EXCEPT !.baseline = TRUE, !.save = TRUE, !.html = TRUE]
Matrix == [Plain EXCEPT !.matrix = TRUE, !.targets = <<"local", "cached">>,
                        !.judge = TRUE, !.cache = "replay", !.key = FALSE,
                        !.files = << <<"a">> >>]
Refused == [Matrix EXCEPT !.save = TRUE]
Keyless == [Plain EXCEPT !.targets = <<"cached">>, !.key = FALSE]
KeylessJudge == [Plain EXCEPT !.judge = TRUE, !.cache = "off", !.key = FALSE]

(* A file that names two cases alike, against a baseline.                  *)
Twice == [Gated EXCEPT !.files = << <<"a", "a", "b">> >>]

(* A baseline is saved, then rolled or saved again, then anything runs.    *)
History ==
  << {Saving}, {Saving, Rolling},
     {Gated, Rolling, Matrix, Refused, Keyless, KeylessJudge, Twice} >>

(* The single-target suites in replay mode.                                *)
ReplaySuites == <<
  {[Plain EXCEPT !.cache = "replay", !.key = FALSE, !.targets = <<kind>>,
                 !.judge = judge, !.similarity = similarity] :
     kind \in Kinds, judge \in BOOLEAN, similarity \in BOOLEAN} >>

(* Two dataset files, in each of which the case of line 1 has no id.       *)
TwoFiles ==
  LET Files == [Plain EXCEPT !.files = << <<"unnamed">>, <<"unnamed">> >>, !.history = FALSE]
  IN << {[Files EXCEPT !.save = TRUE]}, {[Files EXCEPT !.baseline = TRUE]} >>
=============================================================================
