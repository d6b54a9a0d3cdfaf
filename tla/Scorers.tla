------------------------------- MODULE Scorers -------------------------------
(***************************************************************************)
(* The scorers that need no process: exact, contains, regex, json-schema,  *)
(* judge and similarity (src/crates/evalcore-scorers/src).  Outputs of     *)
(* cases are graded, in trials, by processes that share the store and each *)
(* have a cache mode.  judge and similarity ask over the network, through  *)
(* CachedTarget: a grading is in flight from its first call to its last    *)
(* reply, others move in between, and replies are kept in the cassette     *)
(* under the request and the trial.  (LiveCall has the call, RecordReplay  *)
(* the runs.)  A process may be killed: its gradings then never go on.     *)
(*                                                                         *)
(* A text is its words, each with its case, whether the pattern matches    *)
(* it, and where it breaks the schema.  Scores are integers, Full of which *)
(* make 1.0; an embedding is its length, its direction in degrees and what *)
(* rounding takes off a cosine.  Prices and wording are left out.          *)
(***************************************************************************)
EXTENDS Integers, Sequences, FiniteSets, SequencesExt, FiniteSetsExt

CONSTANTS
  GradedCases,     \* records of input, expected and context
  Outputs,         \* texts that targets answer
  Wanted,          \* the inline `value` of exact and contains, a text
  Rubrics,         \* of the judges configured
  JudgeReplies,    \* what a judge may reply: its fence, its words
  Embeddings,      \* what the embeddings endpoint may reply
  JudgeThreshold,
  SimThreshold,
  Full,            \* the score 1.0
  Rounding,        \* THRESHOLD_TOLERANCE, which rounding stays below
  None,            \* no expected, no context, no JSON, or no direction
  Failed,          \* instead of the reply to a call that failed
  TrialsGraded,    \* the trial indices in use
  CacheModes,      \* the cache modes in use
  MaxGrades        \* bound on the gradings

ASSUME RoundingAssumption ==
  Rounding \in Nat /\ \A v, w \in Embeddings : v.lost + w.lost \in 0 .. Rounding
ASSUME RepliesAssumption ==
  /\ Failed \notin JudgeReplies \cup Embeddings
  /\ \A v \in Embeddings : v.angle \in Int \cup {None} /\ v.lost \in Nat
ASSUME CasesAssumption ==
  \A c \in GradedCases : c = [input |-> c.input, expected |-> c.expected, context |-> c.context]
ASSUME TextsAssumption ==
  /\ \A text \in Outputs \cup {Wanted} : text.words \in Seq(Range(text.words))
  /\ \A text \in Outputs : text.breaches = None \/ IsFiniteSet(text.breaches)
ASSUME CacheModesAssumption == CacheModes \subseteq {"auto", "replay", "live", "off"}
ASSUME ThresholdAssumption == Full \in Nat /\ JudgeThreshold \in 0 .. Full /\ SimThreshold \in -Full .. Full

VARIABLES
  cassette,   \* the llm_cache table: <<request, trial>> -> reply
  grades      \* the gradings, in the order they began

scorerVars == <<cassette, grades>>

(* A score, or the Err that the engine turns into a failing one.           *)
Err == [err |-> TRUE]
Grade(value, passed, reason) ==
  [err |-> FALSE, value |-> value, passed |-> passed, reason |-> reason]
PassFail(passed) ==
  Grade(IF passed THEN Full ELSE 0, passed, IF passed THEN "" ELSE "differs")

-----------------------------------------------------------------------------
(* Scorers of the text alone. *)

(* `expected` as a text: a JSON string verbatim, anything else serialized. *)
AsText(expected) == expected.text

ExactOf(inline, case, output) ==
  IF inline THEN PassFail(output = Wanted)
  ELSE PassFail(case.expected # None /\ output = AsText(case.expected))

InLower(words) == [k \in DOMAIN words |-> [words[k] EXCEPT !.upper = FALSE]]

ContainsOf(sensitive, output) ==
  PassFail(IF sensitive THEN Wanted.words \in SubSeqs(output.words)
           ELSE InLower(Wanted.words) \in SubSeqs(InLower(output.words)))

RegexOf(output) == PassFail(output.matches)

(* The breaches, found in some order, are sorted, and up to three named.   *)
SchemaOf(output, found) ==
  IF output.breaches = None THEN PassFail(FALSE)
  ELSE IF found = <<>> THEN PassFail(TRUE)
  ELSE Grade(0, FALSE, SubSeq(SetToSortSeq(Range(found), <), 1, Min({3, Len(found)})))

-----------------------------------------------------------------------------
(* Scorers that ask. *)

PromptSlip(rubric, case, output) ==
  [rubric |-> rubric, input |-> case.input, expected |-> case.expected, output |-> output]

(* JudgeScorer::prompt: the sections there are, `expected` as JSON.        *)
Prompt(rubric, case, output) ==
  [rubric |-> rubric, input |-> case.input, expected |-> case.expected,
   context |-> case.context, output |-> output]

(* strip_fences needs both fences; the rest must parse as a verdict.       *)
Usable(reply) ==
  /\ reply # Failed
  /\ reply.fence # "open"
  /\ reply.says # None
  /\ reply.says \in 0 .. Full

JudgeOf(reply) ==
  IF Usable(reply)
  THEN Grade(reply.says, reply.says >= JudgeThreshold, "own") ELSE Err

(* Cosines of the angles that embeddings are apart by.                     *)
Cosine(v, w) ==
  LET apart == (v.angle - w.angle) % 360
      exact == CASE apart = 0 -> Full
                 [] apart \in {60, 300} -> Full \div 2
                 [] apart \in {90, 270} -> 0
                 [] apart \in {120, 240} -> -(Full \div 2)
                 [] apart = 180 -> -Full
  IN exact - v.lost - w.lost

ClearsSlip(score) == score >= SimThreshold
Clears(score) == score >= SimThreshold - Rounding

SimilarityOf(v, w) ==
  IF Failed \in {v, w} THEN Err
  ELSE IF v.length # w.length THEN Grade(0, FALSE, "dimensions")
  ELSE IF None \in {v.angle, w.angle} THEN Grade(0, FALSE, "no direction")
  ELSE Grade(Cosine(v, w), Clears(Cosine(v, w)),
             IF Clears(Cosine(v, w)) THEN "" ELSE "below")

(* What is asked for, one call after the other: judge has one prompt, and  *)
(* similarity embeds the expectation and then the output.                  *)
Requests(scorer, case, output) ==
  IF scorer[1] = "judge" THEN <<<<"chat", Prompt(scorer[2], case, output)>>>>
  ELSE <<<<"embed", AsText(case.expected)>>, <<"embed", output>>>>

GradeOf(scorer, heard) ==
  IF scorer[1] = "judge" THEN JudgeOf(heard[1])
  ELSE IF Failed \in Range(heard) THEN Err
  ELSE SimilarityOf(heard[1], heard[2])

-----------------------------------------------------------------------------
(* Gradings in flight.  One is about to invoke CachedTarget ("lookup"), in *)
(* a live call ("live"), or "done".                                        *)

Grading(scorer, case, output, trial, mode) ==
  [scorer |-> scorer, case |-> case, output |-> output, trial |-> trial, mode |-> mode,
   at |-> "lookup", heard |-> <<>>, from |-> "nobody", stale |-> FALSE, grade |-> None]

(* The canonical request of call c, salted with the trial (trial 0 stands  *)
(* for the key without a salt).                                            *)
KeyOf(g, c) == <<Requests(g.scorer, g.case, g.output)[c], g.trial>>
NextKey(g) == KeyOf(g, Len(g.heard) + 1)
KeysHeard(g) == {KeyOf(g, c) : c \in DOMAIN g.heard}

(* A reply ends the grading if it is the last, or none.                    *)
Hear(g, reply, from) ==
  LET heard == Append(g.heard, reply)
      over == reply = Failed \/ Len(heard) = Len(Requests(g.scorer, g.case, g.output))
  IN [g EXCEPT !.heard = heard, !.from = from,
               !.at = IF over THEN "done" ELSE "lookup",
               !.grade = IF over THEN GradeOf(g.scorer, heard) ELSE None]

(* CachedTarget::invoke up to its first await, or the target itself if the *)
(* cache is off: a hit, a lookup that fails (in replay, a miss too), or a  *)
(* live call.                                                              *)
Invoked(g) ==
  LET looks == g.mode \in {"auto", "replay"}
      hit == looks /\ NextKey(g) \in DOMAIN cassette
  IN (IF hit THEN {Hear(g, cassette[NextKey(g)], "cassette")} ELSE {})
     \cup (IF looks THEN {Hear(g, Failed, "failed")} ELSE {})
     \cup (IF ~hit /\ g.mode # "replay" THEN {[g EXCEPT !.at = "live"]} ELSE {})

ScorersInit == cassette = <<>> /\ grades = <<>>

Plain(scorer, case, output, grade) ==
  /\ grades' = Append(grades, [Grading(scorer, case, output, 0, "none") EXCEPT
                                !.at = "done", !.grade = grade])
  /\ UNCHANGED cassette

PlainScore(case, output) ==
  \/ \E inline \in BOOLEAN :
       Plain(<<"exact", inline>>, case, output, ExactOf(inline, case, output))
  \/ \E sensitive \in BOOLEAN :
       Plain(<<"contains", sensitive>>, case, output, ContainsOf(sensitive, output))
  \/ Plain(<<"regex">>, case, output, RegexOf(output))
  \/ \E found \in SetToSeqs(IF output.breaches = None THEN {} ELSE output.breaches) :
       Plain(<<"json-schema">>, case, output, SchemaOf(output, found))
  \/ /\ case.expected = None
     /\ Plain(<<"similarity">>, case, output, Grade(0, FALSE, "no expected"))

Begin(scorer, case, output, trial, mode) ==
  /\ \E g \in Invoked(Grading(scorer, case, output, trial, mode)) : grades' = Append(grades, g)
  /\ UNCHANGED cassette

JudgeScore(rubric, case, output, trial, mode) == Begin(<<"judge", rubric>>, case, output, trial, mode)

SimilarityScore(case, output, trial, mode) ==
  case.expected # None /\ Begin(<<"similarity">>, case, output, trial, mode)

(* The second call: what the first has recorded may be replaced by now.    *)
Resume(n) ==
  /\ grades[n].at = "lookup"
  /\ \E g \in Invoked(grades[n]) : grades' = [grades EXCEPT ![n] = g]
  /\ UNCHANGED cassette

(* The live call answered: unless the cache is off the reply is recorded,  *)
(* whatever the lookup once found, and gradings that were told another are *)
(* not up to date any more.                                                *)
Answer(n, reply) ==
  LET g == grades[n]
      told == [grades EXCEPT ![n] = Hear(g, reply, "endpoint")]
  IN /\ g.at = "live"
     /\ IF g.mode = "off"
        THEN grades' = told /\ UNCHANGED cassette
        ELSE /\ cassette' = [k \in DOMAIN cassette \cup {NextKey(g)} |->
                                IF k = NextKey(g) THEN reply ELSE cassette[k]]
             /\ grades' = [m \in DOMAIN grades |->
                  [told[m] EXCEPT !.stale = @ \/ NextKey(g) \in KeysHeard(grades[m])]]

(* The call, or the recording of its answer, failed.                       *)
AnswerFails(n) ==
  /\ grades[n].at = "live"
  /\ grades' = [grades EXCEPT ![n] = Hear(@, Failed, "failed")]
  /\ UNCHANGED cassette

ScorersNext ==
  \/ /\ Len(grades) < MaxGrades
     /\ \E case \in GradedCases, output \in Outputs :
          \/ PlainScore(case, output)
          \/ \E trial \in TrialsGraded, mode \in CacheModes :
               \/ \E rubric \in Rubrics : JudgeScore(rubric, case, output, trial, mode)
               \/ SimilarityScore(case, output, trial, mode)
  \/ \E n \in DOMAIN grades :
       \/ Resume(n)
       \/ \E reply \in IF grades[n].scorer[1] = "judge" THEN JudgeReplies ELSE Embeddings :
            Answer(n, reply)
       \/ AnswerFails(n)

-----------------------------------------------------------------------------

SameGrading(a, b) ==
  a.scorer = b.scorer /\ a.case = b.case /\ a.output = b.output /\ a.trial = b.trial

(* A verdict that nothing recorded since contradicts.                      *)
Standing(g) == g.at = "done" /\ g.grade # Err /\ ~g.stale /\ g.mode # "off"

(* "Replayed verdicts are therefore deterministic": two verdicts of one    *)
(* scorer on one case and output in one trial are the same, reason too,    *)
(* whichever processes gave them and in whatever order their calls ran, if *)
(* no call failed and no other reply was recorded in their place since;    *)
(* and a verdict of judge from the cassette is one that it gave before, on *)
(* the same rubric, input, expectation, context, output and trial, when a  *)
(* process asked the endpoint and recorded the reply.                      *)
GradesStand ==
  \A n \in DOMAIN grades :
    /\ \A k \in DOMAIN grades :
         SameGrading(grades[k], grades[n]) /\ Standing(grades[k]) /\ Standing(grades[n]) =>
           grades[k].grade = grades[n].grade
    /\ grades[n].scorer[1] = "judge" /\ grades[n].from = "cassette" =>
         \E k \in DOMAIN grades :
           /\ SameGrading(grades[k], grades[n]) /\ grades[k].grade = grades[n].grade
           /\ grades[k].from = "endpoint" /\ grades[k].mode # "off"

(* An output that `exact` accepts is accepted by every laxer scorer of the *)
(* same text: by `contains` with and without case, if it equals the inline *)
(* value; by similarity at any threshold, if it equals `expected` (the two *)
(* read it alike, and the second of the two calls for one text is told by  *)
(* the cassette what the first was, rounding forgiven), unless a call      *)
(* failed, the embedding points nowhere, the cache is off, or another      *)
(* embedding of the text was recorded meanwhile: by another grading, or    *)
(* with --cache live by the second call itself.                            *)
ExactIsStrictest ==
  \A k, n \in DOMAIN grades :
    LET a == grades[k] b == grades[n] IN
    a.case = b.case /\ a.output = b.output /\ a.scorer[1] \in {"exact", "contains"} /\ a.grade.passed =>
      /\ a.scorer \in {<<"exact", TRUE>>, <<"contains", TRUE>>} /\ b.scorer[1] = "contains" =>
           b.grade.passed
      /\ a.scorer = <<"exact", FALSE>> /\ b.scorer = <<"similarity">> /\ Standing(b) =>
           b.grade.passed \/ b.grade.reason = "no direction"
=============================================================================
