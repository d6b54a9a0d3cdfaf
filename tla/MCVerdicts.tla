------------------------------ MODULE MCVerdicts ------------------------------
(* Verdicts on small instances.                                            *)
EXTENDS Verdicts

(* A pass and a fail that were paid for; a scorer's error is free.         *)
MCScores ==
  {[value |-> 3, passed |-> TRUE, cost |-> 1],
   [value |-> 1, passed |-> FALSE, cost |-> 3]}

MCTargetCosts == {NoCost, 2}

(* Errored cases of every label and of none; cases of two labels, answered *)
(* with either or with neither, the last passing or not; unlabeled ones.   *)
MCCaseKinds ==
  LET Errored == [expected : Labels \cup {Absent}, predicted : {Absent},
                  passed : {FALSE}, value : {Absent}]
      Scored(expected, predicted, passed, values) ==
        [expected : expected, predicted : predicted,
         passed : passed, value : values]
  IN Errored
     \cup Scored({"x", "y"}, Labels, {TRUE}, {2})
     \cup Scored({"x", "y"}, {"other"}, {FALSE}, {0})
     \cup Scored({Absent}, {"x"}, {TRUE, FALSE}, {1})

(* The agent, a model and two tools: alone at the top of a flat export, or *)
(* below the agent, which the export may lack; with or without timestamps. *)
MCSpans ==
  LET Timed(kind, length) ==
        {[s EXCEPT !.end = IF s.start = Missing THEN Missing ELSE s.start + length] :
           s \in kind}
      Agent == [id : {"agent"}, parent : {Missing}, start : {Missing, 1, 3},
                end : {0}, tool : {Missing}, answer : {Missing, "done"},
                tokens : {Missing}]
      Model == [id : {"model"}, parent : {Missing, "agent"},
                start : {Missing, 1, 2}, end : {0}, tool : {Missing},
                answer : {"thought"}, tokens : {1}]
      Tool == [id : {"tool"}, parent : {Missing, "agent"},
               start : {Missing, 2, 4}, end : {0}, tool : {"search", "refund"},
               answer : {"hit"}, tokens : {Missing}]
  IN Timed(Agent, 4) \cup Timed(Model, 1) \cup Timed(Tool, 1)

MCFloors == {<<1, 4>>, <<1, 3>>, <<1, 2>>, <<2, 3>>, <<3, 4>>, <<1, 1>>}

(* Cases asked in the same words, with and without expectation and context.*)
MCWord(word) == [word |-> word, upper |-> FALSE]
MCUpper(word) == [word |-> word, upper |-> TRUE]
MCText(words, matches, breaches) == [words |-> words, matches |-> matches, breaches |-> breaches]
MCParis == MCText(<<MCUpper("paris")>>, TRUE, {1, 2, 3, 4})
MCNumber == MCText(<<MCWord("4")>>, FALSE, {})
MCGradedCases ==
  {[input |-> "q", expected |-> None, context |-> None],
   [input |-> "q", expected |-> None, context |-> "chunk"],
   [input |-> "q", expected |-> [string |-> TRUE, text |-> MCParis], context |-> None]}
MCJudgeReplies ==
  {[fence |-> "closed", says |-> 10], [fence |-> "none", says |-> 3],
   [fence |-> "none", says |-> 11]}
MCEmbeddings ==
  {[length |-> 2, angle |-> 0, lost |-> 1],
   [length |-> 3, angle |-> 0, lost |-> 0], [length |-> 2, angle |-> None, lost |-> 0]}
MCOutputs == {MCParis, MCNumber}

(* Targets of every type and with every kind of mistake, most of them one  *)
(* or two fields away from each other.                                     *)
MCUrl == [base |-> "host", scheme |-> "http", input |-> FALSE, slash |-> FALSE]
MCAnchored == [MCUrl EXCEPT !.input = TRUE]
MCName(word) == [word |-> word, lower |-> TRUE]
MCTitle(word) == [word |-> word, lower |-> FALSE]
MCBody(inKey, inValue) == [shape |-> "chat", inKey |-> inKey, inValue |-> inValue]
MCHttp ==
  [type |-> "http", url |-> MCAnchored, method |-> MCTitle("post"), headers |-> <<>>,
   key |-> Unset, authHeader |-> Unset, authPrefix |-> Unset, retries |-> 2,
   timeout |-> 120, body |-> Unset, path |-> Unset]
MCChat ==
  [type |-> "openai", url |-> MCUrl, model |-> "m1", key |-> Unset, retries |-> 2,
   timeout |-> 120, cost |-> Unset, system |-> Unset, params |-> <<>>]
MCHttpTexts ==
  {[MCHttp EXCEPT !.url = url, !.body = body, !.path = path] :
     url \in {MCUrl, MCAnchored},
     body \in {Unset, MCBody(FALSE, FALSE), MCBody(TRUE, FALSE), MCBody(FALSE, TRUE)},
     path \in {Unset, [slash |-> TRUE, field |-> "answer"]}}
  \cup
  {[MCHttp EXCEPT !.headers = headers, !.key = key, !.authHeader = header] :
     headers \in {MCName("tenant") :> "a", MCName("tenant") :> "b",
                  MCTitle("authorization") :> "a", MCName("x-api-key") :> "a"},
     key \in {Unset, "KEY"}, header \in {Unset, MCTitle("x-api-key")}}
  \cup
  {[MCHttp EXCEPT !.key = "KEY", !.authHeader = MCTitle("content-type"), !.body = MCBody(FALSE, TRUE)]}
  \cup
  {[MCHttp EXCEPT !.method = MCName("get")],
   [MCHttp EXCEPT !.method = MCName("delete")],
   [MCHttp EXCEPT !.method = MCName("get"), !.body = MCBody(FALSE, TRUE)],
   [MCHttp EXCEPT !.headers = MCName("tenant") :> "a" @@ MCTitle("tenant") :> "b"],
   [MCHttp EXCEPT !.headers = MCName("content-type") :> "text", !.body = MCBody(FALSE, TRUE)],
   [MCHttp EXCEPT !.url.scheme = "other"],
   [MCHttp EXCEPT !.path = [slash |-> FALSE, field |-> "answer"]],
   [MCHttp EXCEPT !.authPrefix = ""],
   [MCHttp EXCEPT !.timeout = 0],
   [MCHttp EXCEPT !.timeout = 7, !.retries = 9]}
MCChatTexts ==
  {[MCChat EXCEPT !.model = model, !.system = system, !.params = params] :
     model \in {"m1", "m2"}, system \in {Unset, "brief"},
     params \in {<<>>, "temperature" :> "cold", "temperature" :> "hot", "model" :> "m2"}}
  \cup
  {[MCChat EXCEPT !.url.slash = TRUE], [MCChat EXCEPT !.key = "KEY", !.cost = 1],
   [MCChat EXCEPT !.cost = -1], [MCChat EXCEPT !.timeout = 0]}
MCTargetTexts ==
  MCHttpTexts \cup MCChatTexts
  \cup {[type |-> "shell"], [type |-> "trace", cost |-> 1], [type |-> "trace", cost |-> -1]}

(* A judge and similarity that share an endpoint with the chat targets.    *)
MCJudge == [type |-> "judge", endpoint |-> MCUrl, model |-> "m1", key |-> Unset,
            threshold |-> 1, cost |-> Unset]
MCSimilarity == [type |-> "similarity", url |-> "host", endpoint |-> MCUrl, model |-> "m1",
                 key |-> Unset, threshold |-> 2]
MCContains == [type |-> "contains"]
MCScorerTexts ==
  {<<>>, <<MCContains>>, <<MCContains, MCJudge>>, <<MCSimilarity>>}
  \cup {<<[MCJudge EXCEPT !.threshold = x]>> : x \in {-1, 0, 2, 3, Nan}}
  \cup {<<[MCSimilarity EXCEPT !.threshold = x]>> : x \in {-3, -2, 3, Nan}}
  \cup {<<[MCJudge EXCEPT !.cost = -1]>>, <<[MCJudge EXCEPT !.key = "KEY", !.cost = 1]>>,
        <<[MCSimilarity EXCEPT !.url = "empty"]>>}
  \cup {<<[type |-> "regex", pattern |-> x]>> : x \in {"compiles", "broken"}}
  \cup {<<[type |-> "trajectory", rules |-> n]>> : n \in {0, 1}}
  \cup {<<[type |-> "json-schema", schema |-> x]>> : x \in {"empty", "broken", "compiles"}}

MCTrials(short, n, policy) == [short |-> short, count |-> n, require |-> policy]
MCRun == [datasets |-> 1, concurrency |-> 4, trials |-> MCTrials(TRUE, 1, "all"), budget |-> Unset,
          gates |-> <<>>, matrix |-> Unset]
MCRunTexts ==
  {[MCRun EXCEPT !.gates = <<[type |-> type, min |-> min]>>] :
     type \in {"pass_rate", "accuracy", "macro_f1"}, min \in {-1, 0, 2, 3, Nan}}
  \cup
  {[MCRun EXCEPT !.gates = <<[type |-> "mean_score", scorer |-> scorer, min |-> min]>>] :
     scorer \in {Unset, "contains", "judge"}, min \in {-1, 2, 3, Nan}}
  \cup {[MCRun EXCEPT !.matrix = names] :
          names \in {<<"a">>, <<"a", "a">>, <<"a", "b">>, <<"b", "c">>}}
  \cup {[MCRun EXCEPT !.trials = x] :
          x \in [short : BOOLEAN, count : {0, 3}, require : {"all", "any"}]}
  \cup {[MCRun EXCEPT !.budget = x] : x \in {-1, 0, 1, Nan}}
  \cup {MCRun, [MCRun EXCEPT !.concurrency = 0], [MCRun EXCEPT !.datasets = 0]}

MCDraft == [targets |-> [a |-> MCChat], scorers |-> <<MCContains>>, run |-> MCRun]
MCDrafts ==
  {[MCDraft EXCEPT !.targets = [a |-> t]] : t \in MCTargetTexts}
  \cup {[MCDraft EXCEPT !.targets = <<>>]}
  \cup {[MCDraft EXCEPT !.scorers = <<MCJudge>>],
        [MCDraft EXCEPT !.scorers = <<MCSimilarity>>],
        [MCDraft EXCEPT !.scorers = <<MCJudge>>,
           !.run.gates = <<[type |-> "mean_score", scorer |-> "judge", min |-> 2]>>],
        [MCDraft EXCEPT !.targets = [a |-> MCChat, b |-> MCHttp],
                        !.run.matrix = <<"b", "a">>]}

(* Results as the engine folds them: passing and failing with one trial or *)
(* two, flaky ones of both verdicts, a score without a reason, errors.     *)
MCScore(scorer, passed, reason) ==
  [scorer |-> scorer, passed |-> passed, reason |-> reason,
   value |-> IF passed THEN 2 ELSE 0]
MCTrial(passed) ==
  [passed |-> passed, error |-> FALSE, scores |-> <<MCScore("exact", passed, ~passed)>>]
MCErroredTrial == [passed |-> FALSE, error |-> TRUE, scores |-> <<>>]
MCKind(scores, list) == [error |-> FALSE, scores |-> scores, trials |-> list]
MCResultKinds ==
  {MCKind(<<MCScore("exact", TRUE, FALSE), MCScore("judge", TRUE, TRUE)>>, NoTrials),
   MCKind(<<MCScore("exact", FALSE, TRUE), MCScore("judge", FALSE, FALSE)>>, NoTrials),
   MCKind(<<MCScore("exact", TRUE, FALSE), MCScore("judge", FALSE, FALSE)>>, NoTrials),
   MCKind(<<MCScore("exact", TRUE, FALSE)>>, <<MCTrial(TRUE), MCTrial(TRUE)>>),
   MCKind(<<MCScore("exact", TRUE, FALSE)>>, <<MCTrial(FALSE), MCTrial(TRUE)>>),
   MCKind(<<MCScore("exact", FALSE, FALSE)>>, <<MCTrial(TRUE), MCErroredTrial>>),
   [error |-> TRUE, scores |-> <<>>, trials |-> NoTrials],
   [error |-> TRUE, scores |-> <<>>, trials |-> <<MCErroredTrial, MCErroredTrial>>]}
MCOtherKinds ==
  {MCKind(<<MCScore("exact", TRUE, FALSE)>>, NoTrials),
   [error |-> TRUE, scores |-> <<>>, trials |-> NoTrials]}
MCGateLists ==
  {<<>>, <<[gate |-> "pass_rate", passed |-> TRUE], [gate |-> "accuracy", passed |-> FALSE]>>}

(* Summaries of a page: empty, all passed, one of two.                     *)
MCSummaries == {<<>>, <<TRUE>>, <<TRUE, FALSE>>}
=============================================================================
