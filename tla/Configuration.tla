---------------------------- MODULE Configuration ----------------------------
(***************************************************************************)
(* What evals.yaml may say (evalcore-config), what is built from it        *)
(* (build_target_with, build_scorers), the request a target then sends for *)
(* an input, and the identity under which the answer is recorded           *)
(* (Target::cache_identity).                                               *)
(*                                                                         *)
(* A user edits the file between runs; `recording` remembers the targets   *)
(* of the run that filled the cassette.  Strings are abstracted to what    *)
(* the checks tell apart: a name is its lowercase word and whether it was  *)
(* written so, a template where it holds {{input}}, a URL its base, scheme *)
(* and trailing slash.  Floats are integers, One of which make 1.0, or Nan *)
(* for those that are not finite.  Which of several mistakes is reported   *)
(* first is left out.                                                      *)
(***************************************************************************)
EXTENDS Integers, Sequences, FiniteSets, Functions

CONSTANTS
  Unset,        \* an optional field that is left out
  Nan,          \* a float that is not finite
  One,          \* the float 1.0
  Inputs,       \* inputs of cases
  Drafts,       \* what a session starts with
  TargetTexts,  \* what may be written under a target's name
  ScorerTexts,  \* what may be written as the list of scorers
  RunTexts,     \* what may be written under `run:`
  MaxEdits      \* bound on the edits of a session

ASSUME OneAssumption == One \in Nat \ {0}

(* What the structs of the file hold once it is read.                      *)
WrittenTarget(t) ==
  /\ "type" \in DOMAIN t /\ t.type \in {"shell", "trace", "openai", "http"}
  /\ t.type = "openai" => {"url", "model", "system", "params"} \subseteq DOMAIN t
  /\ t.type = "http" => /\ {"url", "method", "headers", "body", "path"} \subseteq DOMAIN t
                        /\ "input" \in DOMAIN t.url
WrittenRun(run) ==
  \A k \in DOMAIN run.gates : run.gates[k].min \in Int \cup {Nan}
WrittenConfig(c) ==
  /\ {"targets", "scorers", "run"} \subseteq DOMAIN c
  /\ \A name \in DOMAIN c.targets : WrittenTarget(c.targets[name])
  /\ WrittenRun(c.run)

ASSUME UnsetAssumption == Unset \notin {"openai", "http", "embeddings"}
ASSUME WrittenAssumption ==
  /\ \A t \in TargetTexts : WrittenTarget(t)
  /\ \A run \in RunTexts : WrittenRun(run)
  /\ \A draft \in Drafts : WrittenConfig(draft)

VARIABLES
  config,     \* EvalConfig as written: targets by name, scorers, run
  env,        \* whether the environment variables with the keys are set
  recording,  \* the targets that filled the cassette, once a run has
  edits

configVars == <<config, env, recording, edits>>

-----------------------------------------------------------------------------
(* EvalConfig::validate. *)

Below(a, b) == a # Nan /\ a < b
Within(x, low, high) == x # Nan /\ low <= x /\ x <= high

RatesOk(cost) == cost # Unset => ~Below(cost, 0)

Reserved == {"model", "messages", "stream"}

(* The header the key rides in, and the static ones, in lowercase.         *)
AuthName(t) == IF t.authHeader = Unset THEN "authorization" ELSE t.authHeader.word
StaticNames(t) == {name.word : name \in DOMAIN t.headers}

HeaderClashSlip(t) ==
  LET AsWritten == {name.word : name \in {n \in DOMAIN t.headers : n.lower}}
  IN t.key # Unset /\ AuthName(t) \in AsWritten
HeaderClash(t) == t.key # Unset /\ AuthName(t) \in StaticNames(t)

ValidHttp(t) ==
  /\ t.url.scheme = "http"
  /\ t.method.word \in {"get", "post", "put", "patch"}
  /\ t.method.word = "get" => t.body = Unset
  /\ \/ t.url.input
     \/ t.body # Unset /\ (t.body.inKey \/ t.body.inValue)
  /\ t.key = Unset => t.authHeader = Unset /\ t.authPrefix = Unset
  /\ ~HeaderClash(t)
  /\ t.path # Unset => t.path.slash

ValidTarget(t) ==
  CASE t.type = "shell" -> TRUE
    [] t.type = "trace" -> RatesOk(t.cost)
    [] t.type = "openai" -> /\ t.timeout >= 1
                            /\ DOMAIN t.params \cap Reserved = {}
                            /\ RatesOk(t.cost)
    [] t.type = "http" -> t.timeout >= 1 /\ ValidHttp(t)

(* Thresholds of a judge are the factory's business, not validation's.     *)
ValidScorer(s) ==
  CASE s.type = "json-schema" -> s.schema # "empty"
    [] s.type = "similarity" -> s.url # "empty" /\ Within(s.threshold, -One, One)
    [] s.type = "judge" -> RatesOk(s.cost)
    [] OTHER -> TRUE

ValidGate(g, scorers) ==
  IF g.type = "mean_score"
  THEN /\ g.min # Nan
       /\ g.scorer # Unset => \E j \in DOMAIN scorers : scorers[j].type = g.scorer
  ELSE Within(g.min, 0, One)   \* pass_rate, accuracy, macro_f1

(* validate_matrix_names: two or more, all different, all defined.         *)
ValidMatrix(names, targets) ==
  /\ Len(names) >= 2
  /\ IsInjective(names)
  /\ Range(names) \subseteq DOMAIN targets

(* deserialize_trials: `trials: n` is n trials with `require: all`.        *)
Trials(run) ==
  [count |-> run.trials.count,
   require |-> IF run.trials.short THEN "all" ELSE run.trials.require]

ValidRun(run) ==
  /\ run.concurrency # 0
  /\ Trials(run).count >= 1
  /\ run.budget # Unset => ~(run.budget # Nan /\ run.budget <= 0)

Valid(c) ==
  /\ DOMAIN c.targets # {}
  /\ c.run.datasets # 0
  /\ c.scorers # <<>>
  /\ ValidRun(c.run)
  /\ \A name \in DOMAIN c.targets : ValidTarget(c.targets[name])
  /\ \A j \in DOMAIN c.scorers : ValidScorer(c.scorers[j])
  /\ \A k \in DOMAIN c.run.gates : ValidGate(c.run.gates[k], c.scorers)
  /\ c.run.matrix # Unset => ValidMatrix(c.run.matrix, c.targets)

-----------------------------------------------------------------------------
(* The factories. *)

HasKey(x) == "key" \in DOMAIN x /\ x.key # Unset

(* resolve_api_key: only replay does without the variable.                 *)
KeyResolves(x, secrets) == HasKey(x) /\ secrets = "require" => env

ScorerBuilds(s, secrets) ==
  CASE s.type = "regex" -> s.pattern = "compiles"
    [] s.type = "trajectory" -> s.rules > 0
    [] s.type = "judge" -> Within(s.threshold, 0, One) /\ KeyResolves(s, secrets)
    [] s.type = "json-schema" -> s.schema = "compiles"
    [] s.type = "similarity" -> KeyResolves(s, secrets)
    [] OTHER -> TRUE

ScorersBuildSlip(c, secrets) ==
  \A j \in DOMAIN c.scorers : c.scorers[j].type = "judge" \/ ScorerBuilds(c.scorers[j], secrets)
ScorersBuild(c, secrets) ==
  \A j \in DOMAIN c.scorers : ScorerBuilds(c.scorers[j], secrets)

(* The targets of one run: all of a matrix, or the one that is selected.   *)
ArmsOf(c) ==
  IF c.run.matrix = Unset THEN {{name} : name \in DOMAIN c.targets}
  ELSE {Range(c.run.matrix)}

(* A run of these arms with these secrets gets to its first case.          *)
Runnable(c, arms, secrets) ==
  /\ Valid(c)
  /\ \A name \in arms : KeyResolves(c.targets[name], secrets)
  /\ ScorersBuild(c, secrets)

-----------------------------------------------------------------------------
(* Requests and identities. *)

Cached(t) == t.type \in {"openai", "http", "embeddings"}

(* with_headers: names in lowercase.  Of two spellings of a name the last  *)
(* in byte order stays, which is the lowercase one.                        *)
StaticHeaders(t) ==
  [w \in StaticNames(t) |->
     LET lower == [word |-> w, lower |-> TRUE]
         title == [word |-> w, lower |-> FALSE]
     IN t.headers[IF lower \in DOMAIN t.headers THEN lower ELSE title]]

(* Static headers are sent as they are; the key gets a line of its own.    *)
HeaderLines(t) ==
  {<<w, StaticHeaders(t)[w]>> : w \in StaticNames(t)}
  \cup (IF t.body # Unset /\ "content-type" \notin StaticNames(t)
        THEN {<<"content-type", "json">>} ELSE {})

(* substitute_body touches string values, never keys.                      *)
Filled(body, input) ==
  IF body = Unset THEN Unset
  ELSE [shape |-> body.shape, key |-> body.inKey,
        value |-> IF body.inValue THEN input ELSE Unset]

HttpRequest(t, input) ==
  [to |-> [t.url EXCEPT !.input = IF @ THEN input ELSE Unset],
   method |-> t.method.word,
   lines |-> HeaderLines(t),
   body |-> Filled(t.body, input)]

(* request_body: the params are laid over model and messages.              *)
ChatRequest(t, input) ==
  [to |-> t.url.base,
   body |-> [f \in DOMAIN t.params \cup {"model", "messages"} |->
               CASE f \in DOMAIN t.params -> t.params[f]
                 [] f = "model" -> t.model
                 [] f = "messages" -> <<t.system, input>>]]

(* What is sent for an input, the key apart, and what of the response is   *)
(* the answer.                                                             *)
Exchange(t, input) ==
  CASE t.type = "openai" -> [send |-> ChatRequest(t, input), read |-> "content"]
    [] t.type = "http" -> [send |-> HttpRequest(t, input), read |-> t.path]
    [] t.type = "embeddings" ->
         [send |-> [to |-> t.url.base, model |-> t.model, text |-> input],
          read |-> "embedding"]

(* Fields that are left out are left out of the identity too.              *)
Present(fields) == Restrict(fields, {f \in DOMAIN fields : fields[f] # Unset})

HttpIdentitySlip(t) ==
  Present([url |-> t.url, method |-> t.method.word, body |-> t.body,
           path |-> t.path])
HttpIdentity(t) ==
  Present([url |-> t.url, method |-> t.method.word, body |-> t.body,
           headers |-> StaticHeaders(t), path |-> t.path])

ChatIdentity(t) ==
  Present([type |-> t.type, url |-> t.url, model |-> t.model, system |-> t.system,
           params |-> t.params])

EmbeddingsIdentity(t) == [type |-> t.type, url |-> t.url, model |-> t.model]

Identity(t) ==
  CASE t.type = "http" -> HttpIdentity(t)
    [] t.type = "openai" -> ChatIdentity(t)
    [] t.type = "embeddings" -> EmbeddingsIdentity(t)

(* The targets that scorers call: a judge a chat target without system     *)
(* prompt or params, similarity an embeddings target; its url and model    *)
(* are the scorer's, everything else default.                              *)
ScorerTarget(s) ==
  IF s.type = "judge"
  THEN [type |-> "openai", url |-> s.endpoint, model |-> s.model, key |-> s.key,
        timeout |-> 120, cost |-> Unset, system |-> Unset, params |-> <<>>]
  ELSE [type |-> "embeddings", url |-> s.endpoint, model |-> s.model, key |-> s.key,
        timeout |-> 120]

(* Every target whose calls a run of c records.                            *)
Callees(c, arms) ==
  {t \in {c.targets[name] : name \in arms} : Cached(t)} \cup
  {ScorerTarget(c.scorers[j]) :
     j \in {k \in DOMAIN c.scorers : c.scorers[k].type \in {"judge", "similarity"}}}

-----------------------------------------------------------------------------
(* A session of edits and runs. *)

ConfigInit ==
  /\ config \in Drafts
  /\ env \in BOOLEAN
  /\ recording = {}
  /\ edits = 0

Edit(c) ==
  /\ edits < MaxEdits
  /\ config' = c
  /\ edits' = edits + 1
  /\ UNCHANGED <<env, recording>>

EditTarget(t) == Edit([config EXCEPT !.targets = [a |-> t]])
AddTarget(t) ==
  /\ DOMAIN config.targets = {"a"}
  /\ Edit([config EXCEPT !.targets = [a |-> config.targets.a, b |-> t]])
EditScorers(list) == Edit([config EXCEPT !.scorers = list])
EditRun(run) == Edit([config EXCEPT !.run = run])

(* A live run that records.                                                *)
RecordRun ==
  /\ recording = {}
  /\ \E arms \in ArmsOf(config) :
       /\ Runnable(config, arms, "require")
       /\ recording' = Callees(config, arms)
  /\ UNCHANGED <<config, env, edits>>

ConfigNext ==
  \/ \E t \in TargetTexts : EditTarget(t) \/ AddTarget(t)
  \/ \E list \in ScorerTexts : EditScorers(list)
  \/ \E run \in RunTexts : EditRun(run)
  \/ RecordRun

-----------------------------------------------------------------------------

(* What only changes how a target is called, paid or authorised: "they     *)
(* change how we call and account, not what the model would answer".       *)
Tuned(t) ==
  Restrict(t, DOMAIN t \ {"key", "authHeader", "authPrefix", "retries", "timeout", "cost"})

(* However the file is edited between recording and replay: an answer is   *)
(* replayed only for the request it was the answer to, read the same way,  *)
(* whichever target or scorer asked; and edits of keys, timeouts, retries  *)
(* and prices lose no recording.                                           *)
RecordingFits ==
  \A arms \in ArmsOf(config) : Runnable(config, arms, "optional") =>
    \A was \in recording, now \in Callees(config, arms) :
      /\ Identity(was) = Identity(now) =>
           \A input \in Inputs : Exchange(was, input) = Exchange(now, input)
      /\ Tuned(was) = Tuned(now) => Identity(was) = Identity(now)

(* "Without an {{input}} anchor every case would send an identical         *)
(* request": an accepted target sends different requests for different     *)
(* inputs (unless the anchor is in a key of the body, see README), asks    *)
(* the model that was named, and sends its key in a header no other line   *)
(* uses (unless that is the content type of a body, see README).           *)
RequestsAreMeant ==
  \A arms \in ArmsOf(config) : Runnable(config, arms, "require") =>
    \A t \in Callees(config, arms) :
      /\ t.type = "http" /\ t.key # Unset =>
           \A line \in HeaderLines(t) : line[1] = AuthName(t) =>
             line = <<"content-type", "json">> /\ "content-type" \notin StaticNames(t)
      /\ t.type = "openai" =>
           \A input \in Inputs : LET sent == Exchange(t, input).send.body IN
             sent.model = t.model /\ sent.messages = <<t.system, input>>
      /\ \A i, j \in Inputs : Exchange(t, i) = Exchange(t, j) =>
           i = j \/ (t.type = "http" /\ t.body # Unset /\ t.body.inKey)

(* The verdict of a scorer that gives 1.0, and a gate over nothing but     *)
(* passes, one label and scores of 1.0.                                    *)
FullMarksPass(s) ==
  CASE s.type \in {"judge", "similarity"} -> s.threshold # Nan /\ One >= s.threshold
    [] s.type = "trajectory" -> s.rules > 0
    [] OTHER -> TRUE

GateOverFullMarks(g, scorers) ==
  /\ g.min # Nan
  /\ g.type = "mean_score" /\ g.scorer # Unset =>
       \E j \in DOMAIN scorers : scorers[j].type = g.scorer
  /\ One >= g.min

(* A configuration that gets past validation and the factories can be      *)
(* satisfied: a run of full marks passes every scorer and every gate       *)
(* (a mean_score floor above 1.0 is for scorers with scales of their own). *)
FullMarksAreAccepted ==
  Valid(config) /\ ScorersBuild(config, "optional") =>
    /\ \A j \in DOMAIN config.scorers : FullMarksPass(config.scorers[j])
    /\ \A k \in DOMAIN config.run.gates : LET g == config.run.gates[k] IN
         \/ g.type = "mean_score" /\ g.min > One
         \/ GateOverFullMarks(g, config.scorers)
=============================================================================
