----------------------------- MODULE SessionProofs -----------------------------
(***************************************************************************)
(* Proofs about what surrounds a run: its configuration, what it writes to *)
(* the terminal, the viewer, the scorers and the reports; and that every   *)
(* part of Verdicts follows the specification the theorems are about.      *)
(***************************************************************************)
EXTENDS Verdicts, VerdictProofs

ConfigSpec == ConfigInit /\ [][ConfigNext]_configVars

-----------------------------------------------------------------------------
(* Identities and exchanges. *)

(* Fields that are left out are the same in both or in neither.            *)
LEMMA PresentSame ==
  ASSUME NEW a, NEW b, Present(a) = Present(b)
  PROVE  /\ \A f \in DOMAIN a \cap DOMAIN b : a[f] = b[f]
         /\ \A f \in DOMAIN a : a[f] # Unset => f \in DOMAIN b
<1>1. /\ DOMAIN Present(a) = {f \in DOMAIN a : a[f] # Unset}
      /\ DOMAIN Present(b) = {f \in DOMAIN b : b[f] # Unset}
      /\ \A f \in DOMAIN Present(a) : Present(a)[f] = a[f]
      /\ \A f \in DOMAIN Present(b) : Present(b)[f] = b[f]
  BY DEF Present, Restrict
<1> QED
  BY <1>1

(* A target that a run records.                                            *)
Callee(t) ==
  \/ /\ t.type = "openai" /\ {"type", "url", "model", "system", "params"} \subseteq DOMAIN t
     /\ DOMAIN t.params \cap Reserved = {}
  \/ /\ t.type = "http" /\ {"type", "url", "method", "headers", "body", "path"} \subseteq DOMAIN t
     /\ "input" \in DOMAIN t.url /\ ValidHttp(t)
  \/ t.type = "embeddings" /\ {"type", "url", "model"} \subseteq DOMAIN t

LEMMA SameKind ==
  ASSUME NEW s, NEW t, Callee(s), Callee(t), Identity(s) = Identity(t)
  PROVE  s.type = t.type
<1> DEFINE Kinds3 == {"openai", "http", "embeddings"}
<1>1. s.type \in Kinds3 /\ t.type \in Kinds3
  BY DEF Callee
<1>2. ASSUME NEW u
      PROVE  /\ u.type = "openai" => "type" \in DOMAIN Identity(u) /\ Identity(u)["type"] = "openai"
             /\ u.type = "http" => "type" \notin DOMAIN Identity(u)
             /\ u.type = "embeddings" => "type" \in DOMAIN Identity(u) /\ Identity(u)["type"] = "embeddings"
  <2>1. CASE u.type = "openai"
    <3>1. Identity(u) = ChatIdentity(u)
      BY <2>1 DEF Identity
    <3> QED
      BY <2>1, <3>1, UnsetAssumption DEF ChatIdentity, Present, Restrict
  <2>2. CASE u.type = "http"
    <3>1. Identity(u) = HttpIdentity(u)
      BY <2>2 DEF Identity
    <3> QED
      BY <2>2, <3>1 DEF HttpIdentity, Present, Restrict
  <2>3. CASE u.type = "embeddings"
    <3>1. Identity(u) = EmbeddingsIdentity(u)
      BY <2>3 DEF Identity
    <3> QED
      BY <2>3, <3>1 DEF EmbeddingsIdentity
  <2> QED
    BY <2>1, <2>2, <2>3
<1> QED
  BY <1>1, <1>2

LEMMA SameIdentitySameExchange ==
  ASSUME NEW s, NEW t, Callee(s), Callee(t), Identity(s) = Identity(t), NEW input
  PROVE  Exchange(s, input) = Exchange(t, input)
<1>1. s.type = t.type
  BY SameKind
<1>2. CASE t.type = "openai"
  <2>1. ChatIdentity(s) = ChatIdentity(t)
    BY <1>1, <1>2 DEF Identity
  <2>2. /\ s.url = t.url /\ s.model = t.model
        /\ s.system = t.system /\ s.params = t.params
    BY <2>1, PresentSame DEF ChatIdentity
  <2>3. ChatRequest(s, input) = ChatRequest(t, input)
    BY <2>2 DEF ChatRequest
  <2> QED
    BY <1>1, <1>2, <2>3 DEF Exchange
<1>3. CASE t.type = "http"
  <2>1. HttpIdentity(s) = HttpIdentity(t)
    BY <1>1, <1>3 DEF Identity
  <2>2. /\ s.url = t.url /\ s.method.word = t.method.word /\ s.body = t.body
        /\ StaticHeaders(s) = StaticHeaders(t) /\ s.path = t.path
    <3> DEFINE fields(u) == [url |-> u.url, method |-> u.method.word, body |-> u.body,
                             headers |-> StaticHeaders(u), path |-> u.path]
    <3>1. Present(fields(s)) = Present(fields(t))
      BY <2>1 DEF HttpIdentity
    <3>2. \A f \in DOMAIN fields(s) \cap DOMAIN fields(t) : fields(s)[f] = fields(t)[f]
      <4> HIDE DEF fields
      <4> QED
        BY <3>1, PresentSame
    <3>3. \A f \in {"url", "method", "body", "headers", "path"} : fields(s)[f] = fields(t)[f]
      BY <3>2
    <3>4. /\ fields(s)["url"] = fields(t)["url"] /\ fields(s)["method"] = fields(t)["method"]
          /\ fields(s)["body"] = fields(t)["body"] /\ fields(s)["headers"] = fields(t)["headers"]
          /\ fields(s)["path"] = fields(t)["path"]
      <4> HIDE DEF fields
      <4> QED
        BY <3>3
    <3> QED
      BY <3>4
  <2>3. StaticNames(s) = DOMAIN StaticHeaders(s) /\ StaticNames(t) = DOMAIN StaticHeaders(t)
    BY DEF StaticHeaders
  <2>4. HeaderLines(s) = HeaderLines(t)
    BY <2>2, <2>3 DEF HeaderLines
  <2>5. HttpRequest(s, input) = HttpRequest(t, input)
    BY <2>2, <2>4 DEF HttpRequest
  <2> QED
    BY <1>1, <1>3, <2>2, <2>5 DEF Exchange
<1>4. CASE t.type = "embeddings"
  <2>1. EmbeddingsIdentity(s) = EmbeddingsIdentity(t)
    BY <1>1, <1>4 DEF Identity
  <2>2. s.url = t.url /\ s.model = t.model
    BY <2>1 DEF EmbeddingsIdentity
  <2> QED
    BY <1>1, <1>4, <2>2 DEF Exchange
<1> QED
  BY <1>2, <1>3, <1>4 DEF Callee

(* Tuning a target loses no recording.                                     *)
LEMMA SameButTuned ==
  ASSUME NEW s, NEW t, Callee(s), Callee(t), Tuned(s) = Tuned(t)
  PROVE  Identity(s) = Identity(t)
<1> DEFINE Tuning == {"key", "authHeader", "authPrefix", "retries", "timeout", "cost"}
<1>1. \A f \in (DOMAIN s \cap DOMAIN t) \ Tuning : s[f] = t[f]
  <2>1. \A u : \A f \in DOMAIN u \ Tuning : Tuned(u)[f] = u[f]
    BY DEF Tuned, Restrict
  <2> QED
    BY <2>1
<1>2. s.type = t.type
  BY <1>1 DEF Callee
<1>3. CASE t.type = "openai"
  <2>1. /\ s.url = t.url /\ s.model = t.model
        /\ s.system = t.system /\ s.params = t.params
    BY <1>1, <1>2, <1>3 DEF Callee
  <2>2. ChatIdentity(s) = ChatIdentity(t)
    BY <1>2, <2>1 DEF ChatIdentity
  <2> QED
    BY <1>2, <1>3, <2>2 DEF Identity
<1>4. CASE t.type = "http"
  <2>1. /\ s.url = t.url /\ s.method = t.method /\ s.body = t.body
        /\ s.headers = t.headers /\ s.path = t.path
    BY <1>1, <1>2, <1>4 DEF Callee
  <2>2. StaticHeaders(s) = StaticHeaders(t)
    BY <2>1 DEF StaticHeaders, StaticNames
  <2>3. HttpIdentity(s) = HttpIdentity(t)
    BY <2>1, <2>2 DEF HttpIdentity
  <2> QED
    BY <1>2, <1>4, <2>3 DEF Identity
<1>5. CASE t.type = "embeddings"
  <2>1. s.url = t.url /\ s.model = t.model
    BY <1>1, <1>2, <1>5 DEF Callee
  <2> QED
    BY <1>2, <1>5, <2>1 DEF Identity, EmbeddingsIdentity
<1> QED
  BY <1>3, <1>4, <1>5 DEF Callee

(* What a run calls.                                                       *)
LEMMA ArmsAreTargets ==
  ASSUME NEW c, Valid(c), NEW arms \in ArmsOf(c)
  PROVE  arms \subseteq DOMAIN c.targets
<1>1. c.run.matrix # Unset => Range(c.run.matrix) \subseteq DOMAIN c.targets
  BY DEF Valid, ValidMatrix
<1> QED
  BY <1>1 DEF ArmsOf

LEMMA CalleesAreValid ==
  ASSUME NEW c, WrittenConfig(c), Valid(c), NEW arms \in ArmsOf(c), NEW t \in Callees(c, arms)
  PROVE  Callee(t)
<1>1. CASE t \in {c.targets[name] : name \in arms} /\ Cached(t)
  <2>1. PICK name \in DOMAIN c.targets : t = c.targets[name]
    BY <1>1, ArmsAreTargets
  <2>2. WrittenTarget(t) /\ ValidTarget(t)
    BY <2>1 DEF WrittenConfig, Valid
  <2>3. t.type = "openai" \/ t.type = "http"
    BY <1>1, <2>2 DEF Cached, WrittenTarget
  <2>4. CASE t.type = "openai"
    <3>1. {"type", "url", "model", "system", "params"} \subseteq DOMAIN t
      BY <2>2, <2>4 DEF WrittenTarget
    <3>2. DOMAIN t.params \cap Reserved = {}
      BY <2>2, <2>4 DEF ValidTarget
    <3> QED
      BY <2>4, <3>1, <3>2 DEF Callee
  <2>5. CASE t.type = "http"
    <3>1. /\ {"type", "url", "method", "headers", "body", "path"} \subseteq DOMAIN t
          /\ "input" \in DOMAIN t.url
      BY <2>2, <2>5 DEF WrittenTarget
    <3>2. ValidHttp(t)
      BY <2>2, <2>5 DEF ValidTarget
    <3> QED
      BY <2>5, <3>1, <3>2 DEF Callee
  <2> QED
    BY <2>3, <2>4, <2>5
<1>2. ASSUME NEW s, t = ScorerTarget(s)
      PROVE  Callee(t)
  <2>1. CASE s.type = "judge"
    BY <1>2, <2>1 DEF ScorerTarget, Callee
  <2>2. CASE s.type # "judge"
    BY <1>2, <2>2 DEF ScorerTarget, Callee
  <2> QED
    BY <2>1, <2>2
<1> QED
  BY <1>1, <1>2 DEF Callees

(* The file stays as its structs read it, and what is recorded is what an  *)
(* accepted target was asked.                                              *)
ConfigInv == WrittenConfig(config) /\ \A t \in recording : Callee(t)

LEMMA ConfigStarts == ConfigInit => ConfigInv
  BY WrittenAssumption DEF ConfigInit, ConfigInv

LEMMA EditsAreWritten ==
  ASSUME WrittenConfig(config), ConfigNext
  PROVE  WrittenConfig(config')
<1>0. {"targets", "scorers", "run"} \subseteq DOMAIN config
  BY DEF WrittenConfig
<1>1. ASSUME NEW t \in TargetTexts, EditTarget(t)
      PROVE  WrittenConfig(config')
  <2>1. config' = [config EXCEPT !.targets = [a |-> t]]
    BY <1>1 DEF EditTarget, Edit
  <2>2. /\ DOMAIN config' = DOMAIN config
        /\ config'.targets = [a |-> t] /\ config'.run = config.run
    BY <1>0, <2>1
  <2>3. WrittenTarget(t)
    BY WrittenAssumption
  <2>4. \A name \in DOMAIN [a |-> t] : [a |-> t][name] = t
    OBVIOUS
  <2> QED
    BY <2>2, <2>3, <2>4 DEF WrittenConfig
<1>2. ASSUME NEW t \in TargetTexts, AddTarget(t)
      PROVE  WrittenConfig(config')
  <2> DEFINE both == [a |-> config.targets.a, b |-> t]
  <2>1. config' = [config EXCEPT !.targets = both] /\ DOMAIN config.targets = {"a"}
    BY <1>2 DEF AddTarget, Edit
  <2>2. \A name \in DOMAIN both : both[name] = config.targets["a"] \/ both[name] = t
    OBVIOUS
  <2> HIDE DEF both
  <2>3. /\ DOMAIN config' = DOMAIN config
        /\ config'.targets = both /\ config'.run = config.run
    BY <1>0, <2>1
  <2>4. WrittenTarget(t) /\ WrittenTarget(config.targets["a"])
    BY <2>1, WrittenAssumption DEF WrittenConfig
  <2>5. \A name \in DOMAIN both : WrittenTarget(both[name])
    BY <2>2, <2>4
  <2> QED
    BY <2>3, <2>5 DEF WrittenConfig
<1>3. ASSUME NEW list \in ScorerTexts, EditScorers(list)
      PROVE  WrittenConfig(config')
  <2>1. config' = [config EXCEPT !.scorers = list]
    BY <1>3 DEF EditScorers, Edit
  <2>2. /\ DOMAIN config' = DOMAIN config
        /\ config'.targets = config.targets /\ config'.run = config.run
    BY <1>0, <2>1
  <2> QED
    BY <2>2 DEF WrittenConfig
<1>4. ASSUME NEW run \in RunTexts, EditRun(run)
      PROVE  WrittenConfig(config')
  <2>1. config' = [config EXCEPT !.run = run]
    BY <1>4 DEF EditRun, Edit
  <2>2. /\ DOMAIN config' = DOMAIN config
        /\ config'.targets = config.targets /\ config'.run = run
    BY <1>0, <2>1
  <2>3. WrittenRun(run)
    BY WrittenAssumption
  <2> QED
    BY <2>2, <2>3 DEF WrittenConfig
<1>5. ASSUME RecordRun
      PROVE  WrittenConfig(config')
  BY <1>5 DEF RecordRun
<1> QED
  BY <1>1, <1>2, <1>3, <1>4, <1>5 DEF ConfigNext

LEMMA ConfigSteps == ConfigInv /\ [ConfigNext]_configVars => ConfigInv'
<1>1. ASSUME ConfigInv, ConfigNext
      PROVE  ConfigInv'
  <2>1. WrittenConfig(config')
    BY <1>1, EditsAreWritten DEF ConfigInv
  <2>2. CASE recording' = recording
    BY <1>1, <2>1, <2>2 DEF ConfigInv
  <2>3. CASE RecordRun
    <3>1. PICK arms \in ArmsOf(config) :
            /\ Runnable(config, arms, "require")
            /\ recording' = Callees(config, arms)
      BY <2>3 DEF RecordRun
    <3>2. \A t \in recording' : Callee(t)
      BY <1>1, <3>1, CalleesAreValid DEF Runnable, ConfigInv
    <3> QED
      BY <2>1, <3>2 DEF ConfigInv
  <2> QED
    BY <1>1, <2>2, <2>3
      DEF ConfigNext, EditTarget, AddTarget, EditScorers, EditRun, Edit
<1>2. ASSUME ConfigInv, UNCHANGED configVars
      PROVE  ConfigInv'
  BY <1>2 DEF ConfigInv, configVars
<1> QED
  BY <1>1, <1>2

LEMMA InvGivesFit == ConfigInv => RecordingFits
<1> SUFFICES ASSUME ConfigInv, NEW arms \in ArmsOf(config), Runnable(config, arms, "optional"),
                    NEW was \in recording, NEW now \in Callees(config, arms)
             PROVE  /\ Identity(was) = Identity(now) =>
                         \A input \in Inputs : Exchange(was, input) = Exchange(now, input)
                    /\ Tuned(was) = Tuned(now) => Identity(was) = Identity(now)
  BY DEF RecordingFits
<1>1. Callee(was)
  BY DEF ConfigInv
<1>2. Callee(now)
  BY CalleesAreValid DEF ConfigInv, Runnable
<1> QED
  BY <1>1, <1>2, SameIdentitySameExchange, SameButTuned

(* However the file is edited, a recording is replayed for the request it  *)
(* answered and for no other, and tuning loses none (RecordingFits).       *)
THEOREM RecordingsFit == ConfigSpec => []RecordingFits
<1> QED
  BY ConfigStarts, ConfigSteps, InvGivesFit, PTL DEF ConfigSpec

(* The requests of one target.                                             *)
LEMMA KeyHasItsLine ==
  ASSUME NEW t, ValidHttp(t), t.key # Unset, NEW sent \in HeaderLines(t), sent[1] = AuthName(t)
  PROVE  sent = <<"content-type", "json">> /\ "content-type" \notin StaticNames(t)
<1>1. AuthName(t) \notin StaticNames(t)
  BY DEF ValidHttp, HeaderClash
<1>2. CASE sent \in {<<w, StaticHeaders(t)[w]>> : w \in StaticNames(t)}
  <2>1. sent[1] \in StaticNames(t)
    BY <1>2
  <2> QED
    BY <1>1, <2>1
<1>3. CASE sent \notin {<<w, StaticHeaders(t)[w]>> : w \in StaticNames(t)}
  BY <1>3 DEF HeaderLines
<1> QED
  BY <1>2, <1>3

LEMMA NamedModelIsAsked ==
  ASSUME NEW t, t.type = "openai", DOMAIN t.params \cap Reserved = {}, NEW input
  PROVE  LET sent == Exchange(t, input).send.body IN
           sent.model = t.model /\ sent.messages = <<t.system, input>>
<1>1. Exchange(t, input) = [send |-> ChatRequest(t, input), read |-> "content"]
  BY DEF Exchange
<1>2. "model" \notin DOMAIN t.params /\ "messages" \notin DOMAIN t.params
  BY DEF Reserved
<1> DEFINE body == [f \in DOMAIN t.params \cup {"model", "messages"} |->
                      CASE f \in DOMAIN t.params -> t.params[f]
                        [] f = "model" -> t.model
                        [] f = "messages" -> <<t.system, input>>]
<1>3. body["model"] = t.model /\ body["messages"] = <<t.system, input>>
  BY <1>2
<1>4. Exchange(t, input).send.body = body
  BY <1>1 DEF ChatRequest
<1> QED
  BY <1>3, <1>4

LEMMA InputsAreSent ==
  ASSUME NEW t, Callee(t), NEW i, NEW j, Exchange(t, i) = Exchange(t, j)
  PROVE  i = j \/ (t.type = "http" /\ t.body # Unset /\ t.body.inKey)
<1>1. CASE t.type = "openai"
  <2>1. DOMAIN t.params \cap Reserved = {}
    BY <1>1 DEF Callee
  <2>2. <<t.system, i>> = <<t.system, j>>
    BY <1>1, <2>1, NamedModelIsAsked
  <2> QED
    BY <2>2
<1>2. CASE t.type = "http"
  <2>1. "input" \in DOMAIN t.url /\ ValidHttp(t)
    BY <1>2 DEF Callee
  <2>2. HttpRequest(t, i) = HttpRequest(t, j)
    BY <1>2 DEF Exchange
  <2>3. /\ [t.url EXCEPT !.input = IF @ THEN i ELSE Unset]
             = [t.url EXCEPT !.input = IF @ THEN j ELSE Unset]
        /\ Filled(t.body, i) = Filled(t.body, j)
    BY <2>2 DEF HttpRequest
  <2>4. CASE t.url.input
    <3>1. /\ [t.url EXCEPT !.input = IF @ THEN i ELSE Unset].input = i
          /\ [t.url EXCEPT !.input = IF @ THEN j ELSE Unset].input = j
      BY <2>1, <2>4
    <3> QED
      BY <2>3, <3>1
  <2>5. CASE ~t.url.input
    <3>1. t.body # Unset /\ (t.body.inKey \/ t.body.inValue)
      BY <2>1, <2>5 DEF ValidHttp
    <3>2. CASE t.body.inKey
      BY <1>2, <3>1, <3>2
    <3>3. CASE t.body.inValue
      <4>1. Filled(t.body, i).value = i /\ Filled(t.body, j).value = j
        BY <3>1, <3>3 DEF Filled
      <4> QED
        BY <2>3, <4>1
    <3> QED
      BY <3>1, <3>2, <3>3
  <2> QED
    BY <2>4, <2>5
<1>3. CASE t.type = "embeddings"
  <2>1. Exchange(t, i).send.text = i /\ Exchange(t, j).send.text = j
    BY <1>3 DEF Exchange
  <2> QED
    BY <2>1
<1> QED
  BY <1>1, <1>2, <1>3 DEF Callee

LEMMA InvGivesMeant == ConfigInv => RequestsAreMeant
<1> SUFFICES ASSUME ConfigInv, NEW arms \in ArmsOf(config), Runnable(config, arms, "require"),
                    NEW t \in Callees(config, arms)
             PROVE  /\ t.type = "http" /\ t.key # Unset =>
                         \A sent \in HeaderLines(t) : sent[1] = AuthName(t) =>
                           sent = <<"content-type", "json">> /\ "content-type" \notin StaticNames(t)
                    /\ t.type = "openai" =>
                         \A input \in Inputs : LET sent == Exchange(t, input).send.body IN
                           sent.model = t.model /\ sent.messages = <<t.system, input>>
                    /\ \A i, j \in Inputs : Exchange(t, i) = Exchange(t, j) =>
                         i = j \/ (t.type = "http" /\ t.body # Unset /\ t.body.inKey)
  BY DEF RequestsAreMeant
<1>1. Callee(t)
  BY CalleesAreValid DEF ConfigInv, Runnable
<1>2. t.type = "http" => ValidHttp(t)
  BY <1>1 DEF Callee
<1>3. t.type = "openai" => DOMAIN t.params \cap Reserved = {}
  BY <1>1 DEF Callee
<1> QED
  BY <1>1, <1>2, <1>3, KeyHasItsLine, NamedModelIsAsked, InputsAreSent

(* An accepted target asks what its file says (RequestsAreMeant).          *)
THEOREM RequestsMeanTheFile == ConfigSpec => []RequestsAreMeant
<1> QED
  BY ConfigStarts, ConfigSteps, InvGivesMeant, PTL DEF ConfigSpec

LEMMA InvGivesFullMarks == ConfigInv => FullMarksAreAccepted
<1> SUFFICES ASSUME WrittenConfig(config), Valid(config), ScorersBuild(config, "optional")
             PROVE  /\ \A j \in DOMAIN config.scorers : FullMarksPass(config.scorers[j])
                    /\ \A k \in DOMAIN config.run.gates : LET g == config.run.gates[k] IN
                         \/ g.type = "mean_score" /\ g.min > One
                         \/ GateOverFullMarks(g, config.scorers)
  BY DEF FullMarksAreAccepted, ConfigInv
<1>1. ASSUME NEW s, ValidScorer(s), ScorerBuilds(s, "optional")
      PROVE  FullMarksPass(s)
  <2>1. CASE s.type = "judge"
    BY <1>1, <2>1 DEF ScorerBuilds, Within, FullMarksPass
  <2>2. CASE s.type = "similarity"
    BY <1>1, <2>2 DEF ValidScorer, Within, FullMarksPass
  <2>3. CASE s.type = "trajectory"
    BY <1>1, <2>3 DEF ScorerBuilds, FullMarksPass
  <2>4. CASE s.type \notin {"judge", "similarity", "trajectory"}
    BY <2>4 DEF FullMarksPass
  <2> QED
    BY <2>1, <2>2, <2>3, <2>4
<1>2. ASSUME NEW k \in DOMAIN config.run.gates
      PROVE  LET g == config.run.gates[k] IN
               \/ g.type = "mean_score" /\ g.min > One
               \/ GateOverFullMarks(g, config.scorers)
  <2> DEFINE g == config.run.gates[k]
  <2>1. ValidGate(g, config.scorers)
    BY DEF Valid
  <2>2. g.min \in Int \cup {Nan} /\ One \in Int
    BY OneAssumption DEF WrittenConfig, WrittenRun
  <2> DEFINE list == config.scorers
             Named == g.scorer # Unset => \E j \in DOMAIN list : list[j].type = g.scorer
  <2>3. g.type = "mean_score" => g.min # Nan /\ Named
    BY <2>1 DEF ValidGate
  <2>4. g.type # "mean_score" => g.min # Nan /\ g.min <= One
    BY <2>1 DEF ValidGate, Within
  <2>5. /\ GateOverFullMarks(g, list) <=>
             g.min # Nan /\ (g.type = "mean_score" => Named) /\ One >= g.min
    BY DEF GateOverFullMarks
  <2> HIDE DEF g, list, Named
  <2>6. g.min # Nan => g.min > One \/ One >= g.min
    BY <2>2
  <2>7. g.min # Nan /\ g.min <= One => One >= g.min
    BY <2>2
  <2>8. \/ g.type = "mean_score" /\ g.min > One
        \/ GateOverFullMarks(g, list)
    BY <2>3, <2>4, <2>5, <2>6, <2>7
  <2> QED
    BY <2>8 DEF g, list
<1>3. \A j \in DOMAIN config.scorers :
        ValidScorer(config.scorers[j]) /\ ScorerBuilds(config.scorers[j], "optional")
  BY DEF Valid, ScorersBuild
<1> QED
  BY <1>1, <1>2, <1>3

(* What is accepted can be satisfied (FullMarksAreAccepted).               *)
THEOREM FullMarksSuffice == ConfigSpec => []FullMarksAreAccepted
<1> QED
  BY ConfigStarts, ConfigSteps, InvGivesFullMarks, PTL DEF ConfigSpec
-----------------------------------------------------------------------------
(* What is written to the streams. *)

PresentationSpec == PresentationInit /\ [][PresentationNext]_presentationVars

(* The section and the verdict, once they are written.                     *)
SectionTold == opts.shape = "baseline" /\ doing \in {"saved", "verdict", "hints", "done"}
VerdictTold == doing \in {"hints", "done"}

(* stdout follows from the options and the stage: nothing, the report, and *)
(* what joins it.                                                          *)
Expected ==
  LET section == Text("section", OutStyle.color)
      banner == Banner(OutStyle)
  IN CASE opts.file \/ doing \in {"suite", "history", "report"} -> <<>>
       [] ~opts.file /\ doing \in {"section", "saved", "verdict", "hints", "done"} ->
            IF ~JoinsStdout \/ (~SectionTold /\ ~VerdictTold) THEN <<TheReport>>
            ELSE IF ~VerdictTold THEN <<TheReport, section>>
            ELSE IF ~SectionTold THEN <<TheReport, banner>>
            ELSE <<TheReport, section, banner>>

PieceKinds == {"report", "written", "warning", "section", "saved", "verdict", "hint"}
Pieces == [kind : PieceKinds, color : BOOLEAN, glyphs : BOOLEAN]

StagesOk ==
  /\ opts \in Options
  /\ doing \in {"suite", "history", "report", "section", "saved", "verdict", "hints", "done"}
  /\ doing \in {"section", "saved"} => opts.shape = "baseline"
  /\ doing = "hints" => opts.shape # "matrix"
OutOk ==
  /\ out = Expected
  /\ file = IF opts.file /\ doing \notin {"suite", "history", "report"}
            THEN <<TheReport>> ELSE <<>>
PlainErr(e, color) ==
  /\ e \in Seq(Pieces)
  /\ \A k \in DOMAIN e : e[k].color => color
  /\ \A k \in DOMAIN e : e[k].kind # "report"
ToldOn(e, told) ==
  IF told
  THEN \E v \in DOMAIN e : /\ e[v].kind = "verdict"
                           /\ \A n \in DOMAIN e : n < v => e[n].kind # "verdict"
                           /\ \A n \in DOMAIN e : n > v => e[n].kind = "hint"
  ELSE \A k \in DOMAIN e : e[k].kind # "verdict"
ErrOk == PlainErr(err, ErrStyle.color) /\ ToldOn(err, VerdictTold /\ ~JoinsStdout)
LineOk ==
  \A l \in line : doing = "suite" /\ l.count = ticked /\ ShowsProgress

PresentationInv == StagesOk /\ OutOk /\ ErrOk /\ LineOk

LEMMA PresentationStarts == PresentationInit => PresentationInv
<1> SUFFICES ASSUME PresentationInit
             PROVE  PresentationInv
  OBVIOUS
<1> USE DEF PresentationInit
<1>1. StagesOk
  BY DEF StagesOk
<1>2. OutOk
  BY DEF OutOk, Expected
<1>3. ErrOk
  BY DEF ErrOk, PlainErr, ToldOn, VerdictTold
<1>4. LineOk
  BY DEF LineOk
<1> QED
  BY <1>1, <1>2, <1>3, <1>4 DEF PresentationInv

(* The styles and texts are well formed.                                   *)
LEMMA StylesAreBoolean ==
  ASSUME opts \in Options
  PROVE  /\ OutStyle.color \in BOOLEAN /\ OutStyle.glyphs \in BOOLEAN
         /\ ErrStyle.color \in BOOLEAN /\ ErrStyle.glyphs \in BOOLEAN
<1>1. ASSUME NEW tty \in BOOLEAN
      PROVE  StreamStyle(tty).color \in BOOLEAN /\ StreamStyle(tty).glyphs \in BOOLEAN
  <2>1. ColorEnabled(tty) \in BOOLEAN
    BY DEF ColorEnabled
  <2> QED
    BY <2>1 DEF StreamStyle
<1>2. opts.outTty \in BOOLEAN /\ opts.errTty \in BOOLEAN
  BY DEF Options
<1> QED
  BY <1>1, <1>2 DEF OutStyle, ErrStyle

(* One more piece on stderr.                                               *)
LEMMA PlainErrGrows ==
  ASSUME NEW e, NEW color \in BOOLEAN, PlainErr(e, color),
         NEW p \in Pieces, p.color => color, p.kind # "report"
  PROVE  PlainErr(Append(e, p), color)
<1>1. e \in Seq(Pieces)
  BY DEF PlainErr
<1>2. Append(e, p) \in Seq(Pieces)
  BY <1>1
<1>3. \A k \in DOMAIN Append(e, p) :
        (k \in DOMAIN e /\ Append(e, p)[k] = e[k]) \/ Append(e, p)[k] = p
  BY <1>1
<1> QED
  BY <1>2, <1>3 DEF PlainErr

LEMMA ToldStays ==
  ASSUME NEW e \in Seq(Pieces), NEW told \in BOOLEAN, ToldOn(e, told),
         NEW p \in Pieces, p.kind # "verdict", told => p.kind = "hint"
  PROVE  ToldOn(Append(e, p), told)
<1>1. /\ DOMAIN e = 1 .. Len(e) /\ Len(e) \in Nat
      /\ DOMAIN Append(e, p) = 1 .. Len(e) + 1
      /\ \A k \in 1 .. Len(e) : Append(e, p)[k] = e[k]
      /\ Append(e, p)[Len(e) + 1] = p
  OBVIOUS
<1> DEFINE n == Len(e)
           f == Append(e, p)
<1>2. /\ n \in Nat /\ DOMAIN e = 1 .. n /\ DOMAIN f = 1 .. n + 1
      /\ \A k \in 1 .. n : f[k] = e[k]
      /\ f[n + 1] = p
  BY <1>1
<1> HIDE DEF n, f
<1>3. CASE told
  <2>1. PICK v \in 1 .. n : /\ e[v].kind = "verdict"
                            /\ \A k \in 1 .. n : k < v => e[k].kind # "verdict"
                            /\ \A k \in 1 .. n : k > v => e[k].kind = "hint"
    BY <1>2, <1>3 DEF ToldOn
  <2>2. v \in 1 .. n + 1 /\ f[v].kind = "verdict"
    BY <1>2, <2>1
  <2>3. \A k \in 1 .. n + 1 : k < v => f[k].kind # "verdict"
    BY <1>2, <2>1
  <2>4. \A k \in 1 .. n + 1 : k > v => f[k].kind = "hint"
    BY <1>2, <1>3, <2>1
  <2>5. ToldOn(f, told)
    BY <1>2, <1>3, <2>2, <2>3, <2>4 DEF ToldOn
  <2> QED
    BY <2>5 DEF f
<1>4. CASE ~told
  <2>1. ToldOn(f, told)
    BY <1>2, <1>4 DEF ToldOn
  <2> QED
    BY <2>1 DEF f
<1> QED
  BY <1>3, <1>4

LEMMA ToldNow ==
  ASSUME NEW e \in Seq(Pieces), ToldOn(e, FALSE), NEW p \in Pieces, p.kind = "verdict"
  PROVE  ToldOn(Append(e, p), TRUE)
<1> DEFINE n == Len(e)
           f == Append(e, p)
<1>1. /\ n \in Nat /\ DOMAIN e = 1 .. n /\ DOMAIN f = 1 .. n + 1
      /\ \A k \in 1 .. n : f[k] = e[k]
      /\ f[n + 1] = p
  OBVIOUS
<1> HIDE DEF n, f
<1>2. \A k \in 1 .. n : e[k].kind # "verdict"
  BY <1>1 DEF ToldOn
<1>3. /\ n + 1 \in 1 .. n + 1 /\ f[n + 1].kind = "verdict"
      /\ \A k \in 1 .. n + 1 : k < n + 1 => f[k].kind # "verdict"
      /\ \A k \in 1 .. n + 1 : k > n + 1 => f[k].kind = "hint"
  BY <1>1, <1>2
<1>4. ToldOn(f, TRUE)
  BY <1>1, <1>3 DEF ToldOn
<1> QED
  BY <1>4 DEF f

(* What depends on the options alone.                                      *)
LEMMA OptionsStay ==
  ASSUME opts' = opts
  PROVE  /\ TheReport' = TheReport /\ JoinsStdout' = JoinsStdout
         /\ OutStyle' = OutStyle /\ ErrStyle' = ErrStyle
         /\ ShowsProgress' = ShowsProgress
BY DEF TheReport, Text, ReportStyle, PlainStyle, JoinsStdout, OutStyle, ErrStyle, StreamStyle,
       ColorEnabled, ShowsProgress

LEMMA StagesStep ==
  ASSUME StagesOk, PresentationNext
  PROVE  StagesOk' /\ opts' = opts
<1>1. CASE TickFrame \/ EndSuite \/ WarnOrNot
  BY <1>1 DEF TickFrame, EndSuite, WarnOrNot, StagesOk
<1>2. CASE PrintReport
  BY <1>2 DEF PrintReport, StagesOk
<1>3. CASE PrintSection \/ SaveNote
  BY <1>3 DEF PrintSection, SaveNote, StagesOk
<1>4. CASE PrintVerdict
  BY <1>4 DEF PrintVerdict, StagesOk
<1>5. CASE PrintHints
  BY <1>5 DEF PrintHints, StagesOk
<1> QED
  BY <1>1, <1>2, <1>3, <1>4, <1>5 DEF PresentationNext

LEMMA LineStep ==
  ASSUME StagesOk, LineOk, PresentationNext
  PROVE  LineOk'
<1>0. ShowsProgress' = ShowsProgress
  BY StagesStep, OptionsStay
<1>1. CASE TickFrame
  BY <1>0, <1>1 DEF TickFrame, LineOk
<1>2. CASE EndSuite
  BY <1>2 DEF EndSuite, ClearLine, LineOk
<1>3. CASE UNCHANGED line /\ doing # "suite"
  BY <1>3 DEF LineOk
<1> QED
  BY <1>1, <1>2, <1>3 DEF PresentationNext, WarnOrNot, PrintReport,
     PrintSection, SaveNote, PrintVerdict, PrintHints

LEMMA Appends ==
  ASSUME NEW a, NEW b, NEW c
  PROVE  /\ Append(<<a>>, b) = <<a, b>>
         /\ Append(<<a, b>>, c) = <<a, b, c>>
<1>1. <<a>> \in Seq({a, b, c}) /\ <<a, b>> \in Seq({a, b, c}) /\ <<a, b, c>> \in Seq({a, b, c})
  OBVIOUS
<1>2. /\ Append(<<a>>, b) \in Seq({a, b, c}) /\ Append(<<a, b>>, c) \in Seq({a, b, c})
      /\ Len(Append(<<a>>, b)) = 2 /\ Len(Append(<<a, b>>, c)) = 3
  BY <1>1
<1>3. /\ Append(<<a>>, b)[1] = a /\ Append(<<a>>, b)[2] = b
      /\ Append(<<a, b>>, c)[1] = a /\ Append(<<a, b>>, c)[2] = b /\ Append(<<a, b>>, c)[3] = c
  BY <1>1
<1>4. Append(<<a>>, b) = <<a, b>>
  <2>1. \A k \in 1 .. Len(<<a, b>>) : Append(<<a>>, b)[k] = <<a, b>>[k]
    BY <1>3
  <2> QED
    BY <1>1, <1>2, <2>1, SeqEqual
<1>5. Append(<<a, b>>, c) = <<a, b, c>>
  <2>1. \A k \in 1 .. Len(<<a, b, c>>) : Append(<<a, b>>, c)[k] = <<a, b, c>>[k]
    BY <1>3
  <2> QED
    BY <1>1, <1>2, <2>1, SeqEqual
<1> QED
  BY <1>4, <1>5

LEMMA OutStep ==
  ASSUME StagesOk, OutOk, PresentationNext
  PROVE  OutOk'
<1>0. /\ opts' = opts /\ StagesOk'
      /\ TheReport' = TheReport /\ JoinsStdout' = JoinsStdout /\ OutStyle' = OutStyle
  BY StagesStep, OptionsStay
<1>1. JoinsStdout => ~opts.file
  BY DEF JoinsStdout
<1>2. opts.file \in BOOLEAN /\ opts.shape \in {"single", "baseline", "matrix"}
  BY DEF StagesOk, Options
<1> DEFINE early == doing \in {"suite", "history", "report"}
           section == Text("section", OutStyle.color)
           banner == Banner(OutStyle)
<1>3. section' = section /\ banner' = banner
  BY <1>0 DEF Text, Banner
<1>4. /\ opts.file \/ early => Expected = <<>>
      /\ ~opts.file /\ ~early =>
           Expected = IF ~JoinsStdout \/ (~SectionTold /\ ~VerdictTold) THEN <<TheReport>>
                      ELSE IF ~VerdictTold THEN <<TheReport, section>>
                      ELSE IF ~SectionTold THEN <<TheReport, banner>>
                      ELSE <<TheReport, section, banner>>
  BY <1>2 DEF Expected, StagesOk
<1>5. /\ opts.file \/ early' => Expected' = <<>>
      /\ ~opts.file /\ ~early' =>
           Expected' = IF ~JoinsStdout \/ (~SectionTold' /\ ~VerdictTold') THEN <<TheReport>>
                       ELSE IF ~VerdictTold' THEN <<TheReport, section>>
                       ELSE IF ~SectionTold' THEN <<TheReport, banner>>
                       ELSE <<TheReport, section, banner>>
  <2>1. /\ opts'.file \/ early' => Expected' = <<>>
        /\ ~opts'.file /\ ~early' =>
             Expected' = IF ~JoinsStdout' \/ (~SectionTold' /\ ~VerdictTold') THEN <<TheReport'>>
                         ELSE IF ~VerdictTold' THEN <<TheReport', section'>>
                         ELSE IF ~SectionTold' THEN <<TheReport', banner'>>
                         ELSE <<TheReport', section', banner'>>
    BY <1>0, <1>2 DEF Expected, StagesOk
  <2> HIDE DEF section, banner
  <2> QED
    BY <1>0, <1>3, <2>1
<1> HIDE DEF section, banner
<1>6. /\ out = Expected
      /\ file = IF opts.file /\ ~early THEN <<TheReport>> ELSE <<>>
  BY DEF OutOk
<1>7. SUFFICES /\ out' = Expected'
               /\ file' = IF opts.file /\ ~early' THEN <<TheReport>> ELSE <<>>
  BY <1>0 DEF OutOk
<1>8. CASE TickFrame \/ EndSuite \/ WarnOrNot
  <2>1. out' = out /\ file' = file /\ early /\ early'
    BY <1>8 DEF TickFrame, EndSuite, WarnOrNot
  <2> QED
    BY <1>4, <1>5, <1>6, <2>1
<1>9. CASE PrintReport
  <2>1. /\ early /\ ~early' /\ doing' \in {"section", "verdict"}
        /\ IF opts.file THEN file' = <<TheReport>> /\ out' = out
           ELSE out' = Append(out, TheReport) /\ file' = file
    BY <1>9 DEF PrintReport
  <2>2. ~SectionTold' /\ ~VerdictTold'
    BY <1>0, <1>9, <2>1 DEF PrintReport, SectionTold, VerdictTold
  <2>3. Append(<<>>, TheReport) = <<TheReport>>
    OBVIOUS
  <2> QED
    BY <1>4, <1>5, <1>6, <2>1, <2>2, <2>3
<1>10. CASE PrintSection
  <2>1. /\ ~early /\ ~early' /\ file' = file /\ opts.shape = "baseline"
        /\ ~SectionTold /\ ~VerdictTold /\ SectionTold' /\ ~VerdictTold'
    BY <1>0, <1>10 DEF PrintSection, SectionTold, VerdictTold, StagesOk
  <2>2. IF JoinsStdout THEN out' = Append(out, section) ELSE out' = out
    BY <1>10 DEF PrintSection, Accompany, AccompanyingStyle, section
  <2>3. Append(<<TheReport>>, section) = <<TheReport, section>>
    BY Appends, Zenon
  <2> QED
    BY <1>1, <1>4, <1>5, <1>6, <2>1, <2>2, <2>3
<1>11. CASE SaveNote
  <2>1. /\ ~early /\ ~early' /\ file' = file /\ out' = out
        /\ SectionTold' = SectionTold /\ ~VerdictTold /\ ~VerdictTold'
    BY <1>0, <1>11 DEF SaveNote, SectionTold, VerdictTold, StagesOk
  <2> QED
    BY <1>4, <1>5, <1>6, <2>1
<1>12. CASE PrintVerdict
  <2>1. /\ ~early /\ ~early' /\ file' = file
        /\ SectionTold' = SectionTold /\ ~VerdictTold /\ VerdictTold'
    BY <1>0, <1>12 DEF PrintVerdict, SectionTold, VerdictTold, StagesOk
  <2>2. IF JoinsStdout THEN out' = Append(out, banner) ELSE out' = out
    BY <1>12 DEF PrintVerdict, Accompany, AccompanyingStyle, banner
  <2>3. /\ Append(<<TheReport>>, banner) = <<TheReport, banner>>
        /\ Append(<<TheReport, section>>, banner) = <<TheReport, section, banner>>
    BY Appends, Zenon
  <2> QED
    BY <1>1, <1>4, <1>5, <1>6, <2>1, <2>2, <2>3
<1>13. CASE PrintHints
  <2>1. /\ ~early /\ ~early' /\ file' = file /\ out' = out
        /\ SectionTold' = SectionTold /\ VerdictTold /\ VerdictTold'
    BY <1>0, <1>13 DEF PrintHints, SectionTold, VerdictTold, StagesOk
  <2> QED
    BY <1>4, <1>5, <1>6, <2>1
<1> QED
  BY <1>8, <1>9, <1>10, <1>11, <1>12, <1>13 DEF PresentationNext

LEMMA ErrStep ==
  ASSUME StagesOk, ErrOk, PresentationNext
  PROVE  ErrOk'
<1>0. /\ opts' = opts /\ JoinsStdout' = JoinsStdout /\ ErrStyle' = ErrStyle
  BY StagesStep, OptionsStay
<1> DEFINE color == ErrStyle.color
           told == VerdictTold /\ ~JoinsStdout
<1>1. color \in BOOLEAN /\ told \in BOOLEAN /\ ErrStyle.glyphs \in BOOLEAN
  BY StylesAreBoolean DEF StagesOk, VerdictTold
<1>2. PlainErr(err, color) /\ ToldOn(err, told) /\ err \in Seq(Pieces)
  BY DEF ErrOk, PlainErr
<1>3. SUFFICES PlainErr(err', color) /\ ToldOn(err', VerdictTold' /\ ~JoinsStdout)
  BY <1>0 DEF ErrOk
(* A piece that is neither a verdict nor, once that is told, else than a   *)
(* hint.                                                                   *)
<1>4. ASSUME NEW e, PlainErr(e, color), ToldOn(e, told),
             NEW p, p \in Pieces, p.color => color, p.kind \notin {"report", "verdict"},
             told => p.kind = "hint"
      PROVE  PlainErr(Append(e, p), color) /\ ToldOn(Append(e, p), told)
  <2>1. e \in Seq(Pieces)
    BY <1>4 DEF PlainErr
  <2> HIDE DEF color, told
  <2> QED
    BY <1>1, <1>4, <2>1, PlainErrGrows, ToldStays
<1> HIDE DEF color, told
<1>6. CASE TickFrame \/ EndSuite
  <2>1. err' = err /\ (VerdictTold' /\ ~JoinsStdout) = told
    BY <1>0, <1>6 DEF TickFrame, EndSuite, VerdictTold, told
  <2> QED
    BY <1>2, <2>1
<1>7. CASE WarnOrNot
  <2>1. /\ (VerdictTold' /\ ~JoinsStdout) = told /\ ~told
        /\ err' = err \/ err' = Append(err, Text("warning", FALSE))
    BY <1>0, <1>7 DEF WarnOrNot, VerdictTold, told
  <2> DEFINE p == Text("warning", FALSE)
  <2>2. p \in Pieces /\ p.kind = "warning" /\ p.color = FALSE
    BY <1>1 DEF Text, Pieces, PieceKinds
  <2> HIDE DEF p
  <2>3. PlainErr(Append(err, p), color) /\ ToldOn(Append(err, p), told)
    BY <1>2, <1>4, <2>1, <2>2
  <2> QED
    BY <1>2, <2>1, <2>3 DEF p
<1>8. CASE PrintReport
  <2>1. /\ (VerdictTold' /\ ~JoinsStdout) = told /\ ~told
        /\ err' = err \/ err' = Append(err, Text("written", FALSE))
    BY <1>0, <1>8 DEF PrintReport, VerdictTold, told
  <2> DEFINE p == Text("written", FALSE)
  <2>2. p \in Pieces /\ p.kind = "written" /\ p.color = FALSE
    BY <1>1 DEF Text, Pieces, PieceKinds
  <2> HIDE DEF p
  <2>3. PlainErr(Append(err, p), color) /\ ToldOn(Append(err, p), told)
    BY <1>2, <1>4, <2>1, <2>2
  <2> QED
    BY <1>2, <2>1, <2>3 DEF p
<1>9. CASE PrintSection
  <2>1. /\ (VerdictTold' /\ ~JoinsStdout) = told /\ ~told
        /\ err' = err \/ err' = Append(err, Text("section", color))
    BY <1>0, <1>9 DEF PrintSection, VerdictTold, told, color, Accompany, AccompanyingStyle
  <2> DEFINE p == Text("section", color)
  <2>2. p \in Pieces /\ p.kind = "section" /\ p.color = color
    BY <1>1 DEF Text, Pieces, PieceKinds
  <2> HIDE DEF p
  <2>3. PlainErr(Append(err, p), color) /\ ToldOn(Append(err, p), told)
    BY <1>2, <1>4, <2>1, <2>2
  <2> QED
    BY <1>2, <2>1, <2>3 DEF p
<1>10. CASE SaveNote
  <2>1. /\ (VerdictTold' /\ ~JoinsStdout) = told /\ ~told
        /\ err' = err \/ err' = Append(err, Text("saved", FALSE))
    BY <1>0, <1>10 DEF SaveNote, VerdictTold, told
  <2> DEFINE p == Text("saved", FALSE)
  <2>2. p \in Pieces /\ p.kind = "saved" /\ p.color = FALSE
    BY <1>1 DEF Text, Pieces, PieceKinds
  <2> HIDE DEF p
  <2>3. PlainErr(Append(err, p), color) /\ ToldOn(Append(err, p), told)
    BY <1>2, <1>4, <2>1, <2>2
  <2> QED
    BY <1>2, <2>1, <2>3 DEF p
<1>11. CASE PrintVerdict
  <2>1. ~told /\ VerdictTold'
    BY <1>0, <1>11 DEF PrintVerdict, VerdictTold, told
  <2>2. CASE JoinsStdout
    <3>1. err' = err
      BY <1>11, <2>2 DEF PrintVerdict, Accompany
    <3> QED
      BY <1>1, <1>2, <2>1, <2>2, <3>1
  <2>3. CASE ~JoinsStdout
    <3> DEFINE p == Banner(ErrStyle)
    <3>1. err' = Append(err, p)
      BY <1>11, <2>3 DEF PrintVerdict, Accompany, AccompanyingStyle
    <3>2. p \in Pieces /\ p.kind = "verdict" /\ p.color = color
      <4>1. ErrStyle.color \in BOOLEAN /\ ErrStyle.glyphs \in BOOLEAN
        BY <1>1 DEF color
      <4> QED
        BY <4>1 DEF Banner, Pieces, PieceKinds, color
    <3> HIDE DEF p
    <3>3. PlainErr(err', color)
      BY <1>1, <1>2, <3>1, <3>2, PlainErrGrows
    <3>4. ToldOn(err, FALSE)
      BY <1>1, <1>2, <2>1
    <3>5. ToldOn(err', TRUE)
      BY <1>2, <3>1, <3>2, <3>4, ToldNow
    <3>6. (VerdictTold' /\ ~JoinsStdout) = TRUE
      BY <2>1, <2>3
    <3> QED
      BY <3>3, <3>5, <3>6
  <2> QED
    BY <2>2, <2>3
<1>12. CASE PrintHints
  <2> DEFINE hint == Text("hint", color)
  <2>1. /\ (VerdictTold' /\ ~JoinsStdout) = told
        /\ \/ err' = err \/ err' = Append(err, hint)
           \/ err' = Append(Append(err, hint), hint)
    BY <1>0, <1>12 DEF PrintHints, VerdictTold, told, color
  <2>2. hint \in Pieces /\ hint.kind = "hint" /\ hint.color = color
    BY <1>1 DEF Text, Pieces, PieceKinds
  <2> HIDE DEF hint
  <2>3. PlainErr(Append(err, hint), color) /\ ToldOn(Append(err, hint), told)
    BY <1>2, <1>4, <2>2
  <2>4. /\ PlainErr(Append(Append(err, hint), hint), color)
        /\ ToldOn(Append(Append(err, hint), hint), told)
    BY <1>4, <2>2, <2>3
  <2> QED
    BY <1>2, <2>1, <2>3, <2>4
<1> QED
  BY <1>6, <1>7, <1>8, <1>9, <1>10, <1>11, <1>12 DEF PresentationNext

LEMMA PresentationSteps ==
  PresentationInv /\ [PresentationNext]_presentationVars => PresentationInv'
<1>1. ASSUME PresentationInv, PresentationNext
      PROVE  PresentationInv'
  BY <1>1, StagesStep, OutStep, ErrStep, LineStep DEF PresentationInv
<1>2. ASSUME PresentationInv, UNCHANGED presentationVars
      PROVE  PresentationInv'
  <2>0. UNCHANGED <<opts, doing, arm, ticked, line, out, err, file>>
    BY <1>2 DEF presentationVars
  <2>1. /\ opts' = opts /\ TheReport' = TheReport /\ JoinsStdout' = JoinsStdout
        /\ OutStyle' = OutStyle /\ ErrStyle' = ErrStyle /\ ShowsProgress' = ShowsProgress
    BY <2>0, OptionsStay
  <2>2. StagesOk'
    BY <1>2, <2>0 DEF PresentationInv, StagesOk
  <2>3. OutOk'
    <3>1. Expected' = Expected
      BY <2>0, <2>1 DEF Expected, SectionTold, VerdictTold, Text, Banner
    <3> QED
      BY <1>2, <2>0, <2>1, <3>1 DEF PresentationInv, OutOk
  <2>4. ErrOk'
    BY <1>2, <2>0, <2>1 DEF PresentationInv, ErrOk, VerdictTold
  <2>5. LineOk'
    BY <1>2, <2>0, <2>1 DEF PresentationInv, LineOk
  <2> QED
    BY <2>2, <2>3, <2>4, <2>5 DEF PresentationInv
<1> QED
  BY <1>1, <1>2

(* The places of one kind.                                                 *)
LEMMA NoPlace ==
  ASSUME NEW stream, NEW kind, \A k \in DOMAIN stream : stream[k].kind # kind
  PROVE  Places(stream, kind) = {} /\ Cardinality(Places(stream, kind)) = 0
<1>1. Places(stream, kind) = {}
  BY DEF Places
<1> QED
  BY <1>1, FS_EmptySet

LEMMA OnePlace ==
  ASSUME NEW stream, NEW kind, NEW v \in DOMAIN stream, stream[v].kind = kind,
         \A k \in DOMAIN stream : stream[k].kind = kind => k = v
  PROVE  Places(stream, kind) = {v} /\ Cardinality(Places(stream, kind)) = 1
<1>1. Places(stream, kind) = {v}
  BY DEF Places
<1> QED
  BY <1>1, FS_Singleton

(* A stream's colour has a reason.                                         *)
LEMMA ColorHasReason ==
  ASSUME NEW tty, StreamStyle(tty).color
  PROVE  \/ opts.color = "always"
         \/ /\ opts.color = "auto" /\ "NO_COLOR" \notin opts.env
            /\ tty \/ "CLICOLOR_FORCE" \in opts.env
<1>1. ColorEnabled(tty)
  BY DEF StreamStyle
<1> QED
  BY <1>1 DEF ColorEnabled

LEMMA InvGivesApart == PresentationInv => StreamsKeepApart
<1> SUFFICES ASSUME PresentationInv
             PROVE  StreamsKeepApart
  OBVIOUS
<1>0. StagesOk /\ OutOk /\ ErrOk /\ LineOk
  BY DEF PresentationInv
<1>1. /\ opts.file \in BOOLEAN /\ opts.shape \in {"single", "baseline", "matrix"}
      /\ OutStyle.color \in BOOLEAN /\ ErrStyle.color \in BOOLEAN
  BY <1>0, StylesAreBoolean DEF StagesOk, Options
<1> DEFINE early == doing \in {"suite", "history", "report"}
           section == Text("section", OutStyle.color)
           banner == Banner(OutStyle)
<1>2. /\ opts.file \/ early => out = <<>>
      /\ ~opts.file /\ ~early =>
           out = IF ~JoinsStdout \/ (~SectionTold /\ ~VerdictTold) THEN <<TheReport>>
                 ELSE IF ~VerdictTold THEN <<TheReport, section>>
                 ELSE IF ~SectionTold THEN <<TheReport, banner>>
                 ELSE <<TheReport, section, banner>>
  BY <1>0, <1>1 DEF OutOk, Expected, StagesOk
<1>3. /\ section.kind = "section" /\ section.color = OutStyle.color
      /\ banner.kind = "verdict" /\ banner.color = OutStyle.color
      /\ TheReport.kind = "report"
      /\ TheReport.color => opts.reporter = "terminal"
      /\ TheReport.color => opts.file \/ OutStyle.color
  BY DEF Text, Banner, TheReport, ReportStyle
<1>4. opts.file => TheReport = Text("report", FALSE)
  BY DEF TheReport, ReportStyle, PlainStyle
<1>5. JoinsStdout <=> opts.reporter = "terminal" /\ ~opts.file
  BY DEF JoinsStdout
<1>6. file = IF opts.file /\ ~early THEN <<TheReport>> ELSE <<>>
  BY <1>0 DEF OutOk
<1> HIDE DEF section, banner
(* What stands on stdout.                                                  *)
<1>7. \/ out = <<>> \/ out = <<TheReport>>
      \/ /\ JoinsStdout
         /\ \/ out = <<TheReport, section>> \/ out = <<TheReport, banner>>
            \/ out = <<TheReport, section, banner>>
  BY <1>1, <1>2
<1>8. /\ Kinds(out) \subseteq {"report", "section", "verdict"}
      /\ ~JoinsStdout => Kinds(out) \subseteq {"report"}
      /\ \A k \in DOMAIN out : out[k].color => OutStyle.color
  <2>1. \A k \in DOMAIN out :
          /\ out[k] \in {TheReport, section, banner}
          /\ ~JoinsStdout => out[k] = TheReport
    BY <1>7
  <2>2. out = <<>> \/ ~opts.file
    BY <1>2
  <2> QED
    BY <1>3, <2>1, <2>2 DEF Kinds
<1>9. opts.reporter # "terminal" =>
        Kinds(out) \subseteq {"report"} /\ \A k \in DOMAIN out : ~out[k].color
  BY <1>3, <1>5, <1>7, <1>8
<1>10. opts.file => out = <<>> /\ \A k \in DOMAIN file : file[k] = Text("report", FALSE)
  <2>1. \A k \in DOMAIN file : opts.file /\ file[k] = TheReport
    BY <1>1, <1>6
  <2> QED
    BY <1>2, <1>4, <2>1
<1>11. ASSUME doing = "done"
       PROVE  /\ Cardinality(Places(out, "verdict")) + Cardinality(Places(err, "verdict")) = 1
              /\ Cardinality(Places(out, "report")) + Cardinality(Places(file, "report")) = 1
              /\ \A k \in Places(out, "verdict") : k = Len(out)
              /\ \A k \in Places(err, "verdict"), n \in DOMAIN err : n > k => err[n].kind = "hint"
  <2>0. ~early /\ VerdictTold
    BY <1>11 DEF VerdictTold
  <2>1. CASE JoinsStdout
    <3>1. ~opts.file /\ \/ out = <<TheReport, banner>> \/ out = <<TheReport, section, banner>>
      BY <1>2, <1>5, <2>0, <2>1
    <3>2. /\ Len(out) \in DOMAIN out /\ 1 \in DOMAIN out
          /\ out[Len(out)].kind = "verdict" /\ out[1].kind = "report"
          /\ \A k \in DOMAIN out : out[k].kind = "verdict" => k = Len(out)
          /\ \A k \in DOMAIN out : out[k].kind = "report" => k = 1
      <4>1. CASE out = <<TheReport, banner>>
        <5>1. Len(out) = 2 /\ DOMAIN out = 1 .. 2 /\ out[1] = TheReport /\ out[2] = banner
          BY <4>1
        <5>2. \A k \in 1 .. 2 : k = 1 \/ k = 2
          OBVIOUS
        <5> QED
          BY <1>3, <5>1, <5>2
      <4>2. CASE out = <<TheReport, section, banner>>
        <5>1. /\ Len(out) = 3 /\ DOMAIN out = 1 .. 3
              /\ out[1] = TheReport /\ out[2] = section /\ out[3] = banner
          BY <4>2
        <5>2. \A k \in 1 .. 3 : k = 1 \/ k = 2 \/ k = 3
          OBVIOUS
        <5> QED
          BY <1>3, <5>1, <5>2
      <4> QED
        BY <3>1, <4>1, <4>2
    <3>3. Places(out, "verdict") = {Len(out)} /\ Cardinality(Places(out, "verdict")) = 1
      BY <3>2, OnePlace
    <3>4. Cardinality(Places(out, "report")) = 1
      BY <3>2, OnePlace
    <3>5. file = <<>>
      BY <1>6, <3>1
    <3>6. Cardinality(Places(file, "report")) = 0
      BY <3>5, NoPlace
    <3>7. \A k \in DOMAIN err : err[k].kind # "verdict"
      BY <1>0, <2>1 DEF ErrOk, ToldOn
    <3>8. Places(err, "verdict") = {} /\ Cardinality(Places(err, "verdict")) = 0
      BY <3>7, NoPlace
    <3> QED
      BY <3>3, <3>4, <3>6, <3>8
  <2>2. CASE ~JoinsStdout
    <3>1. \A k \in DOMAIN out : out[k].kind # "verdict"
      BY <1>3, <1>7, <2>2
    <3>2. Places(out, "verdict") = {} /\ Cardinality(Places(out, "verdict")) = 0
      BY <3>1, NoPlace
    <3>3. ToldOn(err, TRUE)
      <4>1. (VerdictTold /\ ~JoinsStdout) = TRUE
        BY <2>0, <2>2
      <4> QED
        BY <1>0, <4>1 DEF ErrOk
    <3>4. PICK v \in DOMAIN err : /\ err[v].kind = "verdict"
                                  /\ \A n \in DOMAIN err : n < v => err[n].kind # "verdict"
                                  /\ \A n \in DOMAIN err : n > v => err[n].kind = "hint"
      BY <3>3 DEF ToldOn
    <3>5. DOMAIN err = 1 .. Len(err) /\ Len(err) \in Nat
      BY <1>0 DEF ErrOk, PlainErr
    <3>6. \A k \in DOMAIN err : err[k].kind = "verdict" => k = v
      BY <3>4, <3>5
    <3>7. Places(err, "verdict") = {v} /\ Cardinality(Places(err, "verdict")) = 1
      <4>1. v \in DOMAIN err /\ err[v].kind = "verdict"
        BY <3>4
      <4> QED
        BY <3>6, <4>1, OnePlace, Zenon
    <3>8. \A k \in Places(err, "verdict"), n \in DOMAIN err : n > k => err[n].kind = "hint"
      BY <3>4, <3>7
    <3>9. CASE opts.file
      <4>1. out = <<>> /\ file = <<TheReport>>
        BY <1>2, <1>6, <2>0, <3>9
      <4>2. Cardinality(Places(out, "report")) = 0
        BY <4>1, NoPlace
      <4>3. 1 \in DOMAIN file /\ file[1].kind = "report" /\ \A k \in DOMAIN file : k = 1
        BY <1>3, <4>1
      <4>4. Cardinality(Places(file, "report")) = 1
        BY <4>3, OnePlace
      <4> QED
        BY <3>2, <3>7, <3>8, <4>2, <4>4
    <3>10. CASE ~opts.file
      <4>1. out = <<TheReport>> /\ file = <<>>
        BY <1>2, <1>6, <2>0, <2>2, <3>10
      <4>2. Cardinality(Places(file, "report")) = 0
        BY <4>1, NoPlace
      <4>3. 1 \in DOMAIN out /\ out[1].kind = "report" /\ \A k \in DOMAIN out : k = 1
        BY <1>3, <4>1
      <4>4. Cardinality(Places(out, "report")) = 1
        BY <4>3, OnePlace
      <4> QED
        BY <3>2, <3>7, <3>8, <4>2, <4>4
    <3> QED
      BY <1>1, <3>9, <3>10
  <2> QED
    BY <2>1, <2>2
<1>12. \A l \in line : doing = "suite" /\ l.count = ticked /\ opts.errTty
  BY <1>0 DEF LineOk, ShowsProgress
<1>13. /\ (\E k \in DOMAIN out : out[k].color) => StreamStyle(opts.outTty).color
       /\ (\E k \in DOMAIN err : err[k].color) => StreamStyle(opts.errTty).color
  BY <1>0, <1>8 DEF ErrOk, PlainErr, OutStyle, ErrStyle
<1>14. \A stream \in {<<out, opts.outTty>>, <<err, opts.errTty>>} :
         (\E k \in DOMAIN stream[1] : stream[1][k].color) =>
           \/ opts.color = "always"
           \/ /\ opts.color = "auto" /\ "NO_COLOR" \notin opts.env
              /\ stream[2] \/ "CLICOLOR_FORCE" \in opts.env
  BY <1>13, ColorHasReason
<1> QED
  BY <1>8, <1>9, <1>10, <1>11, <1>12, <1>14 DEF StreamsKeepApart

(* The report owns stdout, the verdict is told once and last, and colour   *)
(* has its reason (StreamsKeepApart).                                      *)
THEOREM StreamsApart == PresentationSpec => []StreamsKeepApart
<1> QED
  BY PresentationStarts, PresentationSteps, InvGivesApart, PTL DEF PresentationSpec
-----------------------------------------------------------------------------
(* The pages of the viewer. *)

ViewerSpec == ViewerInit /\ [][ViewerNext]_viewerVars

RowsOk == rows \in Seq([target : RowTargets, summary : Summaries \cup {Corrupt}])

(* What a line of a listing says of the table, which stays true of it.     *)
TrueLink(entry, link) ==
  /\ link.b = entry.run /\ link.a \in 1 .. entry.run - 1
  /\ rows[link.a].target = entry.target
  /\ \A id \in link.a + 1 .. entry.run - 1 : rows[id].target # entry.target
TrueEntry(entry) ==
  /\ entry.run \in DOMAIN rows
  /\ entry.target = rows[entry.run].target
  /\ entry.counts = IF rows[entry.run].summary = Corrupt THEN {}
                    ELSE {Counts(rows[entry.run].summary)}
  /\ \A link \in entry.diff : TrueLink(entry, link)

DiffPage(link) ==
  LET a == LoadArm(link.a) b == LoadArm(link.b) IN
    IF a.status # 200 THEN a
    ELSE IF b.status = 200 THEN [status |-> 200, arms |-> <<a.arm, b.arm>>] ELSE b
TruePage(of, from, shows) ==
  /\ TrueEntry(from)
  /\ \/ of = "run" /\ shows = RunPage(from.run)
     \/ of = "diff" /\ \E link \in from.diff : shows = DiffPage(link)
TrueArm(from, link, a) ==
  TrueEntry(from) /\ link \in from.diff /\ a = LoadArm(link.a) /\ a.status = 200

ViewerInv ==
  /\ RowsOk
  /\ \A entry \in Listed : TrueEntry(entry)
  /\ page # Nothing => TruePage(page.of, page.from, page.shows)
  /\ pending # Nothing => TrueArm(pending.from, pending.link, pending.a)

(* What a page shows of a row that is there.                               *)
LEMMA PagesOfRows ==
  ASSUME NEW id \in DOMAIN rows
  PROVE  /\ RunPage(id) = IF rows[id].summary = Corrupt THEN ServerError
                          ELSE [status |-> 200, run |-> id, counts |-> Counts(rows[id].summary)]
         /\ LoadArm(id) = IF rows[id].summary = Corrupt THEN ServerError
                          ELSE [status |-> 200,
                                arm |-> [run |-> id, target |-> rows[id].target,
                                         counts |-> Counts(rows[id].summary)]]
<1>1. LoadRun(id) = {Meta(id)}
  BY DEF LoadRun
<1>2. (CHOOSE m \in LoadRun(id) : TRUE) = Meta(id) /\ LoadRun(id) # {}
  BY <1>1
<1>3. Meta(id).summary = rows[id].summary /\ Meta(id).target = rows[id].target
  BY DEF Meta
<1> QED
  BY <1>2, <1>3 DEF RunPage, LoadArm

(* The table only grows, and what is true of its rows stays true.          *)
Grows == /\ DOMAIN rows \subseteq DOMAIN rows'
         /\ \A id \in DOMAIN rows : rows'[id] = rows[id]

LEMMA EntriesStayTrue ==
  ASSUME RowsOk, Grows, NEW entry, TrueEntry(entry)
  PROVE  /\ TrueEntry(entry)'
         /\ RunPage(entry.run)' = RunPage(entry.run)
         /\ \A link \in entry.diff :
              /\ LoadArm(link.a)' = LoadArm(link.a)
              /\ LoadArm(link.b)' = LoadArm(link.b)
<1>1. /\ DOMAIN rows = 1 .. Len(rows) /\ Len(rows) \in Nat
      /\ entry.run \in 1 .. Len(rows)
  BY DEF RowsOk, TrueEntry
<1>2. ASSUME NEW id \in DOMAIN rows
      PROVE  RunPage(id)' = RunPage(id) /\ LoadArm(id)' = LoadArm(id)
  <2>1. id \in DOMAIN rows' /\ rows'[id] = rows[id]
    BY DEF Grows
  <2>2. Meta(id)' = Meta(id) /\ LoadRun(id)' = LoadRun(id)
    BY <2>1 DEF Meta, LoadRun
  <2> QED
    BY <2>2 DEF RunPage, LoadArm
<1>3. \A link \in entry.diff :
        /\ link.b = entry.run /\ link.a \in DOMAIN rows
        /\ \A id \in link.a .. entry.run - 1 : id \in DOMAIN rows
  BY <1>1 DEF TrueEntry, TrueLink
<1>4. TrueEntry(entry)'
  <2>1. /\ entry.run \in DOMAIN rows' /\ rows'[entry.run] = rows[entry.run]
    BY DEF TrueEntry, Grows
  <2>2. ASSUME NEW link \in entry.diff
        PROVE  TrueLink(entry, link)'
    <3>1. TrueLink(entry, link)
      BY DEF TrueEntry
    <3>2. \A id \in link.a .. entry.run - 1 : rows'[id] = rows[id]
      BY <1>3 DEF Grows
    <3>3. link.a \in link.a .. entry.run - 1
      BY <1>1, <3>1 DEF TrueLink
    <3>4. \A id \in link.a + 1 .. entry.run - 1 : id \in link.a .. entry.run - 1
      BY <1>1, <3>1 DEF TrueLink
    <3> QED
      BY <3>1, <3>2, <3>3, <3>4 DEF TrueLink
  <2> QED
    BY <2>1, <2>2 DEF TrueEntry
<1>5. entry.run \in DOMAIN rows
  BY DEF TrueEntry
<1> QED
  BY <1>2, <1>3, <1>4, <1>5

(* What is on screen or under way stays true with the table's growth.      *)
LEMMA PagesStayTrue ==
  ASSUME RowsOk, Grows
  PROVE  /\ \A of, from, shows : TruePage(of, from, shows) => TruePage(of, from, shows)'
         /\ \A from, link, a : TrueArm(from, link, a) => TrueArm(from, link, a)'
<1>1. ASSUME NEW of, NEW from, NEW shows, TruePage(of, from, shows)
      PROVE  TruePage(of, from, shows)'
  <2>1. /\ TrueEntry(from)' /\ RunPage(from.run)' = RunPage(from.run)
        /\ \A link \in from.diff : DiffPage(link)' = DiffPage(link)
    BY <1>1, EntriesStayTrue DEF TruePage, DiffPage
  <2> QED
    BY <1>1, <2>1 DEF TruePage
<1>2. ASSUME NEW from, NEW link, NEW a, TrueArm(from, link, a)
      PROVE  TrueArm(from, link, a)'
  BY <1>2, EntriesStayTrue DEF TrueArm
<1> QED
  BY <1>1, <1>2

(* The rows in the order of the listing.                                   *)
LEMMA RunsAreRows ==
  ASSUME RowsOk
  PROVE  /\ Len(rows) \in Nat /\ DOMAIN rows = 1 .. Len(rows)
         /\ DOMAIN ListRuns = 1 .. Len(rows) /\ Len(ListRuns) = Len(rows)
         /\ \A k \in 1 .. Len(rows) : ListRuns[k] = Meta(Len(rows) + 1 - k)
<1> DEFINE n == Len(rows)
           runs == ListRuns
           metas == [id \in DOMAIN rows |-> Meta(id)]
<1>1. n \in Nat /\ DOMAIN rows = 1 .. n
  BY DEF RowsOk
<1>2. DOMAIN metas = 1 .. n /\ Len(metas) = n
  BY <1>1
<1>3. runs = [k \in 1 .. n |-> metas[(n - k) + 1]]
  BY <1>2 DEF ListRuns, Reverse
<1>4. \A k \in 1 .. n : (n - k) + 1 \in DOMAIN metas /\ (n - k) + 1 = n + 1 - k
  BY <1>1
<1>5. \A k \in 1 .. n : runs[k] = Meta(n + 1 - k)
  BY <1>3, <1>4
<1> HIDE DEF metas
<1>6. DOMAIN runs = 1 .. n
  BY <1>3
<1> QED
  BY <1>1, <1>3, <1>5, <1>6

(* Every line of a listing is true when it is made.                        *)
LEMMA ListedIsTrue ==
  ASSUME RowsOk
  PROVE  \A entry \in Range(IndexPage(ListRuns).entries) : TrueEntry(entry)
<1> DEFINE n == Len(rows)
           runs == ListRuns
<1>1. n \in Nat /\ DOMAIN rows = 1 .. n
  BY RunsAreRows
<1>2. /\ DOMAIN runs = 1 .. n /\ Len(runs) = n
      /\ \A k \in 1 .. n : runs[k] = Meta(n + 1 - k)
  BY RunsAreRows
<1> HIDE DEF n, runs
<1>3. ASSUME NEW k \in 1 .. n
      PROVE  TrueEntry(Entry(runs, k))
  <2> DEFINE id == n + 1 - k
             e == Entry(runs, k)
  <2>1. id \in 1 .. n /\ id = n + 1 - k
    BY <1>1
  <2>2. /\ runs[k].id = id /\ runs[k].target = rows[id].target
        /\ runs[k].summary = rows[id].summary
    BY <1>2 DEF Meta
  <2>3. /\ e.run = id /\ e.target = rows[id].target
        /\ e.counts = IF rows[id].summary = Corrupt THEN {} ELSE {Counts(rows[id].summary)}
        /\ e.diff = {[a |-> old, b |-> id] : old \in PreviousSameTarget(runs, k)}
    BY <2>2 DEF Entry
  <2> HIDE DEF id, e
  <2>4. ASSUME NEW link \in e.diff
        PROVE  TrueLink(e, link)
    <3> DEFINE older == {j \in k + 1 .. n : runs[j].target = runs[k].target}
    <3>1. PICK j \in older : link = [a |-> runs[j].id, b |-> id] /\ \A m \in older : j <= m
      BY <1>2, <2>3 DEF PreviousSameTarget
    <3>2. j \in k + 1 .. n /\ runs[j].target = runs[k].target
      OBVIOUS
    <3>3. /\ link.b = id /\ link.a = n + 1 - j /\ link.a \in 1 .. id - 1
          /\ rows[link.a].target = e.target
      <4>1. j \in 1 .. n /\ runs[j].id = n + 1 - j /\ runs[j].target = rows[n + 1 - j].target
        BY <1>1, <1>2, <3>2 DEF Meta
      <4>2. link.b = id /\ link.a = n + 1 - j
        BY <3>1, <4>1
      <4>3. n + 1 - j \in 1 .. id - 1
        BY <1>1, <2>1, <3>2
      <4> QED
        BY <2>2, <2>3, <3>2, <4>1, <4>2, <4>3
    <3>4. ASSUME NEW i \in link.a + 1 .. id - 1, rows[i].target = e.target
          PROVE  FALSE
      <4>1. n + 1 - i \in k + 1 .. n /\ n + 1 - i < j /\ n + 1 - i \in 1 .. n
        <5>1. /\ n \in Nat /\ k \in 1 .. n /\ id = n + 1 - k /\ j \in Int
              /\ link.a = n + 1 - j /\ link.a \in Int
          BY <1>1, <2>1, <3>2, <3>3
        <5>2. i \in Int /\ i >= link.a + 1 /\ i <= id - 1 /\ link.a >= 1
          BY <3>3, <3>4, <5>1
        <5> QED
          BY <5>1, <5>2
      <4>2. n + 1 - (n + 1 - i) = i
        <5>1. n \in Nat /\ link.a \in Int /\ id \in Int
          BY <1>1, <2>1, <3>3
        <5>2. i \in Int
          BY <3>4, <5>1
        <5> QED
          BY <5>1, <5>2
      <4>3. runs[n + 1 - i].target = rows[i].target
        BY <1>2, <4>1, <4>2 DEF Meta
      <4>4. n + 1 - i \in older
        BY <2>2, <2>3, <3>4, <4>1, <4>3
      <4>5. j <= n + 1 - i
        BY <3>1, <4>4
      <4> QED
        BY <1>1, <3>2, <4>1, <4>5
    <3> QED
      BY <2>3, <3>3, <3>4 DEF TrueLink
  <2>5. TrueEntry(e)
    BY <1>1, <2>1, <2>3, <2>4 DEF TrueEntry
  <2> QED
    BY <2>5 DEF e
<1>4. IndexPage(runs).entries = [k \in 1 .. n |-> Entry(runs, k)]
  BY <1>2 DEF IndexPage
<1>5. \A entry \in Range(IndexPage(runs).entries) : TrueEntry(entry)
  BY <1>3, <1>4 DEF Range
<1> QED
  BY <1>5 DEF runs

LEMMA ViewerStarts == ViewerInit => ViewerInv
BY DEF ViewerInit, ViewerInv, RowsOk, Listed

LEMMA ViewerSteps == ViewerInv /\ [ViewerNext]_viewerVars => ViewerInv'
<1> SUFFICES ASSUME ViewerInv, [ViewerNext]_viewerVars
             PROVE  ViewerInv'
  OBVIOUS
<1>0. /\ RowsOk
      /\ \A entry \in Listed : TrueEntry(entry)
      /\ page # Nothing => TruePage(page.of, page.from, page.shows)
      /\ pending # Nothing => TrueArm(pending.from, pending.link, pending.a)
  BY DEF ViewerInv
<1>1. ASSUME NEW target \in RowTargets, NEW summary \in Summaries \cup {Corrupt},
             AppendRow(target, summary)
      PROVE  ViewerInv'
  <2>1. RowsOk'
    BY <1>0, <1>1 DEF AppendRow, RowsOk
  <2>2. Grows
    BY <1>0, <1>1 DEF AppendRow, RowsOk, Grows
  <2>3. listing' = listing /\ page' = page /\ pending' = pending /\ Listed' = Listed
    BY <1>1 DEF AppendRow, Listed
  <2>4. \A entry \in Listed' : TrueEntry(entry)'
    BY <1>0, <2>2, <2>3, EntriesStayTrue
  <2>5. (page # Nothing => TruePage(page.of, page.from, page.shows))'
    BY <1>0, <2>2, <2>3, PagesStayTrue
  <2>6. (pending # Nothing => TrueArm(pending.from, pending.link, pending.a))'
    BY <1>0, <2>2, <2>3, PagesStayTrue
  <2> QED
    BY <2>1, <2>4, <2>5, <2>6 DEF ViewerInv
<1>2. ASSUME UNCHANGED rows
      PROVE  /\ RowsOk'
             /\ \A entry : TrueEntry(entry)' <=> TrueEntry(entry)
             /\ \A of, from, shows : TruePage(of, from, shows)' <=> TruePage(of, from, shows)
             /\ \A from, link, a : TrueArm(from, link, a)' <=> TrueArm(from, link, a)
  <2>1. RowsOk' /\ \A entry : TrueEntry(entry)' <=> TrueEntry(entry)
    BY <1>0, <1>2 DEF RowsOk, TrueEntry, TrueLink
  <2>2. \A id : /\ Meta(id)' = Meta(id) /\ LoadRun(id)' = LoadRun(id)
                /\ RunPage(id)' = RunPage(id) /\ LoadArm(id)' = LoadArm(id)
    BY <1>2 DEF Meta, LoadRun, RunPage, LoadArm
  <2>3. \A of, from, shows : TruePage(of, from, shows)' <=> TruePage(of, from, shows)
    BY <2>1, <2>2 DEF TruePage, DiffPage
  <2>4. \A from, link, a : TrueArm(from, link, a)' <=> TrueArm(from, link, a)
    BY <2>1, <2>2 DEF TrueArm
  <2> QED
    BY <2>1, <2>3, <2>4
<1>3. CASE GetIndex
  <2>1. /\ UNCHANGED <<rows, pending>> /\ page' = Nothing
        /\ listing'.shows = IndexPage(ListRuns)
    BY <1>3 DEF GetIndex
  <2>2. Listed' \subseteq Range(IndexPage(ListRuns).entries)
    BY <2>1 DEF Listed
  <2>3. \A entry \in Listed' : TrueEntry(entry)'
    BY <1>0, <1>2, <2>1, <2>2, ListedIsTrue
  <2> QED
    BY <1>0, <1>2, <2>1, <2>3 DEF ViewerInv
<1>4. ASSUME NEW entry \in Listed, GetRun(entry)
      PROVE  ViewerInv'
  <2>1. /\ UNCHANGED <<rows, listing, pending>> /\ Listed' = Listed
        /\ page'.of = "run" /\ page'.from = entry /\ page'.shows = RunPage(entry.run)
    BY <1>4 DEF GetRun, Listed
  <2>2. TruePage("run", entry, RunPage(entry.run))
    BY <1>0 DEF TruePage
  <2>3. TruePage(page.of, page.from, page.shows)'
    BY <1>2, <2>1, <2>2
  <2>4. \A e \in Listed' : TrueEntry(e)'
    BY <1>0, <1>2, <2>1
  <2> QED
    BY <1>0, <1>2, <2>1, <2>3, <2>4 DEF ViewerInv
<1>5. ASSUME NEW entry \in Listed, NEW link \in entry.diff, GetDiff(entry, link)
      PROVE  ViewerInv'
  <2>1. UNCHANGED <<rows, listing>> /\ Listed' = Listed
    BY <1>5 DEF GetDiff, Listed
  <2>2. \A e \in Listed' : TrueEntry(e)'
    BY <1>0, <1>2, <2>1
  <2>3. CASE LoadArm(link.a).status = 200
    <3>1. /\ page' = Nothing
          /\ pending'.from = entry /\ pending'.link = link /\ pending'.a = LoadArm(link.a)
      BY <1>5, <2>3 DEF GetDiff
    <3>2. TrueArm(entry, link, LoadArm(link.a))
      BY <1>0, <2>3 DEF TrueArm
    <3>3. TrueArm(pending.from, pending.link, pending.a)'
      BY <1>2, <2>1, <3>1, <3>2
    <3> QED
      BY <1>2, <2>1, <2>2, <3>1, <3>3 DEF ViewerInv
  <2>4. CASE LoadArm(link.a).status # 200
    <3>1. /\ pending' = pending
          /\ page'.of = "diff" /\ page'.from = entry /\ page'.shows = LoadArm(link.a)
      BY <1>5, <2>4 DEF GetDiff
    <3>2. DiffPage(link) = LoadArm(link.a)
      BY <2>4 DEF DiffPage
    <3>3. TruePage("diff", entry, LoadArm(link.a))
      BY <1>0, <3>2 DEF TruePage
    <3>4. TruePage(page.of, page.from, page.shows)'
      BY <1>2, <2>1, <3>1, <3>3
    <3> QED
      BY <1>0, <1>2, <2>1, <2>2, <3>1, <3>4 DEF ViewerInv
  <2> QED
    BY <2>3, <2>4
<1>6. CASE FinishDiff
  <2>1. UNCHANGED <<rows, listing>> /\ Listed' = Listed /\ pending' = Nothing /\ pending # Nothing
    BY <1>6 DEF FinishDiff, Listed
  <2>2. \A e \in Listed' : TrueEntry(e)'
    BY <1>0, <1>2, <2>1
  <2> DEFINE link == pending.link
             b == LoadArm(link.b)
  <2>3. /\ TrueEntry(pending.from) /\ link \in pending.from.diff
        /\ pending.a = LoadArm(link.a) /\ pending.a.status = 200
    BY <1>0, <2>1 DEF TrueArm
  <2>4. /\ page'.of = "diff" /\ page'.from = pending.from
        /\ page'.shows = IF b.status = 200
                         THEN [status |-> 200, arms |-> <<pending.a.arm, b.arm>>] ELSE b
    BY <1>6 DEF FinishDiff
  <2>5. page'.shows = DiffPage(link)
    BY <2>3, <2>4 DEF DiffPage
  <2>6. TruePage("diff", pending.from, DiffPage(link))
    BY <2>3 DEF TruePage
  <2>7. TruePage(page.of, page.from, page.shows)'
    BY <1>2, <2>1, <2>4, <2>5, <2>6
  <2> QED
    BY <1>0, <1>2, <2>1, <2>2, <2>7 DEF ViewerInv
<1>7. CASE UNCHANGED viewerVars
  <2>1. UNCHANGED <<rows, listing, page, pending>> /\ Listed' = Listed
    BY <1>7 DEF viewerVars, Listed
  <2> QED
    BY <1>0, <1>2, <2>1 DEF ViewerInv
<1> QED
  BY <1>1, <1>3, <1>4, <1>5, <1>6, <1>7 DEF ViewerNext

LEMMA InvGivesWord == ViewerInv => LinksKeepTheirWord
<1> SUFFICES ASSUME ViewerInv, page # Nothing
             PROVE  LinksKeepTheirWord
  BY DEF LinksKeepTheirWord
<1> DEFINE from == page.from
           shows == page.shows
<1>1. TrueEntry(from)
  BY DEF ViewerInv, TruePage
<1>2. /\ from.run \in DOMAIN rows /\ from.target = rows[from.run].target
      /\ from.counts = IF rows[from.run].summary = Corrupt THEN {}
                       ELSE {Counts(rows[from.run].summary)}
      /\ \A link \in from.diff : TrueLink(from, link)
  BY <1>1 DEF TrueEntry
<1>3. DOMAIN rows = 1 .. Len(rows) /\ Len(rows) \in Nat
  BY DEF ViewerInv, RowsOk
<1>4. CASE page.of = "run"
  <2>1. shows = RunPage(from.run)
    BY <1>4 DEF ViewerInv, TruePage
  <2>2. IF from.counts = {} THEN shows = ServerError
        ELSE shows.status = 200 /\ shows.run = from.run /\ {shows.counts} = from.counts
    BY <1>2, <2>1, PagesOfRows
  <2> QED
    BY <1>4, <2>2 DEF LinksKeepTheirWord
<1>5. CASE page.of # "run"
  <2>1. PICK link \in from.diff : shows = DiffPage(link)
    BY <1>5 DEF ViewerInv, TruePage
  <2>2. /\ link.b = from.run /\ link.a \in 1 .. from.run - 1
        /\ rows[link.a].target = from.target
        /\ \A id \in link.a + 1 .. from.run - 1 : rows[id].target # from.target
    BY <1>2 DEF TrueLink
  <2>3. link.a \in DOMAIN rows /\ link.a \in 1 .. from.run /\ from.run \in 1 .. from.run
    BY <1>2, <1>3, <2>2
  <2> DEFINE ca == rows[link.a].summary
             cb == rows[from.run].summary
             a == [run |-> link.a, target |-> rows[link.a].target, counts |-> Counts(ca)]
             b == [run |-> from.run, target |-> rows[from.run].target, counts |-> Counts(cb)]
  <2>4. /\ LoadArm(link.a) = IF ca = Corrupt THEN ServerError ELSE [status |-> 200, arm |-> a]
        /\ LoadArm(link.b) = IF cb = Corrupt THEN ServerError ELSE [status |-> 200, arm |-> b]
    BY <1>2, <2>2, <2>3, PagesOfRows
  <2>5. shows = IF ca = Corrupt \/ cb = Corrupt THEN ServerError
                ELSE [status |-> 200, arms |-> <<a, b>>]
    <3> HIDE DEF a, b, ca, cb
    <3>1. /\ ServerError.status # 200
          /\ [status |-> 200, arm |-> a].status = 200 /\ [status |-> 200, arm |-> a].arm = a
          /\ [status |-> 200, arm |-> b].status = 200 /\ [status |-> 200, arm |-> b].arm = b
      BY DEF ServerError
    <3> QED
      BY <2>1, <2>4, <3>1 DEF DiffPage
  <2>6. CASE ca = Corrupt \/ cb = Corrupt
    <3>1. /\ shows = ServerError /\ shows # NotFound /\ shows.status # 200
      BY <2>5, <2>6 DEF ServerError, NotFound
    <3>2. \E id \in 1 .. from.run : rows[id].summary = Corrupt /\ rows[id].target = from.target
      BY <1>2, <2>2, <2>3, <2>6
    <3> QED
      BY <1>5, <3>1, <3>2 DEF LinksKeepTheirWord
  <2>7. CASE ca # Corrupt /\ cb # Corrupt
    <3>1. shows = [status |-> 200, arms |-> <<a, b>>]
      BY <2>5, <2>7
    <3>2. /\ a.run = link.a /\ a.target = rows[link.a].target
          /\ b.run = from.run /\ b.target = rows[from.run].target /\ b.counts = Counts(cb)
      OBVIOUS
    <3>3. from.counts = {Counts(cb)}
      BY <1>2, <2>7
    <3> HIDE DEF a, b, ca, cb
    <3>4. /\ shows.status = 200 /\ shows.arms[1] = a /\ shows.arms[2] = b
          /\ shows # NotFound /\ shows # ServerError
      <4>1. shows.status = 200 /\ shows.arms = <<a, b>>
        BY <3>1
      <4> QED
        BY <4>1 DEF NotFound, ServerError
    <3>5. /\ b.run = from.run /\ {b.counts} = from.counts
          /\ a.target = b.target /\ a.run < b.run
          /\ \A id \in a.run + 1 .. b.run - 1 : rows[id].target # b.target
      <4>1. link.a < from.run
        BY <1>2, <1>3, <2>2
      <4> QED
        BY <1>2, <2>2, <3>2, <3>3, <4>1
    <3> QED
      BY <1>5, <3>4, <3>5 DEF LinksKeepTheirWord
  <2> QED
    BY <2>6, <2>7
<1> QED
  BY <1>4, <1>5

(* A link leads to what its line said, however many runs came since        *)
(* (LinksKeepTheirWord).                                                   *)
THEOREM LinksAreKept == ViewerSpec => []LinksKeepTheirWord
<1> QED
  BY ViewerStarts, ViewerSteps, InvGivesWord, PTL DEF ViewerSpec

(* What a listing says of the rows that were there when it was loaded, and *)
(* of its trend; the rows that came since change none of it.               *)
ListingOk(targets, entries) ==
  /\ entries = [k \in 1 .. Len(targets) |-> entries[k]]
  /\ Len(targets) \in Nat /\ Len(targets) <= Len(rows)
  /\ \A k \in 1 .. Len(targets) :
       LET id == Len(targets) + 1 - k IN
         /\ entries[k].run = id /\ entries[k].target = targets[id]
         /\ entries[k].counts = IF rows[id].summary = Corrupt THEN {}
                                ELSE {Counts(rows[id].summary)}

ToldBy(entry) == {c \in entry.counts : c.total > 0}
Newest(entries) == {k \in DOMAIN entries : k <= SparklineRuns /\ ToldBy(entries[k]) # {}}
TrendOk(entries, points) ==
  /\ points # <<>> <=> Cardinality(Newest(entries)) >= 2
  /\ points # <<>> => Len(points) = Cardinality(Newest(entries))
  /\ \A k \in Newest(entries) : points # <<>> =>
       LET c == CHOOSE t \in ToldBy(entries[k]) : TRUE
           younger == {j \in Newest(entries) : j < k}
       IN points[Len(points) - Cardinality(younger)] = <<c.passed, c.total>>

HistoryInv ==
  /\ RowsOk
  /\ listing # Nothing => /\ ListingOk(listing.targets, listing.shows.entries)
                          /\ TrendOk(listing.shows.entries, listing.shows.sparkline)

LEMMA RowsAre ==
  ASSUME RowsOk, NEW id \in DOMAIN rows
  PROVE  rows[id] \in [target : RowTargets, summary : Summaries \cup {Corrupt}]
<1> DEFINE R == [target : RowTargets, summary : Summaries \cup {Corrupt}]
<1>1. rows \in Seq(R)
  BY DEF RowsOk
<1> HIDE DEF R
<1>2. rows[id] \in R
  BY <1>1
<1> QED
  BY <1>2 DEF R

LEMMA NewListingIsOk ==
  ASSUME RowsOk
  PROVE  ListingOk([k \in DOMAIN rows |-> rows[k].target], IndexPage(ListRuns).entries)
<1> DEFINE n == Len(rows)
           runs == ListRuns
           targets == [k \in DOMAIN rows |-> rows[k].target]
           entries == IndexPage(runs).entries
<1>1. /\ n \in Nat /\ DOMAIN rows = 1 .. n
      /\ DOMAIN runs = 1 .. n /\ \A k \in 1 .. n : runs[k] = Meta(n + 1 - k)
  BY RunsAreRows
<1>2. targets = [k \in 1 .. n |-> rows[k].target] /\ Len(targets) = n
  BY <1>1
<1> HIDE DEF n, runs, targets
<1>3. entries = [k \in 1 .. n |-> Entry(runs, k)]
  BY <1>1 DEF IndexPage
<1>4. ASSUME NEW k \in 1 .. n
      PROVE  LET id == n + 1 - k IN
               /\ entries[k].run = id /\ entries[k].target = targets[id]
               /\ entries[k].counts = IF rows[id].summary = Corrupt THEN {}
                                      ELSE {Counts(rows[id].summary)}
  <2> DEFINE id == n + 1 - k
  <2>1. id \in 1 .. n /\ runs[k] = Meta(id)
    BY <1>1
  <2> HIDE DEF id
  <2>2. runs[k].id = id /\ runs[k].target = targets[id] /\ runs[k].summary = rows[id].summary
    BY <1>2, <2>1 DEF Meta
  <2>3. /\ entries[k].run = id /\ entries[k].target = targets[id]
        /\ entries[k].counts = IF rows[id].summary = Corrupt THEN {}
                               ELSE {Counts(rows[id].summary)}
    BY <1>3, <2>2 DEF Entry
  <2> QED
    BY <2>3 DEF id
<1>5. entries = [k \in 1 .. n |-> entries[k]]
  BY <1>3
<1> HIDE DEF entries
<1>6. Len(targets) = n /\ n <= Len(rows)
  BY <1>1, <1>2 DEF n
<1>7. ListingOk(targets, entries)
  BY <1>1, <1>4, <1>5, <1>6 DEF ListingOk
<1> QED
  BY <1>7 DEF targets, entries, runs

(* A place is found by the number of places from it on.                    *)
Under(S, k) == {j \in S : j < k}
LEMMA PlaceByRank ==
  ASSUME NEW S, S \subseteq Nat, IsFiniteSet(S), NEW k \in S
  PROVE  /\ Cardinality({j \in S : j >= k}) = Cardinality(S) - Cardinality(Under(S, k))
         /\ Cardinality({j \in S : j >= k}) \in 1 .. Cardinality(S)
         /\ (CHOOSE i \in S : Cardinality({j \in S : j >= i}) = Cardinality({j \in S : j >= k})) = k
<1> DEFINE Later(i) == {j \in S : j >= i}
           before == {j \in S : j < k}
           n == Cardinality(Later(k))
           chosen == CHOOSE i \in S : Cardinality(Later(i)) = n
<1>1. \A i : IsFiniteSet(Later(i)) /\ Cardinality(Later(i)) \in Nat
  BY FS_Subset, FS_CardinalityType
<1>2. IsFiniteSet(before) /\ Cardinality(before) \in Nat /\ Cardinality(S) \in Nat
  BY FS_Subset, FS_CardinalityType
<1>3. n = Cardinality(S) - Cardinality(before) /\ n \in 1 .. Cardinality(S)
  <2>0. k \in Nat /\ k >= k /\ \A j \in S : j >= k <=> ~(j < k)
    OBVIOUS
  <2>1. S = Later(k) \cup before /\ Later(k) \cap before = {} /\ k \in Later(k)
    BY <2>0, Zenon
  <2>2. Cardinality(Later(k) \cup before) = n + Cardinality(before)
    <3> HIDE DEF before
    <3> QED
      BY <1>1, <1>2, <2>1, PartsCount, FS_Union
  <2>3. Cardinality(S) = Cardinality(Later(k) \cup before)
    BY <2>1, Zenon
  <2>4. n # 0
    BY <1>1, <2>1, FS_EmptySet
  <2> HIDE DEF n, before
  <2>5. n \in Nat
    BY <1>1 DEF n
  <2> QED
    BY <1>2, <2>2, <2>3, <2>4, <2>5
<1>4. ASSUME NEW i \in S, NEW m \in S, i < m
      PROVE  Cardinality(Later(m)) # Cardinality(Later(i))
  <2>0. i >= i /\ ~(i >= m) /\ \A j \in S : j >= m => j >= i
    BY <1>4
  <2>1. Later(m) \subseteq Later(i) /\ i \in Later(i) /\ i \notin Later(m)
    BY <2>0, Zenon
  <2>2. Later(m) # Later(i)
    BY <2>1
  <2> HIDE DEF Later
  <2>3. Cardinality(Later(m)) < Cardinality(Later(i))
    BY <1>1, <2>1, <2>2, FS_Subset
  <2> QED
    BY <1>1, <2>3
<1>5. chosen \in S /\ Cardinality(Later(chosen)) = n
  <2>1. \E i \in S : Cardinality(Later(i)) = n
    OBVIOUS
  <2> HIDE DEF Later, n
  <2> QED
    BY <2>1
<1>6. chosen = k
  <2> HIDE DEF Later, chosen
  <2>1. chosen \in Nat /\ k \in Nat
    BY <1>5
  <2>2. ~(chosen < k) /\ ~(k < chosen)
    BY <1>4, <1>5 DEF n
  <2> QED
    BY <2>1, <2>2
<1> QED
  BY <1>3, <1>6 DEF Under

LEMMA NewTrendIsOk ==
  ASSUME RowsOk
  PROVE  TrendOk(IndexPage(ListRuns).entries, IndexPage(ListRuns).sparkline)
<1> DEFINE n == Len(rows)
           runs == ListRuns
           entries == IndexPage(runs).entries
           points == IndexPage(runs).sparkline
           plotted == {k \in 1 .. Min({SparklineRuns, n}) : HasRate(runs[k])}
<1>1. /\ n \in Nat /\ DOMAIN rows = 1 .. n /\ DOMAIN runs = 1 .. n /\ Len(runs) = n
      /\ \A k \in 1 .. n : runs[k] = Meta(n + 1 - k)
  BY RunsAreRows
<1>2. \A k \in 1 .. n : runs[k].summary = Corrupt \/ runs[k].summary \in Seq(BOOLEAN)
  <2> SUFFICES ASSUME NEW k \in 1 .. n
               PROVE  runs[k].summary = Corrupt \/ runs[k].summary \in Seq(BOOLEAN)
    OBVIOUS
  <2> DEFINE id == n + 1 - k
  <2>1. id \in DOMAIN rows /\ runs[k].summary = rows[id].summary
    BY <1>1 DEF Meta
  <2> HIDE DEF id, n, runs
  <2>2. rows[id] \in [target : RowTargets, summary : Summaries \cup {Corrupt}]
    BY <1>1, <2>1, RowsAre, Zenon
  <2> QED
    BY <2>1, <2>2, SummariesAssumption
<1> HIDE DEF n, runs
<1>3. entries = [k \in 1 .. n |-> Entry(runs, k)]
  BY <1>1 DEF IndexPage
<1>4. ASSUME NEW k \in 1 .. n
      PROVE  /\ HasRate(runs[k]) <=> ToldBy(entries[k]) # {}
             /\ HasRate(runs[k]) => LET c == CHOOSE t \in ToldBy(entries[k]) : TRUE
                                    IN Rate(runs[k]) = <<c.passed, c.total>>
  <2> DEFINE summary == runs[k].summary
  <2>1. entries[k].counts = IF summary = Corrupt THEN {} ELSE {Counts(summary)}
    <3> HIDE DEF entries
    <3>1. entries[k] = Entry(runs, k)
      BY <1>3
    <3> QED
      BY <3>1 DEF Entry
  <2>2. Counts(summary).total = Len(summary) /\ Counts(summary).passed = PassedOf(summary)
    BY DEF Counts
  <2>3. summary # Corrupt => (Len(summary) > 0 <=> summary # <<>>)
    BY <1>2
  <2> HIDE DEF summary
  <2>4. HasRate(runs[k]) <=> summary # Corrupt /\ summary # <<>>
    BY DEF HasRate, summary
  <2>5. ToldBy(entries[k]) = IF summary # Corrupt /\ summary # <<>> THEN {Counts(summary)} ELSE {}
    BY <2>1, <2>2, <2>3 DEF ToldBy
  <2>6. Rate(runs[k]) = <<PassedOf(summary), Len(summary)>>
    BY DEF Rate, summary
  <2>7. HasRate(runs[k]) => (CHOOSE t \in ToldBy(entries[k]) : TRUE) = Counts(summary)
    <3> HIDE DEF entries
    <3> QED
      BY <2>4, <2>5
  <2> QED
    BY <2>2, <2>4, <2>5, <2>6, <2>7
<1>5. /\ plotted = Newest(entries) /\ plotted \subseteq 1 .. n
  <2> DEFINE least == Min({SparklineRuns, n})
  <2>1. /\ least \in {SparklineRuns, n} /\ least <= SparklineRuns /\ least <= n
        /\ SparklineRuns \in Nat /\ n \in Nat
    <3>1. {SparklineRuns, n} \subseteq Nat /\ {SparklineRuns, n} # {}
      BY <1>1, SparklineAssumption
    <3>2. least \in {SparklineRuns, n} /\ \A m \in {SparklineRuns, n} : least <= m
      BY <3>1, MinIsLeast
    <3> QED
      BY <1>1, <3>2, SparklineAssumption
  <2> HIDE DEF least
  <2>2. \A k : k \in 1 .. least <=> k \in 1 .. n /\ k <= SparklineRuns
    BY <2>1
  <2>3. DOMAIN entries = 1 .. n
    BY <1>3
  <2>4. \A k : k \in plotted <=> k \in 1 .. least /\ HasRate(runs[k])
    BY DEF least
  <2> HIDE DEF entries, plotted
  <2>5. \A k : k \in plotted <=> k \in Newest(entries)
    BY <1>4, <2>2, <2>3, <2>4 DEF Newest
  <2> QED
    BY <2>2, <2>4, <2>5
<1>6. IsFiniteSet(plotted) /\ Cardinality(plotted) \in Nat /\ plotted \subseteq Nat
  <2>1. 1 \in Int /\ n \in Int
    BY <1>1
  <2>2. IsFiniteSet(1 .. n)
    BY <2>1, FS_Interval
  <2> HIDE DEF plotted
  <2>3. IsFiniteSet(plotted)
    BY <1>5, <2>2, FS_Subset
  <2>4. 1 .. n \subseteq Nat
    BY <1>1
  <2> QED
    BY <1>5, <2>3, <2>4, FS_CardinalityType
<1> DEFINE Place(i) == CHOOSE k \in plotted : Cardinality({j \in plotted : j >= k}) = i
           size == Cardinality(plotted)
<1>7. points = IF size < 2 THEN <<>> ELSE [i \in 1 .. size |-> Rate(runs[Place(i)])]
  <2>1. points = IF runs = <<>> THEN <<>> ELSE Sparkline(runs)
    BY DEF IndexPage
  <2>2. Sparkline(runs) = IF size < 2 THEN <<>> ELSE [i \in 1 .. size |-> Rate(runs[Place(i)])]
    BY <1>1 DEF Sparkline
  <2>3. runs = <<>> => size < 2
    <3>1. runs = <<>> => 1 .. n = {}
      BY <1>1
    <3> HIDE DEF plotted
    <3>2. runs = <<>> => plotted = {}
      BY <1>5, <3>1
    <3> QED
      BY <3>2, FS_EmptySet
  <2> HIDE DEF points, size, Place
  <2> QED
    BY <2>1, <2>2, <2>3
<1> HIDE DEF entries, points, plotted
<1>8. ASSUME NEW k \in plotted, size >= 2
      PROVE  LET c == CHOOSE t \in ToldBy(entries[k]) : TRUE
                 younger == {j \in plotted : j < k}
             IN points[Len(points) - Cardinality(younger)] = <<c.passed, c.total>>
  <2> DEFINE i == Cardinality({j \in plotted : j >= k})
  <2>1. /\ i = size - Cardinality({j \in plotted : j < k}) /\ i \in 1 .. size /\ Place(i) = k
    <3>1. Cardinality({j \in plotted : j >= k}) =
            Cardinality(plotted) - Cardinality(Under(plotted, k))
      BY <1>6, PlaceByRank
    <3>3. Cardinality({j \in plotted : j >= k}) \in 1 .. Cardinality(plotted)
      BY <1>6, PlaceByRank
    <3>2. (CHOOSE m \in plotted : Cardinality({j \in plotted : j >= m})
                                   = Cardinality({j \in plotted : j >= k})) = k
      BY <1>6, PlaceByRank
    <3> QED
      BY <3>1, <3>2, <3>3 DEF Under
  <2>2. Rate(runs[k]) = LET c == CHOOSE t \in ToldBy(entries[k]) : TRUE
                        IN <<c.passed, c.total>>
    <3>1. k \in 1 .. n /\ HasRate(runs[k])
      BY <1>5 DEF plotted
    <3> QED
      BY <1>4, <3>1
  <2>3. ~(size < 2)
    BY <1>6, <1>8
  <2> HIDE DEF Place, size, i
  <2>4. Len(points) = size /\ points[i] = Rate(runs[Place(i)])
    BY <1>6, <1>7, <2>1, <2>3 DEF size
  <2> QED
    BY <2>1, <2>2, <2>4
<1>9. points # <<>> <=> size >= 2
  <2> HIDE DEF Place, size
  <2>1. size \in Nat
    BY <1>6 DEF size
  <2>2. size >= 2 => 1 \in DOMAIN points
    BY <1>7, <2>1
  <2>3. 1 \notin DOMAIN <<>>
    OBVIOUS
  <2>4. ~(size < 2) <=> size >= 2
    BY <2>1
  <2> QED
    BY <1>7, <2>2, <2>3, <2>4
<1>10. points # <<>> => Len(points) = size
  <2> HIDE DEF Place, size
  <2>1. size \in Nat
    BY <1>6 DEF size
  <2> QED
    BY <1>7, <2>1
<1>11. TrendOk(entries, points)
  BY <1>5, <1>8, <1>9, <1>10 DEF TrendOk
<1> QED
  BY <1>11 DEF entries, points, runs

LEMMA HistoryStarts == ViewerInit => HistoryInv
BY DEF ViewerInit, HistoryInv, RowsOk

LEMMA HistorySteps == HistoryInv /\ [ViewerNext]_viewerVars => HistoryInv'
<1> SUFFICES ASSUME HistoryInv, [ViewerNext]_viewerVars
             PROVE  HistoryInv'
  OBVIOUS
<1>1. /\ RowsOk
      /\ listing # Nothing => /\ ListingOk(listing.targets, listing.shows.entries)
                              /\ TrendOk(listing.shows.entries, listing.shows.sparkline)
  BY DEF HistoryInv
<1>2. ASSUME NEW target \in RowTargets, NEW summary \in Summaries \cup {Corrupt},
             AppendRow(target, summary)
      PROVE  HistoryInv'
  <2>1. RowsOk' /\ listing' = listing
    BY <1>1, <1>2 DEF AppendRow, RowsOk
  <2>2. /\ Len(rows) \in Nat /\ Len(rows') = Len(rows) + 1
        /\ \A id \in 1 .. Len(rows) : rows'[id] = rows[id]
    BY <1>1, <1>2 DEF AppendRow, RowsOk
  <2>3. ASSUME NEW targets, NEW entries, ListingOk(targets, entries)
        PROVE  ListingOk(targets, entries)'
    <3>1. Len(targets) \in Nat /\ Len(targets) <= Len(rows')
      BY <2>2, <2>3 DEF ListingOk
    <3>2. \A k \in 1 .. Len(targets) : Len(targets) + 1 - k \in 1 .. Len(rows)
      BY <2>2, <2>3 DEF ListingOk
    <3> QED
      BY <2>2, <2>3, <3>1, <3>2 DEF ListingOk
  <2> QED
    BY <1>1, <2>1, <2>3 DEF HistoryInv
<1>3. CASE GetIndex
  <2>1. /\ rows' = rows
        /\ listing'.targets = [k \in DOMAIN rows |-> rows[k].target]
        /\ listing'.shows = IndexPage(ListRuns)
    BY <1>3 DEF GetIndex
  <2>2. \A targets, entries : ListingOk(targets, entries)' <=> ListingOk(targets, entries)
    BY <2>1 DEF ListingOk
  <2>3. RowsOk'
    BY <1>1, <2>1 DEF RowsOk
  <2>4. /\ ListingOk(listing'.targets, listing'.shows.entries)
        /\ TrendOk(listing'.shows.entries, listing'.shows.sparkline)
    BY <1>1, <2>1, NewListingIsOk, NewTrendIsOk, Zenon
  <2>5. /\ ListingOk(listing.targets, listing.shows.entries)'
        /\ TrendOk(listing.shows.entries, listing.shows.sparkline)'
    BY <2>2, <2>4
  <2> QED
    BY <2>3, <2>5 DEF HistoryInv
<1>4. ASSUME UNCHANGED <<rows, listing>>
      PROVE  HistoryInv'
  BY <1>1, <1>4 DEF HistoryInv, RowsOk, ListingOk
<1>5. \A entry, link : GetRun(entry) \/ GetDiff(entry, link) => UNCHANGED <<rows, listing>>
  BY DEF GetRun, GetDiff
<1>6. FinishDiff \/ UNCHANGED viewerVars => UNCHANGED <<rows, listing>>
  BY DEF FinishDiff, viewerVars
<1> QED
  BY <1>2, <1>3, <1>4, <1>5, <1>6 DEF ViewerNext

LEMMA InvGivesHistory == HistoryInv => ListingIsHistory
<1> SUFFICES ASSUME HistoryInv, listing # Nothing
             PROVE  ListingIsHistory
  BY DEF ListingIsHistory
<1> DEFINE entries == listing.shows.entries
           points == listing.shows.sparkline
           n == Len(listing.targets)
<1>1. /\ entries = [k \in 1 .. n |-> entries[k]] /\ n \in Nat
      /\ \A k \in 1 .. n :
           /\ entries[k].run = n + 1 - k /\ entries[k].target = listing.targets[n + 1 - k]
           /\ entries[k].counts = IF rows[n + 1 - k].summary = Corrupt THEN {}
                                  ELSE {Counts(rows[n + 1 - k].summary)}
  BY DEF HistoryInv, ListingOk
<1>2. TrendOk(entries, points)
  BY DEF HistoryInv
<1> HIDE DEF entries, points, n
<1>3. DOMAIN entries = 1 .. n /\ Len(entries) = n
  BY <1>1
<1>4. \A k \in DOMAIN entries :
        /\ entries[k].run = Len(entries) + 1 - k
        /\ entries[k].target = listing.targets[entries[k].run]
        /\ entries[k].counts = {} <=> rows[entries[k].run].summary = Corrupt
  BY <1>1, <1>3
<1>5. \A k \in DOMAIN entries : ToldBy(entries[k]) = {c \in entries[k].counts : c.total > 0}
  BY DEF ToldBy
<1> QED
  BY <1>2, <1>3, <1>4, <1>5
     DEF ListingIsHistory, TrendOk, Newest, ToldBy, entries, points, n

(* The listing stays the history of what it was loaded from                *)
(* (ListingIsHistory).                                                     *)
THEOREM ListingsAreKept == ViewerSpec => []ListingIsHistory
<1> QED
  BY HistoryStarts, HistorySteps, InvGivesHistory, PTL DEF ViewerSpec
-----------------------------------------------------------------------------
(* Gradings: what each was told is in the cassette, unless it was recorded *)
(* anew since, and what judge found there a judge was told.                *)

ScorersSpec == ScorersInit /\ [][ScorersNext]_scorerVars

PlainNames ==
  ({"exact", "contains"} \X BOOLEAN) \cup {<<"regex">>, <<"json-schema">>, <<"similarity">>}
AskerNames == ({"judge"} \X Rubrics) \cup {<<"similarity">>}

SchemaGrade(output) ==
  IF output.breaches = None THEN PassFail(FALSE)
  ELSE IF output.breaches = {} THEN PassFail(TRUE)
  ELSE Grade(0, FALSE, SubSeq(SetToSortSeq(output.breaches, <), 1,
                              Min({3, Cardinality(output.breaches)})))
PlainGrade(scorer, case, output) ==
  CASE scorer[1] = "exact" -> ExactOf(scorer[2], case, output)
    [] scorer[1] = "contains" -> ContainsOf(scorer[2], output)
    [] scorer[1] = "regex" -> RegexOf(output)
    [] scorer[1] = "json-schema" -> SchemaGrade(output)
    [] scorer[1] = "similarity" -> Grade(0, FALSE, "no expected")

RepliesTo(scorer) == IF scorer[1] = "judge" THEN JudgeReplies ELSE Embeddings
Calls(g) == Len(Requests(g.scorer, g.case, g.output))

PlainOk(g) ==
  /\ g.scorer \in PlainNames
  /\ g.scorer[1] = "similarity" => g.case.expected = None
  /\ g.at = "done" /\ g.heard = <<>> /\ g.from = "nobody"
  /\ g.grade = PlainGrade(g.scorer, g.case, g.output)
AskOk(g) ==
  /\ g.scorer \in AskerNames
  /\ g.scorer[1] = "similarity" => g.case.expected # None
  /\ g.at \in {"lookup", "live", "done"}
  /\ g.heard \in Seq(RepliesTo(g.scorer) \cup {Failed}) /\ Len(g.heard) <= Calls(g)
  /\ g.heard = <<>> => g.from = "nobody"
  /\ g.at # "done" => Failed \notin Range(g.heard) /\ Len(g.heard) < Calls(g)
  /\ g.at = "done" =>
       /\ g.grade = GradeOf(g.scorer, g.heard)
       /\ Failed \in Range(g.heard) \/ Len(g.heard) = Calls(g)
GradingOk(g) ==
  /\ DOMAIN g = {"scorer", "case", "output", "trial", "mode", "at", "heard", "from", "stale", "grade"}
  /\ g.case \in GradedCases /\ g.output \in Outputs
  /\ PlainOk(g) \/ AskOk(g)

(* What was heard, and not replaced since, is in the cassette.             *)
Backed(g, tape) ==
  g.mode # "off" /\ ~g.stale =>
    \A c \in DOMAIN g.heard :
      g.heard[c] # Failed => KeyOf(g, c) \in DOMAIN tape /\ tape[KeyOf(g, c)] = g.heard[c]
TapeOk(tape) ==
  \A r \in DOMAIN tape : tape[r] \in (IF r[1][1] = "chat" THEN JudgeReplies ELSE Embeddings)

(* Grading v recorded the reply that judge is told for what g grades.      *)
Vouches(v, g, reply) ==
  /\ SameGrading(v, g) /\ v.at = "done" /\ v.from = "endpoint" /\ v.mode # "off"
  /\ v.heard = <<reply>>
Vouched(list, g, reply) == \E k \in DOMAIN list : Vouches(list[k], g, reply)
ChatsVouched(tape, list) ==
  \A g : g.scorer \in {"judge"} \X Rubrics /\ g.case \in GradedCases /\ KeyOf(g, 1) \in DOMAIN tape =>
    Vouched(list, g, tape[KeyOf(g, 1)])
HitVouched(list, g) ==
  g.scorer[1] = "judge" /\ g.from = "cassette" => \E r : g.heard = <<r>> /\ Vouched(list, g, r)

ScorersInv ==
  /\ \E S : grades \in Seq(S)
  /\ \A n \in DOMAIN grades : GradingOk(grades[n]) /\ Backed(grades[n], cassette)
  /\ TapeOk(cassette)
  /\ ChatsVouched(cassette, grades)
  /\ \A n \in DOMAIN grades : HitVouched(grades, grades[n])

-----------------------------------------------------------------------------

LEMMA CallsType ==
  ASSUME NEW g
  PROVE  /\ Calls(g) \in {1, 2}
         /\ g.scorer[1] = "judge" => Calls(g) = 1
         /\ g.scorer[1] # "judge" => Calls(g) = 2
BY DEF Calls, Requests

(* A key tells what kind of reply belongs to it, and of judge what it asks.*)
LEMMA KeyKind ==
  ASSUME NEW g, NEW c \in 1 .. Calls(g)
  PROVE  KeyOf(g, c)[1][1] = "chat" <=> g.scorer[1] = "judge"
<1>1. CASE g.scorer[1] = "judge"
  <2>1. c = 1 /\ KeyOf(g, c)[1] = <<"chat", Prompt(g.scorer[2], g.case, g.output)>>
    BY <1>1, CallsType DEF KeyOf, Requests
  <2> QED
    BY <1>1, <2>1
<1>2. CASE g.scorer[1] # "judge"
  <2>1. c \in {1, 2}
    BY <1>2, CallsType
  <2>2. \/ KeyOf(g, c)[1] = <<"embed", AsText(g.case.expected)>>
        \/ KeyOf(g, c)[1] = <<"embed", g.output>>
    BY <1>2, <2>1 DEF KeyOf, Requests
  <2> QED
    BY <1>2, <2>2
<1> QED
  BY <1>1, <1>2

LEMMA ChatsDiffer ==
  ASSUME NEW a, NEW b, a.scorer \in {"judge"} \X Rubrics, b.scorer \in {"judge"} \X Rubrics,
         a.case \in GradedCases, b.case \in GradedCases, KeyOf(a, 1) = KeyOf(b, 1)
  PROVE  SameGrading(a, b)
<1>1. /\ a.scorer = <<"judge", a.scorer[2]>> /\ b.scorer = <<"judge", b.scorer[2]>>
      /\ a.scorer[1] = "judge" /\ b.scorer[1] = "judge"
  OBVIOUS
<1>2. /\ Prompt(a.scorer[2], a.case, a.output) = Prompt(b.scorer[2], b.case, b.output)
      /\ a.trial = b.trial
  BY <1>1 DEF KeyOf, Requests
<1>3. /\ a.scorer[2] = b.scorer[2] /\ a.case.input = b.case.input
      /\ a.case.expected = b.case.expected /\ a.case.context = b.case.context
      /\ a.output = b.output
  BY <1>2 DEF Prompt
<1>4. /\ a.case = [input |-> a.case.input, expected |-> a.case.expected, context |-> a.case.context]
      /\ b.case = [input |-> b.case.input, expected |-> b.case.expected, context |-> b.case.context]
  BY CasesAssumption
<1> QED
  BY <1>1, <1>2, <1>3, <1>4 DEF SameGrading

(* What a grading in flight becomes when it is told something.             *)
Told(h, g, reply, from) ==
  /\ GradingOk(h) /\ SameGrading(h, g) /\ h.mode = g.mode /\ h.stale = g.stale
  /\ h.from = from /\ h.heard = Append(g.heard, reply)
  /\ g.scorer[1] = "judge" => h.heard = <<reply>> /\ h.at = "done"

LEMMA HearEffect ==
  ASSUME NEW g, GradingOk(g), AskOk(g), g.at # "done",
         NEW reply \in RepliesTo(g.scorer) \cup {Failed}, NEW from
  PROVE  Told(Hear(g, reply, from), g, reply, from)
<1> DEFINE h == Hear(g, reply, from)
           heard == Append(g.heard, reply)
           over == reply = Failed \/ Len(heard) = Calls(g)
<1>1. /\ h.scorer = g.scorer /\ h.case = g.case /\ h.output = g.output /\ h.trial = g.trial
      /\ h.mode = g.mode /\ h.stale = g.stale /\ h.heard = heard /\ h.from = from
      /\ h.at = IF over THEN "done" ELSE "lookup"
      /\ h.grade = IF over THEN GradeOf(g.scorer, heard) ELSE None
      /\ DOMAIN h = DOMAIN g
  BY DEF Hear, GradingOk, Calls
<1> HIDE DEF h
<1>2. /\ g.heard \in Seq(RepliesTo(g.scorer) \cup {Failed}) /\ Len(g.heard) < Calls(g)
      /\ Failed \notin Range(g.heard) /\ Calls(g) \in Nat
  BY CallsType DEF AskOk
<1>3. /\ heard \in Seq(RepliesTo(g.scorer) \cup {Failed}) /\ Len(heard) = Len(g.heard) + 1
      /\ heard # <<>> /\ Len(g.heard) \in Nat
      /\ heard[Len(g.heard) + 1] = reply
      /\ \A c \in 1 .. Len(g.heard) : heard[c] = g.heard[c]
  BY <1>2
<1>4. Range(heard) = Range(g.heard) \cup {reply}
  <2> HIDE DEF heard
  <2>1. DOMAIN heard = 1 .. Len(g.heard) + 1 /\ DOMAIN g.heard = 1 .. Len(g.heard)
    BY <1>2, <1>3
  <2>2. \A c \in DOMAIN heard : c \in 1 .. Len(g.heard) \/ c = Len(g.heard) + 1
    BY <1>3, <2>1
  <2> QED
    BY <1>3, <2>1, <2>2 DEF Range
<1>5. Calls(h) = Calls(g)
  BY <1>1 DEF Calls
<1> HIDE DEF heard
<1>6. AskOk(h)
  <2>1. Len(heard) <= Calls(g) /\ (~over => Len(heard) < Calls(g) /\ Failed \notin Range(heard))
    BY <1>2, <1>3, <1>4
  <2>2. over => Failed \in Range(heard) \/ Len(heard) = Calls(g)
    BY <1>4
  <2> HIDE DEF over
  <2> QED
    BY <1>1, <1>3, <1>5, <2>1, <2>2 DEF AskOk
<1>7. GradingOk(h) /\ SameGrading(h, g)
  BY <1>1, <1>6 DEF GradingOk, SameGrading
<1>8. g.scorer[1] = "judge" => h.heard = <<reply>> /\ h.at = "done"
  <2> SUFFICES ASSUME g.scorer[1] = "judge"
               PROVE  h.heard = <<reply>> /\ h.at = "done"
    OBVIOUS
  <2>1. Len(g.heard) = 0 /\ Calls(g) = 1
    BY <1>2, CallsType
  <2>2. g.heard = <<>>
    BY <1>2, <2>1
  <2> QED
    BY <1>1, <1>3, <2>1, <2>2 DEF heard
<1> QED
  BY <1>1, <1>7, <1>8 DEF Told, h, heard

(* It stays backed if the reply is.                                        *)
LEMMA HearBacked ==
  ASSUME NEW g, GradingOk(g), AskOk(g), g.at # "done", NEW tape, Backed(g, tape),
         NEW reply \in RepliesTo(g.scorer) \cup {Failed}, NEW from,
         g.mode = "off" \/ reply = Failed
           \/ (NextKey(g) \in DOMAIN tape /\ tape[NextKey(g)] = reply)
  PROVE  Backed(Hear(g, reply, from), tape)
<1> DEFINE h == Hear(g, reply, from)
<1>1. /\ SameGrading(h, g) /\ h.mode = g.mode /\ h.stale = g.stale
      /\ h.heard = Append(g.heard, reply)
  <2>1. Told(h, g, reply, from)
    BY HearEffect
  <2> HIDE DEF h
  <2> QED
    BY <2>1 DEF Told
<1> HIDE DEF h
<1>2. \A c : KeyOf(h, c) = KeyOf(g, c)
  BY <1>1 DEF SameGrading, KeyOf
<1>3. g.heard \in Seq(RepliesTo(g.scorer) \cup {Failed})
  BY DEF AskOk
<1>4. ASSUME h.mode # "off", ~h.stale, NEW c \in DOMAIN h.heard, h.heard[c] # Failed
      PROVE  KeyOf(h, c) \in DOMAIN tape /\ tape[KeyOf(h, c)] = h.heard[c]
  <2>1. CASE c \in DOMAIN g.heard
    <3>1. h.heard[c] = g.heard[c]
      BY <1>1, <1>3, <2>1
    <3> QED
      BY <1>1, <1>2, <1>4, <2>1, <3>1 DEF Backed
  <2>2. CASE c = Len(g.heard) + 1
    <3>1. h.heard[c] = reply
      BY <1>1, <1>3, <2>2
    <3> QED
      BY <1>1, <1>2, <1>4, <2>2, <3>1 DEF NextKey
  <2>3. c \in DOMAIN g.heard \/ c = Len(g.heard) + 1
    BY <1>1, <1>3
  <2> QED
    BY <2>1, <2>2, <2>3
<1>5. Backed(h, tape)
  BY <1>4 DEF Backed
<1> QED
  BY <1>5 DEF h

(* The next key of a grading in flight is of the kind of its replies.      *)
LEMMA NextKind ==
  ASSUME NEW g, AskOk(g), g.at # "done"
  PROVE  /\ Len(g.heard) + 1 \in 1 .. Calls(g)
         /\ NextKey(g)[1][1] = "chat" <=> g.scorer[1] = "judge"
<1>1. Len(g.heard) \in Nat /\ Len(g.heard) < Calls(g) /\ Calls(g) \in Nat
  BY CallsType DEF AskOk
<1>2. Len(g.heard) + 1 \in 1 .. Calls(g)
  BY <1>1
<1> QED
  BY <1>2, KeyKind DEF NextKey

(* A lookup leaves a grading that is as it should be, and a hit of judge   *)
(* what a judge was told.                                                  *)
LEMMA InvokedOk ==
  ASSUME ScorersInv, NEW g, GradingOk(g), AskOk(g), g.at = "lookup", Backed(g, cassette),
         NEW h \in Invoked(g)
  PROVE  GradingOk(h) /\ Backed(h, cassette) /\ HitVouched(grades, h)
<1>1. CASE /\ NextKey(g) \in DOMAIN cassette
           /\ h = Hear(g, cassette[NextKey(g)], "cassette")
  <2> DEFINE reply == cassette[NextKey(g)]
  <2>1. reply \in RepliesTo(g.scorer)
    BY <1>1, NextKind DEF ScorersInv, TapeOk, RepliesTo
  <2>2. GradingOk(h) /\ SameGrading(h, g) /\ (g.scorer[1] = "judge" => h.heard = <<reply>>)
    <3>1. Told(h, g, reply, "cassette")
      BY <1>1, <2>1, HearEffect
    <3> QED
      BY <3>1 DEF Told
  <2>3. Backed(h, cassette)
    BY <1>1, <2>1, HearBacked
  <2>4. ASSUME g.scorer[1] = "judge"
        PROVE  Vouched(grades, h, reply)
    <3>1. g.scorer \in {"judge"} \X Rubrics /\ g.case \in GradedCases
      BY <2>4 DEF AskOk, AskerNames, GradingOk
    <3>2. Len(g.heard) + 1 = 1
      BY <2>4, NextKind, CallsType
    <3>3. KeyOf(h, 1) = NextKey(g)
      BY <2>2, <3>2 DEF SameGrading, KeyOf, NextKey
    <3>4. h.scorer \in {"judge"} \X Rubrics /\ h.case \in GradedCases
      BY <2>2, <3>1 DEF SameGrading
    <3> QED
      BY <1>1, <3>3, <3>4 DEF ScorersInv, ChatsVouched
  <2>5. h.scorer = g.scorer
    BY <2>2 DEF SameGrading
  <2> QED
    BY <2>2, <2>3, <2>4, <2>5 DEF HitVouched
<1>2. CASE h = Hear(g, Failed, "failed")
  <2>1. GradingOk(h) /\ h.from = "failed"
    BY <1>2, HearEffect DEF Told
  <2>2. Backed(h, cassette)
    BY <1>2, HearBacked
  <2> QED
    BY <2>1, <2>2 DEF HitVouched
<1>3. CASE h = [g EXCEPT !.at = "live"]
  <2>1. /\ h.scorer = g.scorer /\ h.case = g.case /\ h.output = g.output /\ h.trial = g.trial
        /\ h.mode = g.mode /\ h.stale = g.stale /\ h.heard = g.heard /\ h.from = g.from
        /\ h.at = "live" /\ h.grade = g.grade /\ DOMAIN h = DOMAIN g
    BY <1>3 DEF GradingOk
  <2>2. Calls(h) = Calls(g) /\ \A c : KeyOf(h, c) = KeyOf(g, c)
    BY <2>1 DEF Calls, KeyOf
  <2>3. AskOk(h)
    BY <2>1, <2>2 DEF AskOk
  <2>4. GradingOk(h) /\ Backed(h, cassette)
    BY <2>1, <2>2, <2>3 DEF GradingOk, Backed
  <2>5. g.scorer[1] = "judge" => g.heard = <<>>
    <3> SUFFICES ASSUME g.scorer[1] = "judge"
                 PROVE  g.heard = <<>>
      OBVIOUS
    <3>1. Len(g.heard) < 1 /\ g.heard \in Seq(RepliesTo(g.scorer) \cup {Failed})
      BY CallsType DEF AskOk
    <3> QED
      BY <3>1
  <2> QED
    BY <2>1, <2>4, <2>5 DEF HitVouched, AskOk
<1> QED
  BY <1>1, <1>2, <1>3 DEF Invoked

-----------------------------------------------------------------------------
(* The steps. *)

(* What vouched for a reply still does.                                    *)
LEMMA VouchersStay ==
  ASSUME NEW list, NEW longer,
         \A k \in DOMAIN list :
           /\ k \in DOMAIN longer
           /\ list[k].at = "done" =>
                /\ SameGrading(longer[k], list[k]) /\ longer[k].at = "done"
                /\ longer[k].from = list[k].from /\ longer[k].mode = list[k].mode
                /\ longer[k].heard = list[k].heard,
         NEW g, NEW reply, Vouched(list, g, reply)
  PROVE  Vouched(longer, g, reply)
<1>1. PICK k \in DOMAIN list : Vouches(list[k], g, reply)
  BY DEF Vouched
<1>2. Vouches(longer[k], g, reply)
  BY <1>1 DEF Vouches, SameGrading
<1> QED
  BY <1>1, <1>2 DEF Vouched

LEMMA HitsStay ==
  ASSUME NEW list, NEW longer, NEW g,
         \A f, reply : Vouched(list, f, reply) => Vouched(longer, f, reply),
         HitVouched(list, g)
  PROVE  HitVouched(longer, g)
BY DEF HitVouched

(* A grading begins.                                                       *)
LEMMA BeginStep ==
  ASSUME ScorersInv, NEW h, grades' = Append(grades, h), cassette' = cassette,
         GradingOk(h), Backed(h, cassette), HitVouched(grades, h)
  PROVE  ScorersInv'
<1> DEFINE n == Len(grades)
<1>1. PICK S : grades \in Seq(S)
  BY DEF ScorersInv
<1>2. grades \in Seq(S \cup {h})
  BY <1>1, SeqMonotonic
<1>3. grades' \in Seq(S \cup {h})
  BY <1>2
<1>4. /\ n \in Nat /\ DOMAIN grades = 1 .. n /\ DOMAIN grades' = 1 .. n + 1
      /\ \A k \in 1 .. n : grades'[k] = grades[k]
      /\ grades'[n + 1] = h
  BY <1>2
<1> HIDE DEF n
<1>5. \A k \in DOMAIN grades' : (k \in DOMAIN grades /\ grades'[k] = grades[k]) \/ grades'[k] = h
  BY <1>4
<1>6. \A k \in DOMAIN grades : k \in DOMAIN grades' /\ grades'[k] = grades[k]
  BY <1>4
<1>7. \A f, reply : Vouched(grades, f, reply) => Vouched(grades', f, reply)
  BY <1>6, VouchersStay DEF SameGrading
<1>8. ChatsVouched(cassette', grades')
  BY <1>7 DEF ScorersInv, ChatsVouched
<1>9. \A k \in DOMAIN grades' : HitVouched(grades', grades'[k])
  BY <1>5, <1>7, HitsStay DEF ScorersInv
<1> QED
  BY <1>3, <1>5, <1>8, <1>9 DEF ScorersInv

(* A grading goes on, and the cassette stays.                              *)
LEMMA ChangeStep ==
  ASSUME ScorersInv, NEW n \in DOMAIN grades, grades[n].at # "done", NEW h,
         grades' = [grades EXCEPT ![n] = h], cassette' = cassette,
         GradingOk(h), Backed(h, cassette), HitVouched(grades, h)
  PROVE  ScorersInv'
<1>1. PICK S : grades \in Seq(S)
  BY DEF ScorersInv
<1>2. grades \in Seq(S \cup {h})
  BY <1>1, SeqMonotonic
<1>3. grades' \in Seq(S \cup {h})
  BY <1>2
<1>4. /\ DOMAIN grades' = DOMAIN grades /\ grades'[n] = h
      /\ \A k \in DOMAIN grades : k # n => grades'[k] = grades[k]
  BY <1>2
<1>5. \A k \in DOMAIN grades' : (k \in DOMAIN grades /\ grades'[k] = grades[k]) \/ grades'[k] = h
  BY <1>4
<1>6. \A k \in DOMAIN grades :
        k \in DOMAIN grades' /\ (grades[k].at = "done" => grades'[k] = grades[k])
  BY <1>4
<1>7. \A f, reply : Vouched(grades, f, reply) => Vouched(grades', f, reply)
  BY <1>6, VouchersStay DEF SameGrading
<1>8. ChatsVouched(cassette', grades')
  BY <1>7 DEF ScorersInv, ChatsVouched
<1>9. \A k \in DOMAIN grades' : HitVouched(grades', grades'[k])
  BY <1>5, <1>7, HitsStay DEF ScorersInv
<1> QED
  BY <1>3, <1>5, <1>8, <1>9 DEF ScorersInv

(* A grading with the flag `stale` set or not is the same otherwise.       *)
LEMMA Restaled ==
  ASSUME NEW g, GradingOk(g), NEW stale
  PROVE  LET f == [g EXCEPT !.stale = stale] IN
         /\ GradingOk(f) /\ SameGrading(f, g) /\ f.mode = g.mode /\ f.at = g.at
         /\ f.heard = g.heard /\ f.from = g.from /\ f.stale = stale
<1> DEFINE f == [g EXCEPT !.stale = stale]
<1>1. /\ f.scorer = g.scorer /\ f.case = g.case /\ f.output = g.output /\ f.trial = g.trial
      /\ f.mode = g.mode /\ f.at = g.at /\ f.heard = g.heard /\ f.from = g.from
      /\ f.grade = g.grade /\ f.stale = stale /\ DOMAIN f = DOMAIN g
  BY DEF GradingOk
<1> HIDE DEF f
<1>2. Calls(f) = Calls(g)
  BY <1>1 DEF Calls
<1>3. (PlainOk(g) => PlainOk(f)) /\ (AskOk(g) => AskOk(f))
  BY <1>1, <1>2 DEF PlainOk, AskOk
<1> QED
  BY <1>1, <1>3 DEF GradingOk, SameGrading, f

(* A reply is recorded.                                                    *)
LEMMA RecordStep ==
  ASSUME ScorersInv, NEW n \in DOMAIN grades, grades[n].at = "live", grades[n].mode # "off",
         NEW reply \in RepliesTo(grades[n].scorer), Answer(n, reply)
  PROVE  ScorersInv'
<1> DEFINE g == grades[n]
           key == NextKey(g)
           h == Hear(g, reply, "endpoint")
           told == [grades EXCEPT ![n] = h]
           now(m) == [told[m] EXCEPT !.stale = @ \/ key \in KeysHeard(grades[m])]
<1>1. /\ cassette' = [k \in DOMAIN cassette \cup {key} |->
                        IF k = key THEN reply ELSE cassette[k]]
      /\ grades' = [m \in DOMAIN grades |-> now(m)]
  BY DEF Answer
<1>2. /\ DOMAIN cassette' = DOMAIN cassette \cup {key} /\ cassette'[key] = reply
      /\ \A k \in DOMAIN cassette : k # key => cassette'[k] = cassette[k]
  BY <1>1
<1>3. PICK S : grades \in Seq(S)
  BY DEF ScorersInv
<1>4. DOMAIN grades = 1 .. Len(grades) /\ Len(grades) \in Nat
  BY <1>3
<1>5. DOMAIN grades' = DOMAIN grades /\ \A m \in DOMAIN grades : grades'[m] = now(m)
  BY <1>1
<1>6. \E T : grades' \in Seq(T)
  <2>1. grades' \in [1 .. Len(grades) -> {now(m) : m \in 1 .. Len(grades)}]
    BY <1>1, <1>4
  <2> DEFINE len == Len(grades)
             T == {now(m) : m \in 1 .. Len(grades)}
  <2>2. grades' \in [1 .. len -> T] /\ len \in Nat
    BY <1>4, <2>1
  <2> HIDE DEF len, T
  <2>3. grades' \in Seq(T)
    BY <2>2
  <2> QED
    BY <2>3
<1>7. GradingOk(g) /\ AskOk(g) /\ Backed(g, cassette) /\ g.at # "done" /\ g.mode # "off"
  <2>1. ~PlainOk(g)
    BY DEF PlainOk
  <2> QED
    BY <2>1 DEF ScorersInv, GradingOk
<1>8. /\ GradingOk(h) /\ SameGrading(h, g) /\ h.mode = g.mode /\ h.stale = g.stale
      /\ h.from = "endpoint" /\ h.heard = Append(g.heard, reply)
      /\ g.scorer[1] = "judge" => h.heard = <<reply>> /\ h.at = "done"
  <2>1. Told(h, g, reply, "endpoint")
    BY <1>7, HearEffect
  <2> HIDE DEF h, g
  <2> QED
    BY <2>1 DEF Told
<1>9. told[n] = h /\ \A m \in DOMAIN grades : m # n => told[m] = grades[m]
  OBVIOUS
<1>10. \A m \in DOMAIN grades :
         /\ GradingOk(grades'[m]) /\ SameGrading(grades'[m], grades[m])
         /\ grades'[m].mode = grades[m].mode
         /\ grades'[m].stale = (grades[m].stale \/ key \in KeysHeard(grades[m]))
         /\ m # n => /\ grades'[m].heard = grades[m].heard /\ grades'[m].from = grades[m].from
                     /\ grades'[m].at = grades[m].at
         /\ m = n => grades'[m].heard = h.heard /\ grades'[m].from = h.from /\ grades'[m].at = h.at
  <2> SUFFICES ASSUME NEW m \in DOMAIN grades
               PROVE  /\ GradingOk(grades'[m]) /\ SameGrading(grades'[m], grades[m])
                      /\ grades'[m].mode = grades[m].mode
                      /\ grades'[m].stale = (grades[m].stale \/ key \in KeysHeard(grades[m]))
                      /\ m # n => /\ grades'[m].heard = grades[m].heard
                                  /\ grades'[m].from = grades[m].from
                                  /\ grades'[m].at = grades[m].at
                      /\ m = n => /\ grades'[m].heard = h.heard /\ grades'[m].from = h.from
                                  /\ grades'[m].at = h.at
    OBVIOUS
  <2> DEFINE t == told[m]
             s == t.stale \/ key \in KeysHeard(grades[m])
  <2>1. GradingOk(t) /\ SameGrading(t, grades[m]) /\ t.mode = grades[m].mode
        /\ t.stale = grades[m].stale
    BY <1>8, <1>9 DEF ScorersInv, SameGrading
  <2>2. grades'[m] = [t EXCEPT !.stale = s]
    BY <1>5, <2>1 DEF GradingOk
  <2>3. t = IF m = n THEN h ELSE grades[m]
    BY <1>9
  <2> HIDE DEF t, h, g, told, key
  <2>4. /\ GradingOk(grades'[m]) /\ SameGrading(grades'[m], t) /\ grades'[m].mode = t.mode
        /\ grades'[m].at = t.at /\ grades'[m].heard = t.heard /\ grades'[m].from = t.from
        /\ grades'[m].stale = s
    BY <2>1, <2>2, Restaled
  <2> QED
    BY <2>1, <2>3, <2>4 DEF SameGrading
<1> HIDE DEF now, told, h, key
<1>11. TapeOk(cassette')
  <2>1. reply \in (IF key[1][1] = "chat" THEN JudgeReplies ELSE Embeddings)
    BY <1>7, NextKind DEF RepliesTo, key
  <2> QED
    BY <1>2, <2>1 DEF ScorersInv, TapeOk
<1>12. ASSUME NEW m \in DOMAIN grades
       PROVE  Backed(grades'[m], cassette')
  <2> SUFFICES ASSUME grades'[m].mode # "off", ~grades'[m].stale,
                      NEW c \in DOMAIN grades'[m].heard, grades'[m].heard[c] # Failed
               PROVE  /\ KeyOf(grades'[m], c) \in DOMAIN cassette'
                      /\ cassette'[KeyOf(grades'[m], c)] = grades'[m].heard[c]
    BY DEF Backed
  <2>1. KeyOf(grades'[m], c) = KeyOf(grades[m], c)
    BY <1>10 DEF SameGrading, KeyOf
  <2>2. ASSUME c \in DOMAIN grades[m].heard, grades'[m].heard[c] = grades[m].heard[c]
        PROVE  /\ KeyOf(grades[m], c) \in DOMAIN cassette'
               /\ cassette'[KeyOf(grades[m], c)] = grades'[m].heard[c]
    <3>1. key # KeyOf(grades[m], c)
      BY <1>10, <2>2 DEF KeysHeard
    <3>2. /\ KeyOf(grades[m], c) \in DOMAIN cassette
          /\ cassette[KeyOf(grades[m], c)] = grades[m].heard[c]
      BY <1>10, <2>2 DEF ScorersInv, Backed
    <3> QED
      BY <1>2, <2>2, <3>1, <3>2
  <2>3. CASE m # n
    BY <1>10, <2>1, <2>2, <2>3
  <2>4. CASE m = n
    <3>1. g.heard \in Seq(RepliesTo(g.scorer) \cup {Failed}) /\ grades'[m].heard = Append(g.heard, reply)
      BY <1>7, <1>8, <1>10, <2>4 DEF AskOk
    <3>2. \/ c \in DOMAIN g.heard /\ grades'[m].heard[c] = g.heard[c]
          \/ c = Len(g.heard) + 1 /\ grades'[m].heard[c] = reply
      BY <3>1
    <3>3. CASE c \in DOMAIN g.heard /\ grades'[m].heard[c] = g.heard[c]
      BY <2>1, <2>2, <2>4, <3>3
    <3>4. CASE c = Len(g.heard) + 1 /\ grades'[m].heard[c] = reply
      <4>1. KeyOf(grades[m], c) = key
        BY <2>4, <3>4 DEF NextKey, key
      <4> QED
        BY <1>2, <2>1, <3>4, <4>1
    <3> QED
      BY <3>2, <3>3, <3>4
  <2> QED
    BY <2>3, <2>4
<1>13. \A f, r : Vouched(grades, f, r) => Vouched(grades', f, r)
  <2>1. \A k \in DOMAIN grades :
          /\ k \in DOMAIN grades'
          /\ grades[k].at = "done" =>
               /\ SameGrading(grades'[k], grades[k]) /\ grades'[k].at = "done"
               /\ grades'[k].from = grades[k].from /\ grades'[k].mode = grades[k].mode
               /\ grades'[k].heard = grades[k].heard
    BY <1>5, <1>10
  <2> QED
    BY <2>1, VouchersStay
<1>14. ChatsVouched(cassette', grades')
  <2> SUFFICES ASSUME NEW f, f.scorer \in {"judge"} \X Rubrics, f.case \in GradedCases,
                      KeyOf(f, 1) \in DOMAIN cassette'
               PROVE  Vouched(grades', f, cassette'[KeyOf(f, 1)])
    BY DEF ChatsVouched
  <2>1. CASE KeyOf(f, 1) # key
    BY <1>2, <1>13, <2>1 DEF ScorersInv, ChatsVouched
  <2>2. CASE KeyOf(f, 1) = key
    <3>1. f.scorer[1] = "judge" /\ 1 \in 1 .. Calls(f)
      BY CallsType
    <3>2. KeyOf(f, 1)[1][1] = "chat"
      BY <3>1, KeyKind
    <3>3. g.scorer[1] = "judge"
      BY <1>7, <2>2, <3>2, NextKind DEF key
    <3>4. g.scorer \in {"judge"} \X Rubrics /\ g.case \in GradedCases
      BY <1>7, <3>3 DEF AskOk, AskerNames, GradingOk
    <3>5. Len(g.heard) + 1 = 1
      BY <1>7, <3>3, NextKind, CallsType
    <3>6. KeyOf(g, 1) = key
      BY <3>5 DEF NextKey, key
    <3>7. SameGrading(g, f)
      BY <2>2, <3>4, <3>6, ChatsDiffer
    <3>8. Vouches(grades'[n], f, reply)
      BY <1>7, <1>8, <1>10, <3>3, <3>7 DEF Vouches, SameGrading
    <3> QED
      BY <1>2, <1>5, <2>2, <3>8 DEF Vouched
  <2> QED
    BY <2>1, <2>2
<1>15. ASSUME NEW m \in DOMAIN grades
       PROVE  HitVouched(grades', grades'[m])
  <2>1. CASE m = n
    BY <1>8, <1>10, <2>1 DEF HitVouched
  <2>2. CASE m # n
    <3> SUFFICES ASSUME grades'[m].scorer[1] = "judge", grades'[m].from = "cassette"
                 PROVE  \E r : grades'[m].heard = <<r>> /\ Vouched(grades', grades'[m], r)
      BY DEF HitVouched
    <3>1. grades[m].scorer[1] = "judge" /\ grades[m].from = "cassette"
      BY <1>10, <2>2 DEF SameGrading
    <3>2. PICK r : grades[m].heard = <<r>> /\ Vouched(grades, grades[m], r)
      BY <3>1 DEF ScorersInv, HitVouched
    <3>3. Vouched(grades', grades[m], r)
      BY <1>13, <3>2
    <3>4. Vouched(grades', grades'[m], r)
      BY <1>10, <3>3 DEF Vouched, Vouches, SameGrading
    <3> QED
      BY <1>10, <2>2, <3>2, <3>4
  <2> QED
    BY <2>1, <2>2
<1> QED
  BY <1>5, <1>6, <1>10, <1>11, <1>12, <1>14, <1>15 DEF ScorersInv


-----------------------------------------------------------------------------
(* Each action. *)

(* A grade that nobody was asked for.                                      *)
LEMMA PlainStep ==
  ASSUME ScorersInv, NEW scorer \in PlainNames, NEW case \in GradedCases, NEW output \in Outputs,
         NEW grade, Plain(scorer, case, output, grade), grade = PlainGrade(scorer, case, output),
         scorer[1] = "similarity" => case.expected = None
  PROVE  ScorersInv'
<1> DEFINE g == [Grading(scorer, case, output, 0, "none") EXCEPT !.at = "done", !.grade = grade]
<1>1. grades' = Append(grades, g) /\ cassette' = cassette
  BY DEF Plain
<1>2. /\ g.scorer = scorer /\ g.case = case /\ g.output = output /\ g.grade = grade
      /\ g.at = "done" /\ g.heard = <<>> /\ g.from = "nobody"
      /\ DOMAIN g = {"scorer", "case", "output", "trial", "mode", "at", "heard", "from",
                     "stale", "grade"}
  BY DEF Grading
<1> HIDE DEF g
<1>3. PlainOk(g)
  BY <1>2 DEF PlainOk
<1>4. GradingOk(g) /\ Backed(g, cassette) /\ HitVouched(grades, g)
  BY <1>2, <1>3 DEF GradingOk, Backed, HitVouched
<1> QED
  BY <1>1, <1>4, BeginStep

(* A sequence without repetition of a set's length has all of its members. *)
LEMMA EveryOrderIsWhole ==
  ASSUME NEW S, IsFiniteSet(S), NEW found \in SetToSeqs(S)
  PROVE  Range(found) = S /\ Len(found) = Cardinality(S) /\ (found = <<>> <=> S = {})
<1> DEFINE n == Cardinality(S)
<1>1. n \in Nat
  BY FS_CardinalityType
<1>2. found \in [1 .. n -> S] /\ \A i, j \in 1 .. n : i # j => found[i] # found[j]
  BY DEF SetToSeqs
<1>3. found \in Injection(1 .. n, S)
  BY <1>2 DEF Injection, IsInjective
<1>4. IsFiniteSet(1 .. n) /\ Cardinality(1 .. n) = n
  BY <1>1, FS_Interval
<1>5. found \in Surjection(1 .. n, S)
  BY <1>3, <1>4, FS_Injection
<1>6. Range(found) = S
  BY <1>2, <1>5 DEF Surjection, Range
<1>7. Len(found) = n /\ found \in Seq(S)
  BY <1>1, <1>2
<1>8. found = <<>> <=> n = 0
  BY <1>1, <1>7
<1>9. n = 0 <=> S = {}
  BY FS_EmptySet
<1> QED
  BY <1>6, <1>7, <1>8, <1>9

LEMMA SchemaIsOrderFree ==
  ASSUME NEW output \in Outputs,
         NEW found \in SetToSeqs(IF output.breaches = None THEN {} ELSE output.breaches)
  PROVE  SchemaOf(output, found) = SchemaGrade(output)
<1>1. CASE output.breaches = None
  BY <1>1, Zenon DEF SchemaOf, SchemaGrade
<1>2. CASE output.breaches # None
  <2>1. IsFiniteSet(output.breaches) /\ found \in SetToSeqs(output.breaches)
    BY <1>2, TextsAssumption
  <2>2. /\ Range(found) = output.breaches /\ Len(found) = Cardinality(output.breaches)
        /\ found = <<>> <=> output.breaches = {}
    BY <2>1, EveryOrderIsWhole
  <2> QED
    BY <1>2, <2>2, Zenon DEF SchemaOf, SchemaGrade
<1> QED
  BY <1>1, <1>2

LEMMA PlainScoreStep ==
  ASSUME ScorersInv, NEW case \in GradedCases, NEW output \in Outputs, PlainScore(case, output)
  PROVE  ScorersInv'
<1>1. ASSUME NEW inline \in BOOLEAN,
             Plain(<<"exact", inline>>, case, output, ExactOf(inline, case, output))
      PROVE  ScorersInv'
  <2> DEFINE scorer == <<"exact", inline>>
  <2>1. scorer \in PlainNames /\ scorer[1] = "exact" /\ scorer[2] = inline
    BY DEF PlainNames
  <2>2. Plain(scorer, case, output, ExactOf(inline, case, output))
    BY <1>1
  <2> HIDE DEF scorer
  <2>3. ExactOf(inline, case, output) = PlainGrade(scorer, case, output)
    BY <2>1 DEF PlainGrade
  <2> QED
    BY <2>1, <2>2, <2>3, PlainStep
<1>2. ASSUME NEW sensitive \in BOOLEAN,
             Plain(<<"contains", sensitive>>, case, output, ContainsOf(sensitive, output))
      PROVE  ScorersInv'
  <2> DEFINE scorer == <<"contains", sensitive>>
  <2>1. scorer \in PlainNames /\ scorer[1] = "contains" /\ scorer[2] = sensitive
    BY DEF PlainNames
  <2>2. Plain(scorer, case, output, ContainsOf(sensitive, output))
    BY <1>2
  <2> HIDE DEF scorer
  <2>3. ContainsOf(sensitive, output) = PlainGrade(scorer, case, output)
    BY <2>1 DEF PlainGrade
  <2> QED
    BY <2>1, <2>2, <2>3, PlainStep
<1>3. CASE Plain(<<"regex">>, case, output, RegexOf(output))
  <2> DEFINE scorer == <<"regex">>
  <2>1. scorer \in PlainNames /\ scorer[1] = "regex"
    BY DEF PlainNames
  <2>2. Plain(scorer, case, output, RegexOf(output))
    BY <1>3
  <2> HIDE DEF scorer
  <2>3. RegexOf(output) = PlainGrade(scorer, case, output)
    BY <2>1 DEF PlainGrade
  <2> QED
    BY <2>1, <2>2, <2>3, PlainStep
<1>4. ASSUME NEW found \in SetToSeqs(IF output.breaches = None THEN {} ELSE output.breaches),
             Plain(<<"json-schema">>, case, output, SchemaOf(output, found))
      PROVE  ScorersInv'
  <2> DEFINE scorer == <<"json-schema">>
  <2>1. scorer \in PlainNames /\ scorer[1] = "json-schema"
    BY DEF PlainNames
  <2>2. Plain(scorer, case, output, SchemaOf(output, found))
    BY <1>4
  <2> HIDE DEF scorer
  <2>3. SchemaOf(output, found) = PlainGrade(scorer, case, output)
    BY <2>1, SchemaIsOrderFree DEF PlainGrade
  <2> QED
    BY <2>1, <2>2, <2>3, PlainStep
<1>5. CASE /\ case.expected = None
           /\ Plain(<<"similarity">>, case, output, Grade(0, FALSE, "no expected"))
  <2> DEFINE scorer == <<"similarity">>
             grade == Grade(0, FALSE, "no expected")
  <2>1. scorer \in PlainNames /\ scorer[1] = "similarity"
    BY DEF PlainNames
  <2>2. Plain(scorer, case, output, grade)
    BY <1>5
  <2> HIDE DEF scorer
  <2>3. grade = PlainGrade(scorer, case, output)
    BY <2>1 DEF PlainGrade
  <2> HIDE DEF grade
  <2> QED
    BY <1>5, <2>1, <2>2, <2>3, PlainStep
<1> QED
  BY <1>1, <1>2, <1>3, <1>4, <1>5 DEF PlainScore

(* A grading that asks begins.                                             *)
LEMMA BeginsStep ==
  ASSUME ScorersInv, NEW scorer \in AskerNames, NEW case \in GradedCases, NEW output \in Outputs,
         NEW trial, NEW mode, Begin(scorer, case, output, trial, mode),
         scorer[1] = "similarity" => case.expected # None
  PROVE  ScorersInv'
<1> DEFINE g == Grading(scorer, case, output, trial, mode)
<1>1. PICK h \in Invoked(g) : grades' = Append(grades, h)
  BY DEF Begin
<1>2. cassette' = cassette
  BY DEF Begin
<1>3. /\ g.scorer = scorer /\ g.case = case /\ g.output = output /\ g.heard = <<>>
      /\ g.at = "lookup" /\ g.from = "nobody"
      /\ DOMAIN g = {"scorer", "case", "output", "trial", "mode", "at", "heard", "from",
                     "stale", "grade"}
  BY DEF Grading
<1> HIDE DEF g
<1>4. Calls(g) \in {1, 2} /\ Range(g.heard) = {} /\ Len(g.heard) = 0
      /\ g.heard \in Seq(RepliesTo(g.scorer) \cup {Failed})
  BY <1>3, CallsType DEF Range
<1>5. AskOk(g)
  BY <1>3, <1>4 DEF AskOk
<1>6. GradingOk(g) /\ Backed(g, cassette)
  BY <1>3, <1>5 DEF GradingOk, Backed
<1>7. GradingOk(h) /\ Backed(h, cassette) /\ HitVouched(grades, h)
  BY <1>1, <1>3, <1>5, <1>6, InvokedOk
<1> QED
  BY <1>1, <1>2, <1>7, BeginStep

LEMMA AskersStep ==
  ASSUME ScorersInv, NEW case \in GradedCases, NEW output \in Outputs, NEW trial, NEW mode,
         \/ \E rubric \in Rubrics : JudgeScore(rubric, case, output, trial, mode)
         \/ SimilarityScore(case, output, trial, mode)
  PROVE  ScorersInv'
<1>1. ASSUME NEW rubric \in Rubrics, JudgeScore(rubric, case, output, trial, mode)
      PROVE  ScorersInv'
  <2> DEFINE scorer == <<"judge", rubric>>
  <2>1. scorer \in AskerNames /\ scorer[1] = "judge"
    BY DEF AskerNames
  <2>2. Begin(scorer, case, output, trial, mode)
    BY <1>1 DEF JudgeScore
  <2> HIDE DEF scorer
  <2> QED
    BY <2>1, <2>2, BeginsStep
<1>2. CASE SimilarityScore(case, output, trial, mode)
  <2> DEFINE scorer == <<"similarity">>
  <2>1. scorer \in AskerNames
    BY DEF AskerNames
  <2>2. Begin(scorer, case, output, trial, mode) /\ case.expected # None
    BY <1>2 DEF SimilarityScore
  <2> HIDE DEF scorer
  <2> QED
    BY <2>1, <2>2, BeginsStep
<1> QED
  BY <1>1, <1>2

(* Only gradings that ask are in flight.                                   *)
LEMMA InFlight ==
  ASSUME ScorersInv, NEW n \in DOMAIN grades, grades[n].at # "done"
  PROVE  GradingOk(grades[n]) /\ AskOk(grades[n]) /\ Backed(grades[n], cassette)
<1>1. ~PlainOk(grades[n])
  BY DEF PlainOk
<1> QED
  BY <1>1 DEF ScorersInv, GradingOk

(* One goes on, to its second call or to its end.                          *)
LEMMA FlightStep ==
  ASSUME ScorersInv, NEW n \in DOMAIN grades,
         \/ Resume(n)
         \/ \E reply \in IF grades[n].scorer[1] = "judge" THEN JudgeReplies ELSE Embeddings :
              Answer(n, reply)
         \/ AnswerFails(n)
  PROVE  ScorersInv'
<1> DEFINE g == grades[n]
<1>1. CASE Resume(n)
  <2>1. g.at = "lookup" /\ cassette' = cassette /\ g.at # "done"
    BY <1>1 DEF Resume
  <2>2. PICK h \in Invoked(g) : grades' = [grades EXCEPT ![n] = h]
    BY <1>1 DEF Resume
  <2>3. GradingOk(h) /\ Backed(h, cassette) /\ HitVouched(grades, h)
    BY <2>1, <2>2, InFlight, InvokedOk
  <2> HIDE DEF g
  <2> QED
    BY <2>1, <2>2, <2>3, ChangeStep DEF g
<1>2. ASSUME NEW reply \in RepliesTo(g.scorer), Answer(n, reply)
      PROVE  ScorersInv'
  <2>1. g.at = "live" /\ g.at # "done"
    BY <1>2 DEF Answer
  <2>2. CASE g.mode # "off"
    BY <1>2, <2>1, <2>2, RecordStep
  <2>3. CASE g.mode = "off"
    <3> DEFINE h == Hear(g, reply, "endpoint")
    <3>1. grades' = [grades EXCEPT ![n] = h] /\ cassette' = cassette
      BY <1>2, <2>3 DEF Answer
    <3>2. GradingOk(h) /\ h.from = "endpoint"
      BY <1>2, <2>1, InFlight, HearEffect DEF Told
    <3>3. Backed(h, cassette)
      BY <1>2, <2>1, <2>3, InFlight, HearBacked
    <3>4. HitVouched(grades, h)
      BY <3>2 DEF HitVouched
    <3> HIDE DEF h
    <3> QED
      BY <2>1, <3>1, <3>2, <3>3, <3>4, ChangeStep
  <2> QED
    BY <2>2, <2>3
<1>3. CASE AnswerFails(n)
  <2> DEFINE h == Hear(g, Failed, "failed")
  <2>1. g.at # "done" /\ cassette' = cassette /\ grades' = [grades EXCEPT ![n] = h]
    BY <1>3 DEF AnswerFails
  <2>2. GradingOk(h) /\ h.from = "failed"
    BY <2>1, InFlight, HearEffect DEF Told
  <2>3. Backed(h, cassette)
    BY <2>1, InFlight, HearBacked
  <2>4. HitVouched(grades, h)
    BY <2>2 DEF HitVouched
  <2> HIDE DEF h
  <2> QED
    BY <2>1, <2>2, <2>3, <2>4, ChangeStep
<1> QED
  BY <1>1, <1>2, <1>3 DEF RepliesTo

LEMMA ScorersStart == ScorersInit => ScorersInv
<1> SUFFICES ASSUME ScorersInit
             PROVE  ScorersInv
  OBVIOUS
<1>1. cassette = <<>> /\ grades = <<>>
  BY DEF ScorersInit
<1>2. grades \in Seq({})
  BY <1>1
<1>3. \A x : x \notin DOMAIN cassette /\ x \notin DOMAIN grades
  BY <1>1
<1> QED
  BY <1>2, <1>3 DEF ScorersInv, TapeOk, ChatsVouched

LEMMA ScorersSteps == ScorersInv /\ [ScorersNext]_scorerVars => ScorersInv'
<1> SUFFICES ASSUME ScorersInv, [ScorersNext]_scorerVars
             PROVE  ScorersInv'
  OBVIOUS
<1>1. CASE UNCHANGED <<cassette, grades>>
  BY <1>1 DEF ScorersInv
<1>2. ASSUME NEW case \in GradedCases, NEW output \in Outputs,
             \E trial \in TrialsGraded, mode \in CacheModes :
               \/ \E rubric \in Rubrics : JudgeScore(rubric, case, output, trial, mode)
               \/ SimilarityScore(case, output, trial, mode)
      PROVE  ScorersInv'
  BY <1>2, AskersStep
<1>3. ASSUME NEW n \in DOMAIN grades,
             \/ Resume(n)
             \/ \E reply \in IF grades[n].scorer[1] = "judge" THEN JudgeReplies ELSE Embeddings :
                  Answer(n, reply)
             \/ AnswerFails(n)
      PROVE  ScorersInv'
  BY <1>3, FlightStep
<1> QED
  BY <1>1, <1>2, <1>3, PlainScoreStep DEF ScorersNext, scorerVars

-----------------------------------------------------------------------------
(* What the invariant gives. *)

(* A verdict that stands heard every reply, and each is in the cassette.   *)
LEMMA StandingHeard ==
  ASSUME NEW g, GradingOk(g), AskOk(g), Standing(g), Backed(g, cassette)
  PROVE  /\ g.heard \in Seq(RepliesTo(g.scorer)) /\ Len(g.heard) = Calls(g)
         /\ g.grade = GradeOf(g.scorer, g.heard)
         /\ \A c \in 1 .. Calls(g) : g.heard[c] = cassette[KeyOf(g, c)]
         /\ \A c \in 1 .. Calls(g) : KeyOf(g, c) \in DOMAIN cassette
<1>1. /\ g.heard \in Seq(RepliesTo(g.scorer) \cup {Failed}) /\ Len(g.heard) <= Calls(g)
      /\ g.grade = GradeOf(g.scorer, g.heard) /\ g.grade # Err
      /\ Failed \in Range(g.heard) \/ Len(g.heard) = Calls(g)
  BY DEF AskOk, Standing
<1>2. Failed \notin Range(g.heard)
  <2> SUFFICES ASSUME NEW c \in DOMAIN g.heard, g.heard[c] = Failed
               PROVE  FALSE
    BY DEF Range
  <2>1. CASE g.scorer[1] = "judge"
    <3>1. c = 1
      BY <1>1, <2>1, CallsType
    <3> QED
      BY <1>1, <2>1, <3>1 DEF GradeOf, JudgeOf, Usable
  <2>2. CASE g.scorer[1] # "judge"
    BY <1>1, <2>2 DEF GradeOf, Range
  <2> QED
    BY <2>1, <2>2
<1>3. Len(g.heard) = Calls(g) /\ DOMAIN g.heard = 1 .. Calls(g)
  BY <1>1, <1>2
<1>4. \A c \in 1 .. Calls(g) : g.heard[c] # Failed
  BY <1>2, <1>3 DEF Range
<1>5. g.heard \in [1 .. Calls(g) -> RepliesTo(g.scorer)] /\ Calls(g) \in Nat
  BY <1>1, <1>3, <1>4, CallsType
<1> QED
  BY <1>1, <1>3, <1>4, <1>5 DEF Backed, Standing

(* Two gradings of the same that stand, of scorers that ask, agree.        *)
LEMMA StandingAgree ==
  ASSUME NEW a, GradingOk(a), AskOk(a), Standing(a), Backed(a, cassette),
         NEW b, GradingOk(b), AskOk(b), Standing(b), Backed(b, cassette), SameGrading(a, b)
  PROVE  a.grade = b.grade
<1>1. Calls(a) = Calls(b) /\ \A c : KeyOf(a, c) = KeyOf(b, c)
  BY DEF SameGrading, Calls, KeyOf
<1>2. /\ a.heard \in Seq(RepliesTo(a.scorer)) /\ Len(a.heard) = Calls(a)
      /\ a.grade = GradeOf(a.scorer, a.heard)
      /\ \A c \in 1 .. Calls(a) : a.heard[c] = cassette[KeyOf(a, c)]
  BY StandingHeard
<1>3. /\ b.heard \in Seq(RepliesTo(b.scorer)) /\ Len(b.heard) = Calls(b)
      /\ b.grade = GradeOf(b.scorer, b.heard)
      /\ \A c \in 1 .. Calls(b) : b.heard[c] = cassette[KeyOf(b, c)]
  BY StandingHeard
<1>4. a.heard = b.heard
  <2> DEFINE m == Calls(a)
             p == a.heard
             q == b.heard
  <2>1. p = [c \in 1 .. m |-> p[c]] /\ q = [c \in 1 .. m |-> q[c]]
    BY <1>1, <1>2, <1>3
  <2>2. \A c \in 1 .. m : p[c] = q[c]
    BY <1>1, <1>2, <1>3
  <2> HIDE DEF m, p, q
  <2>3. p = q
    BY <2>1, <2>2
  <2> QED
    BY <2>3 DEF p, q
<1> QED
  BY <1>2, <1>3, <1>4 DEF SameGrading

(* The same is graded by asking nobody or by asking, never by both.        *)
LEMMA AskedAlike ==
  ASSUME NEW a, GradingOk(a), NEW b, GradingOk(b), SameGrading(a, b)
  PROVE  (PlainOk(a) /\ PlainOk(b)) \/ (AskOk(a) /\ AskOk(b))
<1>1. ASSUME NEW x, NEW y, PlainOk(x), AskOk(y), SameGrading(x, y)
      PROVE  FALSE
  <2>1. x.scorer[1] \in {"exact", "contains", "regex", "json-schema", "similarity"}
    BY <1>1 DEF PlainOk, PlainNames
  <2>2. y.scorer[1] \in {"judge", "similarity"}
    BY <1>1 DEF AskOk, AskerNames
  <2>3. x.scorer[1] = "similarity"
    BY <1>1, <2>1, <2>2 DEF SameGrading
  <2> QED
    BY <1>1, <2>3 DEF PlainOk, AskOk, SameGrading
<1>2. SameGrading(b, a)
  BY DEF SameGrading
<1> QED
  BY <1>1, <1>2 DEF GradingOk

LEMMA InvGivesStanding == ScorersInv => GradesStand
<1> SUFFICES ASSUME ScorersInv, NEW n \in DOMAIN grades
             PROVE  /\ \A k \in DOMAIN grades :
                         SameGrading(grades[k], grades[n])
                           /\ Standing(grades[k]) /\ Standing(grades[n])
                         => grades[k].grade = grades[n].grade
                    /\ grades[n].scorer[1] = "judge" /\ grades[n].from = "cassette" =>
                         \E k \in DOMAIN grades :
                           /\ SameGrading(grades[k], grades[n])
                           /\ grades[k].grade = grades[n].grade
                           /\ grades[k].from = "endpoint" /\ grades[k].mode # "off"
  BY DEF GradesStand
<1>1. ASSUME NEW k \in DOMAIN grades, SameGrading(grades[k], grades[n]),
             Standing(grades[k]), Standing(grades[n])
      PROVE  grades[k].grade = grades[n].grade
  <2>1. /\ GradingOk(grades[k]) /\ Backed(grades[k], cassette)
        /\ GradingOk(grades[n]) /\ Backed(grades[n], cassette)
    BY DEF ScorersInv
  <2>2. CASE AskOk(grades[k]) /\ AskOk(grades[n])
    BY <1>1, <2>1, <2>2, StandingAgree
  <2>3. CASE PlainOk(grades[k]) /\ PlainOk(grades[n])
    BY <1>1, <2>3 DEF PlainOk, SameGrading
  <2> QED
    BY <1>1, <2>1, <2>2, <2>3, AskedAlike
<1>2. ASSUME grades[n].scorer[1] = "judge", grades[n].from = "cassette"
      PROVE  \E k \in DOMAIN grades :
               /\ SameGrading(grades[k], grades[n]) /\ grades[k].grade = grades[n].grade
               /\ grades[k].from = "endpoint" /\ grades[k].mode # "off"
  <2>1. PICK r : grades[n].heard = <<r>> /\ Vouched(grades, grades[n], r)
    BY <1>2 DEF ScorersInv, HitVouched
  <2>2. PICK k \in DOMAIN grades : Vouches(grades[k], grades[n], r)
    BY <2>1 DEF Vouched
  <2>3. ASSUME NEW m \in DOMAIN grades, grades[m].scorer[1] = "judge", grades[m].heard = <<r>>
        PROVE  grades[m].grade = JudgeOf(r)
    <3>1. AskOk(grades[m])
      <4>1. ~PlainOk(grades[m])
        BY <2>3 DEF PlainOk
      <4> QED
        BY <4>1 DEF ScorersInv, GradingOk
    <3>2. Len(grades[m].heard) = Calls(grades[m])
      BY <2>3, CallsType
    <3>3. grades[m].at = "done"
      BY <3>1, <3>2, CallsType DEF AskOk
    <3> QED
      BY <2>3, <3>1, <3>3 DEF AskOk, GradeOf
  <2>4. grades[k].scorer[1] = "judge" /\ grades[k].heard = <<r>>
    BY <1>2, <2>2 DEF Vouches, SameGrading
  <2> QED
    BY <1>2, <2>1, <2>2, <2>3, <2>4 DEF Vouches
<1> QED
  BY <1>1, <1>2

(* Verdicts that nothing recorded since contradicts agree, and what judge  *)
(* finds in the cassette is what it was once told (GradesStand).           *)
THEOREM VerdictsAreReplayed == ScorersSpec => []GradesStand
<1> QED
  BY ScorersStart, ScorersSteps, InvGivesStanding, PTL DEF ScorersSpec

(* Lower case, part by part.                                               *)
LEMMA LowerIsWhole ==
  ASSUME NEW S, NEW words \in Seq(S)
  PROVE  InLower(words) \in Seq(Range(InLower(words))) /\ Len(InLower(words)) = Len(words)
<1>1. /\ DOMAIN words = 1 .. Len(words) /\ Len(words) \in Nat
  OBVIOUS
<1>2. InLower(words) = [k \in 1 .. Len(words) |-> [words[k] EXCEPT !.upper = FALSE]]
  BY <1>1 DEF InLower
<1> DEFINE lower == InLower(words)
<1>3. DOMAIN lower = 1 .. Len(words) /\ \A k \in 1 .. Len(words) : lower[k] \in Range(lower)
  BY <1>2 DEF Range
<1>4. lower = [k \in 1 .. Len(words) |-> lower[k]]
  BY <1>2
<1> HIDE DEF lower
<1>5. lower \in [1 .. Len(words) -> Range(lower)]
  BY <1>3, <1>4
<1>6. lower \in Seq(Range(lower)) /\ Len(lower) = Len(words)
  BY <1>1, <1>5
<1> QED
  BY <1>6 DEF lower

LEMMA SameFunction ==
  ASSUME NEW D, NEW f, NEW g, f = [x \in D |-> f[x]], g = [x \in D |-> g[x]],
         \A x \in D : f[x] = g[x]
  PROVE  f = g
OBVIOUS

LEMMA LowerOfPart ==
  ASSUME NEW S, NEW words \in Seq(S), NEW part \in SubSeqs(words)
  PROVE  InLower(part) \in SubSeqs(InLower(words))
<1> DEFINE n == Len(words)
           lower == InLower(words)
<1>1. n \in Nat /\ DOMAIN words = 1 .. n
  OBVIOUS
<1>2. PICK i \in 0 .. n, j \in 0 .. n : part = SubSeq(words, i + 1, j)
  BY DEF SubSeqs
<1>3. /\ DOMAIN lower = 1 .. n /\ Len(lower) = n
      /\ \A k \in 1 .. n : lower[k] = [words[k] EXCEPT !.upper = FALSE]
  BY <1>1, LowerIsWhole DEF InLower
<1> HIDE DEF n, lower
<1> DEFINE m == IF i + 1 <= j THEN j - i ELSE 0
           cut == SubSeq(lower, i + 1, j)
<1>4. m \in Nat /\ \A k \in 1 .. m : i + k \in 1 .. n
  BY <1>1, <1>2
<1>5. /\ part = [k \in 1 .. m |-> words[i + k]]
      /\ cut = [k \in 1 .. m |-> lower[i + k]]
  BY <1>1, <1>2
<1>6. InLower(part) = [k \in 1 .. m |-> [words[i + k] EXCEPT !.upper = FALSE]]
  BY <1>5 DEF InLower
<1>7. InLower(part) = cut
  <2> HIDE DEF m, cut
  <2>1. \A k \in 1 .. m : lower[i + k] = [words[i + k] EXCEPT !.upper = FALSE]
    BY <1>3, <1>4
  <2> DEFINE low == InLower(part)
  <2>2. low = [k \in 1 .. m |-> low[k]] /\ \A k \in 1 .. m : low[k] = lower[i + k]
    BY <1>6, <2>1
  <2>3. cut = [k \in 1 .. m |-> cut[k]] /\ \A k \in 1 .. m : cut[k] = lower[i + k]
    BY <1>5
  <2> HIDE DEF low
  <2>4. \A k \in 1 .. m : low[k] = cut[k]
    BY <2>2, <2>3
  <2>5. low = cut
    BY <2>2, <2>3, <2>4, SameFunction
  <2> QED
    BY <2>5 DEF low
<1>8. cut \in SubSeqs(lower)
  <2>1. i \in 0 .. Len(lower) /\ j \in 0 .. Len(lower)
    BY <1>2, <1>3
  <2>2. \E a, b \in 0 .. Len(lower) : cut = SubSeq(lower, a + 1, b)
    BY <2>1
  <2> HIDE DEF cut
  <2> QED
    BY <2>2 DEF SubSeqs
<1> QED
  BY <1>7, <1>8 DEF lower

LEMMA WholeIsPart ==
  ASSUME NEW S, NEW words \in Seq(S)
  PROVE  words \in SubSeqs(words)
<1>1. Len(words) \in 0 .. Len(words) /\ 0 \in 0 .. Len(words)
  OBVIOUS
<1>2. SubSeq(words, 0 + 1, Len(words)) = words
  OBVIOUS
<1> QED
  BY <1>1, <1>2 DEF SubSeqs

LEMMA PassMeansPass ==
  ASSUME NEW p \in BOOLEAN, NEW grade, grade = PassFail(p)
  PROVE  grade.passed = p
<1>1. CASE p = TRUE
  BY <1>1 DEF PassFail, Grade
<1>2. CASE p = FALSE
  BY <1>2 DEF PassFail, Grade
<1> QED
  BY <1>1, <1>2


(* A scorer that asks nobody says what it says.                            *)
LEMMA ExactOrContains ==
  ASSUME NEW g, GradingOk(g), g.scorer[1] \in {"exact", "contains"}
  PROVE  g.grade = IF g.scorer[1] = "exact" THEN ExactOf(g.scorer[2], g.case, g.output)
                   ELSE ContainsOf(g.scorer[2], g.output)
<1>1. PlainOk(g)
  BY DEF GradingOk, AskOk, AskerNames
<1> QED
  BY <1>1 DEF PlainOk, PlainGrade

(* `contains` accepts what `exact` or a stricter `contains` accepted.      *)
LEMMA ContainsIsLaxer ==
  ASSUME NEW a, NEW b, GradingOk(a), GradingOk(b),
         a.output = b.output, a.grade.passed,
         a.scorer \in {<<"exact", TRUE>>, <<"contains", TRUE>>}, b.scorer[1] = "contains"
  PROVE  b.grade.passed
<1> DEFINE words == a.output.words
<1>1. Wanted.words \in Seq(Range(Wanted.words))
  BY TextsAssumption
<1>2. Wanted.words \in SubSeqs(words)
  <2>1. CASE a.scorer = <<"exact", TRUE>>
    <3>1. a.scorer[1] = "exact" /\ a.scorer[2] = TRUE
      BY <2>1
    <3>2. a.grade = PassFail(a.output = Wanted)
      BY <3>1, ExactOrContains DEF ExactOf
    <3> DEFINE p == a.output = Wanted
    <3>3. p \in BOOLEAN
      OBVIOUS
    <3>4. a.grade.passed = p
      BY <3>2, <3>3, PassMeansPass
    <3>5. a.output = Wanted
      BY <3>4
    <3> QED
      BY <1>1, <3>5, WholeIsPart
  <2>2. CASE a.scorer = <<"contains", TRUE>>
    <3>1. a.scorer[1] = "contains" /\ a.scorer[2] = TRUE
      BY <2>2
    <3>2. a.grade = PassFail(Wanted.words \in SubSeqs(words))
      BY <3>1, ExactOrContains DEF ContainsOf
    <3> DEFINE p == Wanted.words \in SubSeqs(words)
    <3>3. p \in BOOLEAN
      OBVIOUS
    <3>4. a.grade.passed = p
      BY <3>2, <3>3, PassMeansPass
    <3> QED
      BY <3>4
  <2> QED
    BY <2>1, <2>2
<1>3. words \in Seq(Range(words))
  BY TextsAssumption DEF GradingOk
<1>4. InLower(Wanted.words) \in SubSeqs(InLower(words))
  BY <1>2, <1>3, LowerOfPart
<1>5. b.grade = ContainsOf(b.scorer[2], b.output)
  BY ExactOrContains
<1>6. b.grade = PassFail(TRUE)
  BY <1>2, <1>4, <1>5 DEF ContainsOf
<1> QED
  BY <1>6, PassMeansPass

(* A vector is as near to itself as rounding allows.                       *)
LEMMA SelfIsNear ==
  ASSUME NEW v \in Embeddings
  PROVE  /\ ~SimilarityOf(v, v).err
         /\ SimilarityOf(v, v).passed \/ SimilarityOf(v, v).reason = "no direction"
<1>1. v # Failed
  BY RepliesAssumption
<1>2. CASE v.angle = None
  BY <1>1, <1>2 DEF SimilarityOf, Grade
<1>3. CASE v.angle # None
  <2>1. v.angle \in Int /\ v.lost \in Nat /\ v.lost + v.lost \in 0 .. Rounding
    BY <1>3, RepliesAssumption, RoundingAssumption
  <2>2. (v.angle - v.angle) % 360 = 0
    BY <2>1
  <2>3. Cosine(v, v) = Full - v.lost - v.lost
    BY <2>2 DEF Cosine
  <2>4. Clears(Cosine(v, v))
    BY <2>1, <2>3, ThresholdAssumption, RoundingAssumption DEF Clears
  <2> QED
    BY <1>1, <1>3, <2>4 DEF SimilarityOf, Grade
<1> QED
  BY <1>2, <1>3

LEMMA SimilarityIsLaxer ==
  ASSUME NEW a, NEW b, GradingOk(a), GradingOk(b), Backed(b, cassette), TapeOk(cassette),
         a.case = b.case, a.output = b.output, a.grade.passed,
         a.scorer = <<"exact", FALSE>>, b.scorer = <<"similarity">>, Standing(b)
  PROVE  b.grade.passed \/ b.grade.reason = "no direction"
<1>1. a.scorer[1] = "exact" /\ a.scorer[2] = FALSE /\ b.scorer[1] = "similarity"
  OBVIOUS
<1>2. a.grade = PassFail(a.case.expected # None /\ a.output = AsText(a.case.expected))
  BY <1>1, ExactOrContains DEF ExactOf
<1>3. b.case.expected # None /\ b.output = AsText(b.case.expected)
  <2> DEFINE p == a.case.expected # None /\ a.output = AsText(a.case.expected)
  <2>1. p \in BOOLEAN
    OBVIOUS
  <2>2. a.grade.passed = p
    BY <1>2, <2>1, PassMeansPass
  <2> QED
    BY <2>2
<1>4. AskOk(b)
  BY <1>1, <1>3 DEF GradingOk, PlainOk
<1>5. /\ b.heard \in Seq(RepliesTo(b.scorer)) /\ Len(b.heard) = 2
      /\ b.grade = GradeOf(b.scorer, b.heard)
      /\ b.heard[1] = cassette[KeyOf(b, 1)] /\ b.heard[2] = cassette[KeyOf(b, 2)]
  <2>1. Calls(b) = 2
    BY <1>1, CallsType
  <2>2. /\ b.heard \in Seq(RepliesTo(b.scorer)) /\ Len(b.heard) = Calls(b)
        /\ b.grade = GradeOf(b.scorer, b.heard)
        /\ \A c \in 1 .. Calls(b) : b.heard[c] = cassette[KeyOf(b, c)]
    BY <1>4, StandingHeard
  <2> QED
    BY <2>1, <2>2
<1>6. KeyOf(b, 1) = KeyOf(b, 2)
  <2>1. Requests(b.scorer, b.case, b.output) =
          <<<<"embed", AsText(b.case.expected)>>, <<"embed", b.output>>>>
    BY <1>1 DEF Requests
  <2> QED
    BY <1>3, <2>1 DEF KeyOf
<1> DEFINE v == b.heard[1]
<1>7. v \in Embeddings /\ b.heard[2] = v
  BY <1>1, <1>5, <1>6 DEF RepliesTo
<1>8. Failed \notin Range(b.heard)
  BY <1>1, <1>5, RepliesAssumption DEF Range, RepliesTo
<1>9. b.grade = SimilarityOf(v, v)
  BY <1>1, <1>5, <1>7, <1>8 DEF GradeOf
<1> QED
  BY <1>7, <1>9, SelfIsNear

LEMMA InvGivesStrictest == ScorersInv => ExactIsStrictest
<1> SUFFICES ASSUME ScorersInv, NEW k \in DOMAIN grades, NEW n \in DOMAIN grades,
                    grades[k].case = grades[n].case, grades[k].output = grades[n].output,
                    grades[k].scorer[1] \in {"exact", "contains"}, grades[k].grade.passed
             PROVE  LET a == grades[k] b == grades[n] IN
               /\ a.scorer \in {<<"exact", TRUE>>, <<"contains", TRUE>>} /\ b.scorer[1] = "contains" =>
                    b.grade.passed
               /\ a.scorer = <<"exact", FALSE>> /\ b.scorer = <<"similarity">> /\ Standing(b) =>
                    b.grade.passed \/ b.grade.reason = "no direction"
  BY DEF ExactIsStrictest
<1>1. /\ GradingOk(grades[k]) /\ GradingOk(grades[n])
      /\ Backed(grades[n], cassette) /\ TapeOk(cassette)
  BY DEF ScorersInv
<1> QED
  BY <1>1, ContainsIsLaxer, SimilarityIsLaxer

(* What `exact` accepts, the laxer scorers accept (ExactIsStrictest).      *)
THEOREM LaxerScorersAgree == ScorersSpec => []ExactIsStrictest
<1> QED
  BY ScorersStart, ScorersSteps, InvGivesStrictest, PTL DEF ScorersSpec
-----------------------------------------------------------------------------
(* Reports. *)

ReportSpec == ReportInit /\ [][ReportNext]_reportVars

ResultOk(r) ==
  /\ r.error => r.scores = <<>>
  /\ r.trials = NoTrials \/ (r.trials \in Seq(Range(r.trials)) /\ Len(r.trials) > 1)
ListOk(R) ==
  /\ \E S : R \in Seq(S)
  /\ \A k \in DOMAIN R : ResultOk(R[k]) /\ R[k].id \in Int
  /\ \A k, n \in DOMAIN R : k < n => R[k].id < R[n].id
ReportInv == ListOk(shown) /\ ListOk(other)

LEMMA ListGrows ==
  ASSUME NEW R, ListOk(R), NEW id \in Int, Follows(R, id),
         NEW kind \in ResultKinds \cup OtherKinds
  PROVE  ListOk(Append(R, Result(id, kind)))
<1> DEFINE n == Len(R)
           r == Result(id, kind)
           L == Append(R, r)
<1>1. PICK S : R \in Seq(S)
  BY DEF ListOk
<1>2. R \in Seq(S \cup {r})
  BY <1>1, SeqMonotonic
<1>3. L \in Seq(S \cup {r})
  BY <1>2
<1>4. /\ n \in Nat /\ DOMAIN R = 1 .. n /\ DOMAIN L = 1 .. n + 1
      /\ \A k \in 1 .. n : L[k] = R[k]
      /\ L[n + 1] = r
  BY <1>2
<1>5. ResultOk(r) /\ r.id = id
  BY ResultKindsAssumption DEF Result, ResultOk
<1> HIDE DEF n, r, L
<1>6. \A k \in 1 .. n + 1 : k \in 1 .. n \/ k = n + 1
  BY <1>4
<1>7. \A k \in DOMAIN L : ResultOk(L[k]) /\ L[k].id \in Int
  BY <1>4, <1>5, <1>6 DEF ListOk
<1>8. ASSUME NEW k \in 1 .. n + 1, NEW m \in 1 .. n + 1, k < m
      PROVE  L[k].id < L[m].id
  <2>1. k \in 1 .. n
    BY <1>4, <1>8
  <2>2. CASE m \in 1 .. n
    BY <1>4, <1>8, <2>1, <2>2 DEF ListOk
  <2>3. CASE m = n + 1
    BY <1>4, <1>5, <2>1, <2>3 DEF Follows
  <2> QED
    BY <1>6, <2>2, <2>3
<1>9. ListOk(L)
  BY <1>3, <1>4, <1>7, <1>8 DEF ListOk
<1> QED
  BY <1>9 DEF L, r

LEMMA ReportStarts == ReportInit => ReportInv
<1>1. <<>> \in Seq({}) /\ DOMAIN <<>> = {}
  OBVIOUS
<1>2. ListOk(<<>>)
  BY <1>1 DEF ListOk
<1> QED
  BY <1>2 DEF ReportInit, ReportInv

LEMMA ReportSteps == ReportInv /\ [ReportNext]_reportVars => ReportInv'
<1> SUFFICES ASSUME ReportInv, [ReportNext]_reportVars
             PROVE  ReportInv'
  OBVIOUS
<1>1. ASSUME NEW id \in 1 .. NumIds, NEW kind \in ResultKinds, ShowCase(id, kind)
      PROVE  ReportInv'
  BY <1>1, ListGrows DEF ShowCase, ReportInv
<1>2. ASSUME NEW id \in 1 .. NumIds, NEW kind \in OtherKinds, OtherCase(id, kind)
      PROVE  ReportInv'
  BY <1>2, ListGrows DEF OtherCase, ReportInv
<1>3. CASE UNCHANGED reportVars
  BY <1>3 DEF reportVars, ReportInv
<1> QED
  BY <1>1, <1>2, <1>3 DEF ReportNext

(* An id stands for its place.                                             *)
Failing(R) == {k \in DOMAIN R : ~Passed(R[k])}
IdsAt(R, places) == {R[k].id : k \in places}

LEMMA DistinctIds ==
  ASSUME NEW R, ListOk(R), NEW k \in DOMAIN R, NEW n \in DOMAIN R, R[k].id = R[n].id
  PROVE  k = n
<1>1. DOMAIN R = 1 .. Len(R) /\ Len(R) \in Nat
  BY DEF ListOk
<1>2. k \in Int /\ n \in Int /\ R[k].id \in Int /\ R[n].id \in Int
  BY <1>1 DEF ListOk
<1>3. ~(k < n) /\ ~(n < k)
  BY <1>2 DEF ListOk
<1> QED
  BY <1>2, <1>3

LEMMA IdsCount ==
  ASSUME NEW R, ListOk(R), NEW places \in SUBSET DOMAIN R
  PROVE  /\ IsFiniteSet(places) /\ IsFiniteSet(IdsAt(R, places))
         /\ Cardinality(places) \in Nat
         /\ Cardinality(IdsAt(R, places)) = Cardinality(places)
<1>1. DOMAIN R = 1 .. Len(R) /\ Len(R) \in Nat
  BY DEF ListOk
<1>2. IsFiniteSet(places) /\ Cardinality(places) \in Nat
  <2>1. 1 \in Int /\ Len(R) \in Int
    BY <1>1
  <2>2. IsFiniteSet(1 .. Len(R))
    BY <2>1, FS_Interval
  <2> QED
    BY <1>1, <2>2, FS_Subset, FS_CardinalityType
<1> DEFINE p == [k \in places |-> R[k].id]
<1>3. p \in Bijection(places, IdsAt(R, places))
  BY DistinctIds DEF Bijection, Injection, IsInjective, Surjection, IdsAt
<1>4. ExistsBijection(places, IdsAt(R, places))
  BY <1>3 DEF ExistsBijection
<1> QED
  BY <1>2, <1>4, FS_Bijection

LEMMA VerdictAtPlace ==
  ASSUME NEW R, ListOk(R), NEW k \in DOMAIN R
  PROVE  VerdictOf(R, R[k].id) = Passed(R[k])
<1> DEFINE same == {n \in DOMAIN R : R[n].id = R[k].id}
<1>1. same = {k}
  BY DistinctIds
<1>2. k \in Nat
  BY DEF ListOk
<1>3. Max(same) \in same
  BY <1>1, <1>2, MaxIsGreatest, FS_Singleton
<1>4. Max(same) = k
  BY <1>1, <1>3
<1> QED
  BY <1>4 DEF VerdictOf

LEMMA FailuresCount ==
  ASSUME NEW R, ListOk(R)
  PROVE  /\ FailedIn(R) = Cardinality(Failing(R)) /\ FailedIn(R) \in Nat
         /\ Cardinality(IdsAt(R, Failing(R))) = FailedIn(R)
         /\ FailedIn(R) = 0 <=> Failing(R) = {}
<1> DEFINE passed == {k \in DOMAIN R : Passed(R[k])}
<1>1. DOMAIN R = 1 .. Len(R) /\ Len(R) \in Nat
  BY DEF ListOk
<1>2. IsFiniteSet(DOMAIN R) /\ Cardinality(DOMAIN R) = Len(R)
  <2>1. 1 \in Int /\ Len(R) \in Int
    BY <1>1
  <2>2. /\ IsFiniteSet(1 .. Len(R))
        /\ Cardinality(1 .. Len(R)) = IF 1 > Len(R) THEN 0 ELSE Len(R) - 1 + 1
    BY <2>1, FS_Interval
  <2> QED
    BY <1>1, <2>2
<1>3. passed \in SUBSET DOMAIN R /\ Failing(R) \in SUBSET DOMAIN R
  BY DEF Failing
<1>4. DOMAIN R = passed \cup Failing(R) /\ passed \cap Failing(R) = {}
  BY DEF Failing
<1>5. IsFiniteSet(passed) /\ IsFiniteSet(Failing(R)) /\ Cardinality(passed) \in Nat
      /\ Cardinality(Failing(R)) \in Nat
  BY <1>3, IdsCount
<1> HIDE DEF passed
<1>6. Len(R) = Cardinality(passed) + Cardinality(Failing(R))
  <2>1. Cardinality(passed \cup Failing(R)) =
          Cardinality(passed) + Cardinality(Failing(R)) - Cardinality(passed \cap Failing(R))
    BY <1>5, FS_Union
  <2>2. Cardinality(passed \cap Failing(R)) = 0
    BY <1>4, FS_EmptySet
  <2> QED
    BY <1>2, <1>4, <1>5, <2>1, <2>2
<1>7. PassedIn(R) = Cardinality(passed)
  BY DEF PassedIn, passed
<1>8. FailedIn(R) = Cardinality(Failing(R))
  BY <1>5, <1>6, <1>7 DEF FailedIn
<1> QED
  BY <1>3, <1>5, <1>8, IdsCount, FS_EmptySet

(* What the documents say of a case.                                       *)
LEMMA LineSays ==
  ASSUME NEW r
  PROVE  /\ CaseLine(r).id = r.id /\ JunitCase(r).name = r.id /\ HtmlCase(r).id = r.id
         /\ CaseLine(r).mark = IF Passed(r) THEN "PASS" ELSE "FAIL"
         /\ HtmlCase(r).badge = IF Passed(r) THEN "PASS" ELSE "FAIL"
         /\ CaseLine(r).reasons = IF Passed(r) THEN <<>> ELSE Reasons(r)
         /\ JunitCase(r).failure = IF Passed(r) THEN <<>> ELSE Reasons(r)
         /\ HtmlCase(r).error = r.error
         /\ HtmlCase(r).scores = [j \in DOMAIN r.scores |->
                <<r.scores[j].scorer, r.scores[j].passed, r.scores[j].reason>>]
BY DEF CaseLine, JunitCase, HtmlCase

LEMMA FailureHasReason ==
  ASSUME NEW r, ResultOk(r), ~Passed(r)
  PROVE  /\ Reasons(r) # <<>>
         /\ Cardinality(DOMAIN Reasons(r)) =
              IF HtmlCase(r).error THEN 1
              ELSE Cardinality({j \in DOMAIN HtmlCase(r).scores : ~HtmlCase(r).scores[j][2]})
<1>1. CASE r.error
  <2>1. Reasons(r) = <<"target error">>
    BY <1>1 DEF Reasons
  <2>2. DOMAIN Reasons(r) = {1} /\ Reasons(r) # <<>>
    <3>1. DOMAIN <<"target error">> = 1 .. 1 /\ DOMAIN <<>> = {}
      OBVIOUS
    <3>2. 1 .. 1 = {1}
      OBVIOUS
    <3> QED
      BY <2>1, <3>1, <3>2
  <2> QED
    BY <1>1, <2>2, FS_Singleton, LineSays
<1>2. CASE ~r.error
  <2> DEFINE bad == {j \in DOMAIN r.scores : ~r.scores[j].passed}
  <2>1. DOMAIN Reasons(r) = bad
    BY <1>2 DEF Reasons
  <2>2. bad # {}
    BY <1>2 DEF Passed
  <2>3. DOMAIN <<>> = {}
    OBVIOUS
  <2>4. /\ DOMAIN HtmlCase(r).scores = DOMAIN r.scores
        /\ \A j \in DOMAIN r.scores : HtmlCase(r).scores[j][2] = r.scores[j].passed
    <3>1. HtmlCase(r).scores = [j \in DOMAIN r.scores |->
                                 <<r.scores[j].scorer, r.scores[j].passed, r.scores[j].reason>>]
      BY LineSays
    <3> QED
      BY <3>1
  <2>5. {j \in DOMAIN HtmlCase(r).scores : ~HtmlCase(r).scores[j][2]} = bad
    BY <2>4
  <2> QED
    BY <1>2, <2>1, <2>2, <2>3, <2>5, LineSays
<1> QED
  BY <1>1, <1>2

LEMMA SplitIsFlaky ==
  ASSUME NEW r, ResultOk(r), r.trials # NoTrials
  PROVE  /\ JsonCase(r).stats = {TrialStats(r.trials)}
         /\ LET stats == TrialStats(r.trials)
            IN Flaky(r) <=> stats.passed[1] > 0 /\ stats.passed[1] < stats.passed[2]
<1> DEFINE ts == r.trials
           won == {k \in DOMAIN ts : ts[k].passed}
<1>1. Len(ts) \in Nat /\ DOMAIN ts = 1 .. Len(ts)
  BY DEF ResultOk
<1>2. 1 \in Int /\ Len(ts) \in Int
  BY <1>1
<1>3. IsFiniteSet(1 .. Len(ts))
  BY <1>2, FS_Interval
<1>4. TrialsPassed(ts) \in Nat
  <2>1. won \in SUBSET (1 .. Len(ts))
    BY <1>1
  <2>2. Cardinality(won) \in Nat
    BY <1>3, <2>1, FS_Subset, FS_CardinalityType
  <2> QED
    BY <2>2 DEF TrialsPassed
<1> DEFINE n == TrialsPassed(ts)
           m == Len(ts)
<1>5. TrialStats(ts).passed = <<n, m>>
  BY DEF TrialStats
<1>6. Flaky(r) <=> n \in 1 .. (m - 1)
  BY DEF Flaky
<1>7. JsonCase(r).stats = {TrialStats(ts)}
  BY DEF JsonCase
<1> HIDE DEF n, m
<1>8. n \in 1 .. (m - 1) <=> n > 0 /\ n < m
  BY <1>1, <1>4 DEF n, m
<1>9. TrialStats(ts).passed[1] = n /\ TrialStats(ts).passed[2] = m
  BY <1>5
<1> QED
  BY <1>6, <1>7, <1>8, <1>9

LEMMA TerminalSays ==
  ASSUME NEW R, NEW gs
  PROVE  /\ Terminal(R, gs, FALSE).cases = [k \in DOMAIN R |-> CaseLine(R[k])]
         /\ Terminal(R, gs, TRUE).cases = [k \in Failing(R) |-> CaseLine(R[k])]
         /\ FailingIds(Terminal(R, gs, FALSE).cases) = IdsAt(R, Failing(R))
         /\ FailingIds(Terminal(R, gs, TRUE).cases) = IdsAt(R, Failing(R))
<1>1. Terminal(R, gs, FALSE).cases = [k \in DOMAIN R |-> CaseLine(R[k])]
  BY DEF Terminal
<1>2. Terminal(R, gs, TRUE).cases = [k \in Failing(R) |-> CaseLine(R[k])]
  <2>1. {n \in DOMAIN R : ~(TRUE /\ Passed(R[n]))} = Failing(R)
    BY DEF Failing
  <2> QED
    BY <2>1, Zenon DEF Terminal
<1>3. ASSUME NEW places, Failing(R) \subseteq places, places \subseteq DOMAIN R
      PROVE  FailingIds([k \in places |-> CaseLine(R[k])]) = IdsAt(R, Failing(R))
  <2> DEFINE lines == [k \in places |-> CaseLine(R[k])]
  <2>1. DOMAIN lines = places /\ \A k \in places : lines[k] = CaseLine(R[k])
    OBVIOUS
  <2> HIDE DEF lines
  <2>2. \A k \in places : lines[k].id = R[k].id /\ (lines[k].mark = "FAIL" <=> ~Passed(R[k]))
    <3>1. \A r : CaseLine(r).id = r.id /\ (CaseLine(r).mark = "FAIL" <=> ~Passed(r))
      BY LineSays
    <3> QED
      BY <2>1, <3>1, Zenon
  <2>3. {n \in DOMAIN lines : lines[n].mark = "FAIL"} = Failing(R)
    BY <1>3, <2>1, <2>2 DEF Failing
  <2>4. FailingIds(lines) = IdsAt(R, Failing(R))
    BY <1>3, <2>1, <2>2, <2>3 DEF FailingIds, IdsAt
  <2> QED
    BY <2>4 DEF lines
<1>4. Failing(R) \subseteq DOMAIN R
  BY DEF Failing
<1> QED
  BY <1>1, <1>2, <1>3, <1>4

(* The <failure> elements of a test suite.                                 *)
FailureNames(suite) == {suite.cases[k].name : k \in {n \in DOMAIN suite.cases : suite.cases[n].failure # <<>>}}

LEMMA SuiteSays ==
  ASSUME NEW R, ListOk(R), NEW name
  PROVE  /\ JunitSuite(name, R).cases = [k \in DOMAIN R |-> JunitCase(R[k])]
         /\ FailureNames(JunitSuite(name, R)) = IdsAt(R, Failing(R))
<1> DEFINE cases == [k \in DOMAIN R |-> JunitCase(R[k])]
<1>1. JunitSuite(name, R).cases = cases
  BY DEF JunitSuite
<1>2. DOMAIN cases = DOMAIN R /\ \A k \in DOMAIN R : cases[k] = JunitCase(R[k])
  OBVIOUS
<1> HIDE DEF cases
<1>3. ASSUME NEW k \in DOMAIN R
      PROVE  cases[k].name = R[k].id /\ (cases[k].failure # <<>> <=> ~Passed(R[k]))
  <2>1. ResultOk(R[k])
    BY DEF ListOk
  <2>2. ~Passed(R[k]) => Reasons(R[k]) # <<>>
    BY <2>1, FailureHasReason
  <2>3. JunitCase(R[k]).failure = IF Passed(R[k]) THEN <<>> ELSE Reasons(R[k])
    BY LineSays
  <2>4. JunitCase(R[k]).name = R[k].id
    BY LineSays
  <2> QED
    BY <1>2, <2>2, <2>3, <2>4
<1>4. {n \in DOMAIN cases : cases[n].failure # <<>>} = Failing(R)
  BY <1>2, <1>3 DEF Failing
<1>5. Failing(R) \subseteq DOMAIN R
  BY DEF Failing
<1>6. FailureNames(JunitSuite(name, R)) = IdsAt(R, Failing(R))
  BY <1>1, <1>3, <1>4, <1>5 DEF FailureNames, IdsAt
<1> QED
  BY <1>1, <1>6 DEF cases

LEMMA TwoArms ==
  ASSUME NEW f, f[1] \in Nat, f[2] \in Nat, DOMAIN f = 1 .. 2
  PROVE  SumFunction(f) = f[1] + f[2]
<1>1. DOMAIN f = {1} \cup {2}
  BY DEF SumFunction
<1>2. SumFunctionOnSet(f, {}) = 0 /\ IsFiniteSet({})
  BY SumEquations, FS_EmptySet
<1>3. SumFunctionOnSet(f, {} \cup {1}) = SumFunctionOnSet(f, {}) + f[1]
  BY <1>2, SumAdd
<1>4. IsFiniteSet({1}) /\ {} \cup {1} = {1} /\ 2 \notin {1}
  BY FS_Singleton
<1>5. SumFunctionOnSet(f, {1} \cup {2}) = SumFunctionOnSet(f, {1}) + f[2]
  BY <1>4, SumAdd
<1> QED
  BY <1>1, <1>2, <1>3, <1>4, <1>5 DEF SumFunction

LEMMA InvGivesAgreement == ReportInv => ReportersAgree
<1> SUFFICES ASSUME ReportInv
             PROVE  ReportersAgree
  OBVIOUS
<1> DEFINE full == Terminal(shown, gates, FALSE)
           quiet == Terminal(shown, gates, TRUE)
           xml == Junit(shown)
           html == HtmlBody(shown, gates)
           data == Json(shown, gates)
           all == JunitMatrix(<<shown, other>>)
           ids == IdsAt(shown, Failing(shown))
           pageBad == {html.cases[k].id : k \in {n \in DOMAIN html.cases : html.cases[n].badge = "FAIL"}}
<1>0. ListOk(shown) /\ ListOk(other)
  BY DEF ReportInv
<1>1. /\ full.cases = [k \in DOMAIN shown |-> CaseLine(shown[k])]
      /\ FailingIds(full.cases) = ids /\ FailingIds(quiet.cases) = ids
  BY TerminalSays
<1>2. /\ xml.suites[1].cases = [k \in DOMAIN shown |-> JunitCase(shown[k])]
      /\ FailureNames(xml.suites[1]) = ids
  <2>1. xml.suites[1] = JunitSuite("evalcore", shown)
    BY DEF Junit
  <2> QED
    BY <1>0, <2>1, SuiteSays
<1>3. /\ html.cases = [k \in DOMAIN shown |-> HtmlCase(shown[k])]
      /\ html.headline = Headline(shown) /\ full.headline = Headline(shown)
      /\ html.overall = IF AllPassed(shown) THEN "all passed" ELSE "failing"
      /\ data.results = [k \in DOMAIN shown |-> JsonCase(shown[k])]
      /\ full.flaky = IF \E k \in DOMAIN shown : shown[k].trials # NoTrials
                      THEN {Cardinality({k \in DOMAIN shown : Flaky(shown[k])})} ELSE {}
  BY DEF HtmlBody, Terminal, Json
<1>4. /\ DOMAIN full.cases = DOMAIN shown /\ DOMAIN html.cases = DOMAIN shown
      /\ DOMAIN xml.suites[1].cases = DOMAIN shown /\ DOMAIN data.results = DOMAIN shown
      /\ \A k \in DOMAIN shown :
           /\ full.cases[k] = CaseLine(shown[k]) /\ html.cases[k] = HtmlCase(shown[k])
           /\ xml.suites[1].cases[k] = JunitCase(shown[k])
           /\ data.results[k] = JsonCase(shown[k])
  BY <1>1, <1>2, <1>3
<1>5. /\ all.failures = FailedIn(shown) + FailedIn(other)
      /\ FailureNames(all.suites[1]) = ids
      /\ FailureNames(all.suites[2]) = IdsAt(other, Failing(other))
  <2> DEFINE arms == <<shown, other>>
             f == [a \in DOMAIN arms |-> FailedIn(arms[a])]
  <2>1. DOMAIN arms = 1 .. 2 /\ 1 \in 1 .. 2 /\ 2 \in 1 .. 2
    OBVIOUS
  <2>2. DOMAIN f = 1 .. 2 /\ f[1] = FailedIn(shown) /\ f[2] = FailedIn(other)
    BY <2>1
  <2>3. all.failures = SumFunction(f)
    BY DEF JunitMatrix
  <2>4. all.suites = [a \in DOMAIN arms |-> JunitSuite(a, arms[a])]
    BY DEF JunitMatrix
  <2>5. all.suites[1] = JunitSuite(1, shown) /\ all.suites[2] = JunitSuite(2, other)
    BY <2>1, <2>4
  <2> HIDE DEF arms, f, all
  <2>6. SumFunction(f) = f[1] + f[2]
    BY <1>0, <2>2, FailuresCount, TwoArms
  <2> QED
    BY <1>0, <2>2, <2>3, <2>5, <2>6, SuiteSays
<1> HIDE DEF full, quiet, xml, html, data, all
<1>6. pageBad = ids
  <2>1. \A k \in DOMAIN shown :
          html.cases[k].id = shown[k].id /\ (html.cases[k].badge = "FAIL" <=> ~Passed(shown[k]))
    <3>1. \A r : HtmlCase(r).id = r.id /\ (HtmlCase(r).badge = "FAIL" <=> ~Passed(r))
      BY DEF HtmlCase
    <3> QED
      BY <1>4, <3>1
  <2>2. {n \in DOMAIN html.cases : html.cases[n].badge = "FAIL"} = Failing(shown)
    BY <1>4, <2>1 DEF Failing
  <2>3. Failing(shown) \subseteq DOMAIN shown
    BY DEF Failing
  <2> QED
    BY <2>1, <2>2, <2>3 DEF IdsAt
<1>7. ASSUME NEW k \in DOMAIN full.cases, full.cases[k].mark = "FAIL"
      PROVE  /\ full.cases[k].reasons # <<>>
             /\ full.cases[k].reasons = xml.suites[1].cases[k].failure
             /\ Cardinality(DOMAIN full.cases[k].reasons) =
                  IF html.cases[k].error THEN 1
                  ELSE Cardinality({j \in DOMAIN html.cases[k].scores : ~html.cases[k].scores[j][2]})
  <2>1. k \in DOMAIN shown /\ ResultOk(shown[k])
    BY <1>0, <1>4 DEF ListOk
  <2>2. ~Passed(shown[k])
    BY <1>4, <1>7, <2>1, LineSays
  <2>3. full.cases[k].reasons = Reasons(shown[k]) /\ xml.suites[1].cases[k].failure = Reasons(shown[k])
    BY <1>4, <2>1, <2>2, LineSays
  <2> QED
    BY <1>4, <2>1, <2>2, <2>3, FailureHasReason
<1>8. full.headline = html.headline /\ full.headline.failed = Cardinality(FailingIds(full.cases))
  <2>1. Headline(shown).failed = FailedIn(shown)
    BY DEF Headline
  <2>2. Cardinality(ids) = FailedIn(shown)
    BY <1>0, FailuresCount
  <2> QED
    BY <1>1, <1>3, <2>1, <2>2
<1>9. html.overall = "all passed" <=> FailingIds(quiet.cases) = {}
  <2>1. AllPassed(shown) <=> Failing(shown) = {}
    BY <1>0, FailuresCount DEF AllPassed
  <2>2. Failing(shown) = {} <=> ids = {}
    BY DEF IdsAt
  <2> QED
    BY <1>1, <1>3, <2>1, <2>2
<1> DEFINE Split(stats) == stats.passed[1] > 0 /\ stats.passed[1] < stats.passed[2]
<1>10. \A n \in full.flaky : n =
         Cardinality({k \in DOMAIN data.results : \E t \in data.results[k].stats : Split(t)})
  <2>1. ASSUME NEW k \in DOMAIN shown
        PROVE  Flaky(shown[k]) <=> \E t \in data.results[k].stats : Split(t)
    <3>1. ResultOk(shown[k]) /\ data.results[k] = JsonCase(shown[k])
      BY <1>0, <1>4 DEF ListOk
    <3>2. CASE shown[k].trials = NoTrials
      BY <3>1, <3>2 DEF Flaky, JsonCase
    <3>3. CASE shown[k].trials # NoTrials
      <4>1. /\ JsonCase(shown[k]).stats = {TrialStats(shown[k].trials)}
            /\ Flaky(shown[k]) <=> Split(TrialStats(shown[k].trials))
        BY <3>1, <3>3, SplitIsFlaky
      <4> HIDE DEF Split
      <4> QED
        BY <3>1, <4>1
    <3> QED
      BY <3>2, <3>3
  <2> HIDE DEF Split
  <2>2. {k \in DOMAIN shown : Flaky(shown[k])} =
        {k \in DOMAIN data.results : \E t \in data.results[k].stats : Split(t)}
    BY <1>4, <2>1
  <2>3. \A n \in full.flaky : n = Cardinality({k \in DOMAIN shown : Flaky(shown[k])})
    BY <1>3
  <2> QED
    BY <2>2, <2>3, Zenon
<1>11. \A k \in DOMAIN html.cases : {t.stats : t \in html.cases[k].trials} = data.results[k].stats
  <2> SUFFICES ASSUME NEW k \in DOMAIN shown
               PROVE  {t.stats : t \in HtmlCase(shown[k]).trials} = JsonCase(shown[k]).stats
    BY <1>4
  <2>1. CASE shown[k].trials = NoTrials
    BY <2>1 DEF HtmlCase, JsonCase
  <2>2. CASE shown[k].trials # NoTrials
    <3>1. /\ HtmlCase(shown[k]).trials = {HtmlTrials(shown[k].trials)}
          /\ JsonCase(shown[k]).stats = {TrialStats(shown[k].trials)}
      BY <2>2 DEF HtmlCase, JsonCase
    <3>2. HtmlTrials(shown[k].trials).stats = TrialStats(shown[k].trials)
      BY DEF HtmlTrials
    <3> QED
      BY <3>1, <3>2
  <2> QED
    BY <2>1, <2>2
<1>12. all.failures =
         Cardinality(FailureNames(all.suites[1])) + Cardinality(FailureNames(all.suites[2]))
  BY <1>0, <1>5, FailuresCount
<1>13. /\ FailingIds(quiet.cases) = FailingIds(full.cases)
       /\ FailingIds(full.cases) = FailureNames(xml.suites[1])
       /\ FailingIds(full.cases) = pageBad
  BY <1>1, <1>2, <1>6
<1> QED
  BY <1>7, <1>8, <1>9, <1>10, <1>11, <1>12, <1>13
     DEF ReportersAgree, FailureNames, full, quiet, xml, html, data, all

(* Whichever report one reads, it tells of the same run (ReportersAgree).  *)
THEOREM ReportsTellTheSame == ReportSpec => []ReportersAgree
<1> QED
  BY ReportStarts, ReportSteps, InvGivesAgreement, PTL DEF ReportSpec

(* What a section lists under one of its words.                            *)
LEMMA UnderOneWord ==
  ASSUME NEW word, NEW lines, NEW set, Lines(word, set) \subseteq lines,
         \A l \in lines : l.mark = word => l \in Lines(word, set)
  PROVE  {l.id : l \in {n \in lines : n.mark = word}} = set
<1>1. ASSUME NEW id \in set
      PROVE  \E l \in {n \in lines : n.mark = word} : id = l.id
  <2> DEFINE told == [mark |-> word, id |-> id]
  <2>1. told \in lines /\ told.mark = word /\ told.id = id
    BY DEF Lines
  <2> HIDE DEF told
  <2> QED
    BY <2>1
<1>2. ASSUME NEW l \in {n \in lines : n.mark = word}
      PROVE  l.id \in set
  <2>1. PICK id \in set : l = [mark |-> word, id |-> id]
    BY DEF Lines
  <2> QED
    BY <2>1
<1> QED
  BY <1>1, <1>2

(* The lines of the baseline section.                                      *)
LEMMA SectionSays ==
  ASSUME NEW d
  PROVE  LET lines == UNION Range(BaselineSection(d).lines)
             listed(word) == {l.id : l \in {n \in lines : n.mark = word}}
         IN /\ UNION Range(HtmlBaseline(d).groups) = lines
            /\ listed("REGRESSED") = d.regressions /\ listed("NEW FAIL") = d.newFailing
            /\ listed("FIXED") = d.fixed /\ listed("REMOVED") = d.removed
<1> DEFINE groups == Groups(d)
           lines == UNION Range(groups)
           listed(word) == {l.id : l \in {n \in lines : n.mark = word}}
<1>1. /\ DOMAIN groups = 1 .. 4
      /\ groups[1] = Lines("REGRESSED", d.regressions) /\ groups[2] = Lines("NEW FAIL", d.newFailing)
      /\ groups[3] = Lines("FIXED", d.fixed) /\ groups[4] = Lines("REMOVED", d.removed)
  BY DEF Groups
<1> HIDE DEF groups
<1>2. 1 .. 4 = {1, 2, 3, 4}
  OBVIOUS
<1>3. \A l : l \in lines <=>
        \/ l \in Lines("REGRESSED", d.regressions) \/ l \in Lines("NEW FAIL", d.newFailing)
        \/ l \in Lines("FIXED", d.fixed) \/ l \in Lines("REMOVED", d.removed)
  <2>1. \A l : l \in lines <=> \E k \in 1 .. 4 : l \in groups[k]
    BY <1>1 DEF Range
  <2> HIDE DEF lines
  <2>2. ASSUME NEW l
        PROVE  (\E k \in 1 .. 4 : l \in groups[k]) <=>
                 l \in groups[1] \/ l \in groups[2] \/ l \in groups[3] \/ l \in groups[4]
    BY <1>2
  <2>3. ASSUME NEW l
        PROVE  l \in lines <=>
                 \/ l \in Lines("REGRESSED", d.regressions) \/ l \in Lines("NEW FAIL", d.newFailing)
                 \/ l \in Lines("FIXED", d.fixed) \/ l \in Lines("REMOVED", d.removed)
    BY <1>1, <2>1, <2>2, Zenon
  <2> QED
    BY <2>3, Zenon
<1>4. BaselineSection(d).lines = groups
  BY DEF BaselineSection, groups
<1>5. UNION Range(HtmlBaseline(d).groups) = lines
  <2>1. HtmlBaseline(d).groups = [g \in {n \in DOMAIN groups : groups[n] # {}} |-> groups[g]]
    BY DEF HtmlBaseline, groups
  <2>2. Range(HtmlBaseline(d).groups) = {groups[g] : g \in {n \in DOMAIN groups : groups[n] # {}}}
    BY <2>1 DEF Range
  <2> QED
    BY <2>2 DEF Range
<1>6. \A word, set : \A l \in Lines(word, set) : l.mark = word
  BY DEF Lines
<1> HIDE DEF lines
<1>8. listed("REGRESSED") = d.regressions
  <2>1. /\ Lines("REGRESSED", d.regressions) \subseteq lines
        /\ \A l \in lines : l.mark = "REGRESSED" => l \in Lines("REGRESSED", d.regressions)
    BY <1>3, <1>6
  <2> QED
    BY <2>1, UnderOneWord
<1>9. listed("NEW FAIL") = d.newFailing
  <2>1. /\ Lines("NEW FAIL", d.newFailing) \subseteq lines
        /\ \A l \in lines : l.mark = "NEW FAIL" => l \in Lines("NEW FAIL", d.newFailing)
    BY <1>3, <1>6
  <2> QED
    BY <2>1, UnderOneWord
<1>10. listed("FIXED") = d.fixed
  <2>1. /\ Lines("FIXED", d.fixed) \subseteq lines
        /\ \A l \in lines : l.mark = "FIXED" => l \in Lines("FIXED", d.fixed)
    BY <1>3, <1>6
  <2> QED
    BY <2>1, UnderOneWord
<1>11. listed("REMOVED") = d.removed
  <2>1. /\ Lines("REMOVED", d.removed) \subseteq lines
        /\ \A l \in lines : l.mark = "REMOVED" => l \in Lines("REMOVED", d.removed)
    BY <1>3, <1>6
  <2> QED
    BY <2>1, UnderOneWord
<1> QED
  BY <1>4, <1>5, <1>8, <1>9, <1>10, <1>11 DEF lines

(* What is listed is what fails in one of the runs and not in the other.   *)
LEMMA DiffIsDifference ==
  ASSUME NEW base, NEW R, ListOk(base), ListOk(R)
  PROVE  LET d == Diff(base, R)
             now == IdsAt(R, Failing(R))
             then == IdsAt(base, Failing(base))
             gone == {id \in d.removed : ~VerdictOf(base, id)}
         IN /\ now \ then = d.regressions \cup d.newFailing
            /\ d.regressions \cap d.newFailing = {}
            /\ then \ now = d.fixed \cup gone
            /\ d.fixed \cap gone = {}
<1> DEFINE d == Diff(base, R)
           now == IdsAt(R, Failing(R))
           then == IdsAt(base, Failing(base))
           gone == {id \in d.removed : ~VerdictOf(base, id)}
           known == IdsIn(base)
           shows == IdsIn(R)
           was(id) == VerdictOf(base, id)
           is(id) == VerdictOf(R, id)
<1>1. /\ \A k \in DOMAIN base : base[k].id \in known /\ was(base[k].id) = Passed(base[k])
      /\ \A k \in DOMAIN R : R[k].id \in shows /\ is(R[k].id) = Passed(R[k])
      /\ \A id \in known : \E k \in DOMAIN base : id = base[k].id
      /\ \A id \in shows : \E k \in DOMAIN R : id = R[k].id
  BY VerdictAtPlace DEF IdsIn
<1>2. /\ d.regressions =
           {R[k].id : k \in {n \in DOMAIN R : R[n].id \in known /\ was(R[n].id) /\ ~Passed(R[n])}}
      /\ d.newFailing = {R[k].id : k \in {n \in DOMAIN R : R[n].id \notin known /\ ~Passed(R[n])}}
      /\ d.fixed =
           {R[k].id : k \in {n \in DOMAIN R : R[n].id \in known /\ ~was(R[n].id) /\ Passed(R[n])}}
      /\ d.removed = {base[k].id : k \in {n \in DOMAIN base : base[n].id \notin shows}}
  BY DEF Diff, IdsWhere
<1> HIDE DEF d, known, shows, was, is
<1>3. /\ \A id : id \in d.regressions <=> id \in shows /\ id \in known /\ was(id) /\ ~is(id)
      /\ \A id : id \in d.newFailing <=> id \in shows /\ id \notin known /\ ~is(id)
      /\ \A id : id \in d.fixed <=> id \in shows /\ id \in known /\ ~was(id) /\ is(id)
      /\ \A id : id \in d.removed <=> id \in known /\ id \notin shows
  <2>1. ASSUME NEW id
        PROVE  id \in d.regressions <=> id \in shows /\ id \in known /\ was(id) /\ ~is(id)
    BY <1>1, <1>2
  <2>2. ASSUME NEW id
        PROVE  id \in d.newFailing <=> id \in shows /\ id \notin known /\ ~is(id)
    BY <1>1, <1>2
  <2>3. ASSUME NEW id
        PROVE  id \in d.fixed <=> id \in shows /\ id \in known /\ ~was(id) /\ is(id)
    BY <1>1, <1>2
  <2>4. ASSUME NEW id
        PROVE  id \in d.removed <=> id \in known /\ id \notin shows
    BY <1>1, <1>2
  <2> QED
    BY <2>1, <2>2, <2>3, <2>4
<1>4. /\ \A id : id \in now <=> id \in shows /\ ~is(id)
      /\ \A id : id \in then <=> id \in known /\ ~was(id)
  <2>1. ASSUME NEW id
        PROVE  id \in now <=> id \in shows /\ ~is(id)
    BY <1>1 DEF IdsAt, Failing
  <2>2. ASSUME NEW id
        PROVE  id \in then <=> id \in known /\ ~was(id)
    BY <1>1 DEF IdsAt, Failing
  <2> QED
    BY <2>1, <2>2
<1>5. \A id : id \in gone <=> id \in d.removed /\ ~was(id)
  BY DEF was
<1> HIDE DEF now, then, gone
<1>6. /\ now \ then = d.regressions \cup d.newFailing
      /\ d.regressions \cap d.newFailing = {}
      /\ then \ now = d.fixed \cup gone
      /\ d.fixed \cap gone = {}
  BY <1>3, <1>4, <1>5
<1> QED
  BY <1>6 DEF d, now, then, gone

LEMMA InvGivesRefusal == ReportInv => RefusalIsShown
<1> SUFFICES ASSUME ReportInv
             PROVE  RefusalIsShown
  OBVIOUS
<1> DEFINE quiet == Terminal(shown, gates, TRUE)
           html == HtmlBody(shown, gates)
           d == Diff(other, shown)
           text == BaselineSection(d)
           Red(marks) == \E k \in DOMAIN marks : marks[k].mark = "FAIL"
           listed(word) == {l.id : l \in {n \in UNION Range(text.lines) : n.mark = word}}
           Bad == {r \in Range(shown) : ~Passed(r)}
           gone == {id \in d.removed : ~VerdictOf(other, id)}
<1>0. ListOk(shown) /\ ListOk(other)
  BY DEF ReportInv
<1>1. Bad # {} => Red(quiet.cases) /\ html.overall = "failing"
  <2>1. SUFFICES ASSUME Bad # {}
                 PROVE  Red(quiet.cases) /\ html.overall = "failing"
    OBVIOUS
  <2>2. PICK k \in DOMAIN shown : ~Passed(shown[k])
    BY <2>1 DEF Range
  <2>3. k \in Failing(shown)
    BY <2>2 DEF Failing
  <2>4. quiet.cases = [n \in Failing(shown) |-> CaseLine(shown[n])]
    BY TerminalSays
  <2>5. CaseLine(shown[k]).mark = "FAIL"
    BY <2>2 DEF CaseLine
  <2>6. Red(quiet.cases)
    BY <2>3, <2>4, <2>5
  <2>7. ~AllPassed(shown)
    BY <1>0, <2>3, FailuresCount DEF AllPassed
  <2>8. html.overall = IF AllPassed(shown) THEN "all passed" ELSE "failing"
    BY DEF HtmlBody
  <2> QED
    BY <2>6, <2>7, <2>8
<1>2. (\E k \in DOMAIN gates : ~gates[k].passed) => Red(quiet.gates) /\ Red(html.gates)
  <2>1. /\ quiet.gates = [k \in DOMAIN gates |-> GateLine(gates[k])]
        /\ html.gates = [k \in DOMAIN gates |-> GateLine(gates[k])]
    BY DEF Terminal, HtmlBody
  <2>2. \A k \in DOMAIN gates : ~gates[k].passed => GateLine(gates[k]).mark = "FAIL"
    BY DEF GateLine
  <2> HIDE DEF quiet, html
  <2> QED
    BY <2>1, <2>2
<1>3. /\ text.gate = IF DiffGateFailed(d) THEN "FAIL" ELSE "OK"
      /\ HtmlBaseline(d).gate = IF DiffGateFailed(d) THEN "FAIL" ELSE "OK"
      /\ d.was.failed = FailedIn(other) /\ d.now.failed = FailedIn(shown)
  BY DEF BaselineSection, HtmlBaseline, Diff, Headline
<1>4. /\ UNION Range(HtmlBaseline(d).groups) = UNION Range(text.lines)
      /\ listed("REGRESSED") = d.regressions /\ listed("NEW FAIL") = d.newFailing
      /\ listed("FIXED") = d.fixed /\ listed("REMOVED") = d.removed
  BY SectionSays
<1>5. text.gate = "OK" <=> \A r \in Bad : r.id \in IdsIn(other) /\ ~VerdictOf(other, r.id)
  <2>1. /\ d.regressions = {shown[k].id : k \in {n \in DOMAIN shown :
             shown[n].id \in IdsIn(other) /\ VerdictOf(other, shown[n].id) /\ ~Passed(shown[n])}}
        /\ d.newFailing = {shown[k].id : k \in {n \in DOMAIN shown :
             shown[n].id \notin IdsIn(other) /\ ~Passed(shown[n])}}
    BY DEF Diff, IdsWhere
  <2>2. DiffGateFailed(d) <=> \E k \in DOMAIN shown :
          ~Passed(shown[k]) /\ (shown[k].id \in IdsIn(other) => VerdictOf(other, shown[k].id))
    <3> HIDE DEF d
    <3> QED
      BY <2>1 DEF DiffGateFailed
  <2>3. \A r : r \in Bad <=> \E k \in DOMAIN shown : r = shown[k] /\ ~Passed(shown[k])
    BY DEF Range
  <2> HIDE DEF d, text, Bad
  <2> QED
    BY <1>3, <2>2, <2>3
<1>6. d.now.failed - d.was.failed =
        Cardinality(listed("REGRESSED")) + Cardinality(listed("NEW FAIL"))
        - Cardinality(listed("FIXED"))
        - Cardinality({id \in listed("REMOVED") : ~VerdictOf(other, id)})
  <2> DEFINE now == IdsAt(shown, Failing(shown))
             then == IdsAt(other, Failing(other))
  <2>1. /\ now \ then = d.regressions \cup d.newFailing /\ d.regressions \cap d.newFailing = {}
        /\ then \ now = d.fixed \cup gone /\ d.fixed \cap gone = {}
    BY <1>0, DiffIsDifference
  <2>2. {id \in listed("REMOVED") : ~VerdictOf(other, id)} = gone
    BY <1>4
  <2>3. /\ Cardinality(now) = FailedIn(shown) /\ Cardinality(then) = FailedIn(other)
        /\ IsFiniteSet(now) /\ IsFiniteSet(then)
    <3>1. Failing(shown) \in SUBSET DOMAIN shown /\ Failing(other) \in SUBSET DOMAIN other
      BY DEF Failing
    <3> QED
      BY <1>0, <3>1, FailuresCount, IdsCount
  <2> HIDE DEF d, now, then, gone, listed
  <2>4. /\ Cardinality(now) - Cardinality(then) = Cardinality(now \ then) - Cardinality(then \ now)
        /\ IsFiniteSet(now \ then) /\ IsFiniteSet(then \ now)
    BY <2>3, DifferenceCount
  <2>5. /\ Cardinality(now \ then) = Cardinality(d.regressions) + Cardinality(d.newFailing)
        /\ Cardinality(then \ now) = Cardinality(d.fixed) + Cardinality(gone)
    BY <2>1, <2>4, PartsCount
  <2>6. /\ Cardinality(d.regressions) \in Nat /\ Cardinality(d.newFailing) \in Nat
        /\ Cardinality(d.fixed) \in Nat /\ Cardinality(gone) \in Nat
    BY <2>1, <2>4, FS_Subset, FS_CardinalityType
  <2>7. /\ listed("REGRESSED") = d.regressions /\ listed("NEW FAIL") = d.newFailing
        /\ listed("FIXED") = d.fixed
        /\ {id \in listed("REMOVED") : ~VerdictOf(other, id)} = gone
    BY <1>4, <2>2
  <2> DEFINE was == d.was.failed
             is == d.now.failed
             regressed == Cardinality(d.regressions)
             new == Cardinality(d.newFailing)
             fixed == Cardinality(d.fixed)
             left == Cardinality(gone)
             up == Cardinality(now \ then)
             down == Cardinality(then \ now)
  <2>8. /\ is - was = up - down /\ up = regressed + new /\ down = fixed + left
        /\ regressed \in Nat /\ new \in Nat /\ fixed \in Nat /\ left \in Nat
    BY <1>3, <2>3, <2>4, <2>5, <2>6
  <2>9. is - was = regressed + new - fixed - left
    <3> HIDE DEF is, was, regressed, new, fixed, left, up, down
    <3> QED
      BY <2>8
  <2> QED
    BY <2>7, <2>9
<1>7. text.gate = HtmlBaseline(d).gate
  BY <1>3
<1> QED
  BY <1>1, <1>2, <1>4, <1>5, <1>6, <1>7 DEF RefusalIsShown

(* A refusal can be read off any report (RefusalIsShown).                  *)
THEOREM RefusalsAreTold == ReportSpec => []RefusalIsShown
<1> QED
  BY ReportStarts, ReportSteps, InvGivesRefusal, PTL DEF ReportSpec
-----------------------------------------------------------------------------
(* The composition. *)

(* Each part starts in an initial state of its own, the subject or not.    *)
LEMMA PartsStart ==
  Init => /\ CaseInit /\ SuiteInit /\ TraceInit /\ RulesInit /\ MatrixInit
          /\ ScorersInit /\ ConfigInit /\ ReportInit /\ PresentationInit /\ ViewerInit
<1> SUFFICES ASSUME Init
             PROVE  /\ CaseInit /\ SuiteInit /\ TraceInit /\ RulesInit /\ MatrixInit
                    /\ ScorersInit /\ ConfigInit /\ ReportInit /\ PresentationInit /\ ViewerInit
  OBVIOUS
<1>1. CaseInit
  BY DEF Init, CaseRests
<1>2. ConfigInit
  BY SomeAssumption DEF Init, ConfigInit, ConfigRests
<1>3. ReportInit
  BY SomeAssumption DEF Init, ReportInit, ReportRests
<1>4. PresentationInit
  <2>1. \E o \in Options : TRUE
    <3>1. PICK reporter \in Reporters, set \in Environments : TRUE
      BY SomeAssumption
    <3>2. [reporter |-> reporter, file |-> TRUE, color |-> "auto", progress |-> TRUE,
           outTty |-> TRUE, errTty |-> TRUE, env |-> set, shape |-> "single"] \in Options
      BY DEF Options
    <3> QED
      BY <3>2
  <2>2. (CHOOSE o \in Options : TRUE) \in Options
    BY <2>1
  <2> QED
    BY <2>2 DEF Init, PresentationInit, PresentationRests
<1>5. SuiteInit /\ TraceInit /\ RulesInit /\ MatrixInit /\ ScorersInit /\ ViewerInit
  BY DEF Init
<1> QED
  BY <1>1, <1>2, <1>3, <1>4, <1>5

(* Every step is a step of one part, or none, and a stutter of the rest.   *)
LEMMA PartsStep ==
  ASSUME [Next]_verdictVars
  PROVE  /\ [CaseNext]_caseVars
         /\ [SuiteNext]_results
         /\ [TraceNext]_spans
         /\ [RulesNext]_steps
         /\ [MatrixNext]_matrix
         /\ [ScorersNext]_scorerVars
         /\ [ConfigNext]_configVars
         /\ [ReportNext]_reportVars
         /\ [PresentationNext]_presentationVars
         /\ [ViewerNext]_viewerVars
<1>1. CASE UNCHANGED verdictVars
  BY <1>1 DEF verdictVars
<1>2. CASE subject = "case" /\ CaseNext /\ Rest
  BY <1>2 DEF Rest
<1>3. CASE subject = "suite" /\ SuiteNext /\ Rest
  BY <1>3 DEF Rest
<1>4. CASE subject = "trace" /\ TraceNext /\ Rest
  BY <1>4 DEF Rest
<1>5. CASE subject = "rules" /\ RulesNext /\ Rest
  BY <1>5 DEF Rest
<1>6. CASE subject = "matrix" /\ MatrixNext /\ Rest
  BY <1>6 DEF Rest
<1>7. CASE subject = "scorers" /\ ScorersNext /\ Rest
  BY <1>7 DEF Rest
<1>8. CASE subject = "config" /\ ConfigNext /\ Rest
  BY <1>8 DEF Rest
<1>9. CASE subject = "report" /\ ReportNext /\ Rest
  BY <1>9 DEF Rest
<1>10. CASE subject = "terminal" /\ PresentationNext /\ Rest
  BY <1>10 DEF Rest
<1>11. CASE subject = "viewer" /\ ViewerNext /\ Rest
  BY <1>11 DEF Rest
<1> QED
  BY <1>1, <1>2, <1>3, <1>4, <1>5, <1>6, <1>7, <1>8, <1>9, <1>10, <1>11 DEF Next

(* The parts side by side follow the specification of each of them.        *)
THEOREM PartsKeepTheirSpecs ==
  Spec => /\ CaseSpec /\ SuiteSpec /\ TraceSpec /\ RulesSpec /\ MatrixSpec
          /\ ScorersSpec /\ ConfigSpec /\ ReportSpec /\ PresentationSpec /\ ViewerSpec
<1> QED
  BY PartsStart, PartsStep, PTL
     DEF Spec, CaseSpec, SuiteSpec, TraceSpec, RulesSpec, MatrixSpec, ScorersSpec,
         ConfigSpec, ReportSpec, PresentationSpec, ViewerSpec

(* What the model checker looks for, all at once, for every value of the   *)
(* constants.                                                              *)
THEOREM EveryPartIsCorrect ==
  Spec => /\ [](VerdictFollowsPolicy /\ FailureIsTraceable /\ CostIsBilled)
          /\ []FixingHelps /\ CasesCountOnce
          /\ [](WriteOrderIrrelevant /\ LastWordIsGraded)
          /\ RulesSettle /\ NewArmGivesNoWins
          /\ [](GradesStand /\ ExactIsStrictest)
          /\ [](RecordingFits /\ RequestsAreMeant /\ FullMarksAreAccepted)
          /\ [](ReportersAgree /\ RefusalIsShown)
          /\ []StreamsKeepApart
          /\ [](ListingIsHistory /\ LinksKeepTheirWord)
<1> QED
  BY PartsKeepTheirSpecs, PolicyDecides, FailuresAreTraced, CostsAddUp, RightAnswersHelp,
     ErrorsSinkGates, AnyWriteOrder, LastWordWins, VerdictsOnCallsStand, NoWinsFromCompany,
     VerdictsAreReplayed, LaxerScorersAgree, RecordingsFit, RequestsMeanTheFile,
     FullMarksSuffice, ReportsTellTheSame, RefusalsAreTold, StreamsApart,
     ListingsAreKept, LinksAreKept, PTL
=============================================================================
