-------------------------- MODULE RecordReplayProofs --------------------------
(***************************************************************************)
(* What RecordReplay guarantees for every number of cases, of trials, of   *)
(* runs and of crashes.                                                    *)
(*                                                                         *)
(* Whatever the inputs, ShapeInv is inductive (a case that has not been    *)
(* started is idle and without trials, a case before a call has a trial    *)
(* left), and with it every step is one of RunEngine or its start: what    *)
(* RunEngineProofs proves of one run holds in every history of runs.       *)
(*                                                                         *)
(* If no two cases have the same input (with equal inputs two cases in     *)
(* flight answer for one key, and RecordReplay_same shows what then goes   *)
(* wrong), Faithful is inductive with it: the cassette holds what the      *)
(* running process has reported, a key whose live call is in flight under  *)
(* auto is still free, what the last report shows is in the cassette       *)
(* except while --cache live overwrites it, and replay has only read.      *)
(***************************************************************************)
EXTENDS RecordReplay, RunEngineProofs

DistinctInputs ==
  \A i, j \in Cases : InputOf[i] = InputOf[j] => i = j

(* A case that has not been started has no trials yet.                     *)
Fresh ==
  /\ started \in Nat
  /\ \A i \in Cases : i > started => call[i] = Idle

(* Before a call there is a trial left to make it in, and replay makes none*)
Slots ==
  \A i \in Cases :
    /\ call[i].at \in {"invoke", "live"} => Trial(i) < trials
    /\ mode = "replay" => call[i].at # "live"

ShapeInv == RTypeOK /\ Fresh /\ Slots

NotYetRecorded ==
  \A i \in Cases : mode = "auto" /\ call[i].at = "live" =>
    cassette[Key(i, Trial(i))] = Absent

LastRecorded ==
  mode # "live" /\ last # NoReport =>
    \A i \in Cases : \A t \in 1 .. MaxTrials :
      t \in DOMAIN last[i].answers /\ last[i].answers[t] \in Answers =>
        cassette[Key(i, t - 1)] = last[i].answers[t]

ReplayReads ==
  mode = "replay" =>
    \A i \in Cases : \A t \in DOMAIN call[i].answers :
      \/ call[i].answers[t] \in {cassette[Key(i, t - 1)], Failed}
      \/ cassette[Key(i, t - 1)] = Absent

Faithful ==
  /\ AnsweredIsRecorded
  /\ NotYetRecorded
  /\ LastRecorded
  /\ ReplayReads

ReplayInv == ShapeInv /\ Faithful

-----------------------------------------------------------------------------

(* A salt of a case is a key of the cassette, and of no other case or salt.*)
LEMMA KeyType ==
  ASSUME NEW i \in Cases, NEW t \in 0 .. MaxTrials - 1
  PROVE  Key(i, t) \in Keys
BY DEF Key, Keys

LEMMA KeyUnique ==
  ASSUME DistinctInputs, NEW i \in Cases, NEW j \in Cases, NEW t, NEW u,
         Key(i, t) = Key(j, u)
  PROVE  i = j /\ t = u
BY DEF DistinctInputs, Key

(* What is left of a report: its case and trial, and the answer of it.     *)
LEMMA AnswersType ==
  ASSUME RTypeOK, NEW i \in Cases
  PROVE  /\ call[i].answers \in Seq(TrialOutcomes)
         /\ Trial(i) \in 0 .. MaxTrials
         /\ DOMAIN call[i].answers = 1 .. Trial(i)
         /\ \A t \in DOMAIN call[i].answers : Key(i, t - 1) \in Keys
<1>1. /\ call[i].answers \in Seq(TrialOutcomes)
      /\ Trial(i) \in Nat /\ Trial(i) <= trials /\ trials \in 1 .. MaxTrials
      /\ DOMAIN call[i].answers = 1 .. Trial(i)
  BY DEF RTypeOK, Trial
<1>2. MaxTrials \in Nat
  BY TrialsAssumption
<1>3. \A t \in DOMAIN call[i].answers : t - 1 \in 0 .. MaxTrials - 1
  BY <1>1, <1>2
<1>. QED
  BY <1>1, <1>2, <1>3, KeyType

(* Taking an outcome appends it to the case's trials and leaves the rest.  *)
LEMMA TakeEffect ==
  ASSUME RTypeOK, NEW i \in Cases, NEW a \in TrialOutcomes, NEW at, Take(i, a, at)
  PROVE  /\ call'[i].at = at
         /\ call'[i].answers = Append(call[i].answers, a)
         /\ call'[i].answers \in Seq(TrialOutcomes)
         /\ Len(call'[i].answers) = Trial(i) + 1
         /\ DOMAIN call'[i].answers = 1 .. Trial(i) + 1
         /\ \A t \in 1 .. Trial(i) : call'[i].answers[t] = call[i].answers[t]
         /\ call'[i].answers[Trial(i) + 1] = a
         /\ \A j \in Cases \ {i} : call'[j] = call[j]
<1>1. call[i].answers \in Seq(TrialOutcomes) /\ Trial(i) = Len(call[i].answers)
  BY DEF RTypeOK, Trial
<1>2. /\ call'[i] = [at |-> at, answers |-> Append(call[i].answers, a)]
      /\ \A j \in Cases \ {i} : call'[j] = call[j]
  BY DEF RTypeOK, Take
<1>. QED
  BY <1>1, <1>2

(* What a process leaves to the next one.                                  *)
LEMMA ResetEffect ==
  ASSUME ResetEngine
  PROVE  /\ started' = 0
         /\ call' \in [Cases -> [at : {"idle", "invoke", "live", "score", "return"},
                                 answers : Seq(TrialOutcomes)]]
         /\ \A i \in Cases : call'[i] = Idle /\ DOMAIN call'[i].answers = {} /\ Trial(i)' = 0
BY DEF ResetEngine, Idle, Trial

-----------------------------------------------------------------------------
(* The shape of a case: where it can be, and with how many trials.         *)

LEMMA ShapeInit == RInit => ShapeInv
<1>. SUFFICES ASSUME RInit
              PROVE  ShapeInv
  OBVIOUS
<1>. USE DEF RInit, Init, Idle
<1>1. RTypeOK
  BY TrialsAssumption DEF RTypeOK, Trial
<1>2. Fresh /\ Slots
  BY DEF Fresh, Slots
<1>. QED
  BY <1>1, <1>2 DEF ShapeInv

LEMMA ResetShape ==
  ASSUME ShapeInv, ResetEngine, mode' \in Modes \cup {"none"}, trials' \in 1 .. MaxTrials,
         runs' \in Nat, crashes' \in Nat, UNCHANGED cassette
  PROVE  ShapeInv'
<1>. USE DEF ShapeInv
<1>1. RTypeOK'
  <2>1. trials' \in Nat
    BY TrialsAssumption
  <2>. QED
    BY <2>1, ResetEffect DEF RTypeOK
<1>2. (Fresh /\ Slots)'
  BY ResetEffect DEF Fresh, Slots, Idle
<1>. QED
  BY <1>1, <1>2

(* A step that only moves case i.                                          *)
LEMMA MoveShape ==
  ASSUME ShapeInv, NEW i \in Cases, NEW at \in {"idle", "invoke", "live", "score", "return"},
         at \in {"invoke", "live"} => Trial(i) < trials,
         mode = "replay" => at # "live",
         call' = [call EXCEPT ![i].at = at], started' \in Nat,
         \A j \in Cases : j > started' => j > started /\ j # i,
         UNCHANGED <<cassette, mode, trials, runs, crashes>>
  PROVE  ShapeInv'
<1>. USE DEF ShapeInv
<1>1. /\ call'[i].at = at /\ call'[i].answers = call[i].answers
      /\ \A j \in Cases \ {i} : call'[j] = call[j]
  BY DEF RTypeOK
<1>2. \A j \in Cases : call'[j].answers = call[j].answers /\ Trial(j)' = Trial(j)
  BY <1>1 DEF Trial
<1>3. RTypeOK'
  <2>1. call' \in [Cases -> [at : {"idle", "invoke", "live", "score", "return"},
                             answers : Seq(TrialOutcomes)]]
    BY DEF RTypeOK
  <2>. QED
    BY <1>2, <2>1 DEF RTypeOK
<1>4. Fresh' /\ Slots'
  BY <1>1, <1>2 DEF Fresh, Slots
<1>. QED
  BY <1>3, <1>4

(* A step in which a trial of case i ends in `a`.                          *)
LEMMA TakeShape ==
  ASSUME ShapeInv, NEW i \in Cases, NEW a \in TrialOutcomes,
         NEW at \in {"invoke", "score", "return"},
         Take(i, a, at), Trial(i) < trials, call[i].at # "idle",
         at = "invoke" => Trial(i) + 1 < trials,
         cassette' \in [Keys -> Answers \cup {Absent}],
         UNCHANGED <<started, mode, trials, runs, crashes>>
  PROVE  ShapeInv'
<1>. USE DEF ShapeInv
<1>1. /\ call'[i].at = at
      /\ Trial(i)' = Trial(i) + 1
      /\ call'[i].answers \in Seq(TrialOutcomes)
      /\ \A j \in Cases \ {i} : call'[j] = call[j]
  BY TakeEffect DEF Trial
<1>2. Trial(i) \in 0 .. MaxTrials /\ trials \in 1 .. MaxTrials /\ MaxTrials \in Nat
  BY AnswersType, TrialsAssumption DEF RTypeOK
<1>3. RTypeOK'
  <2>1. call' \in [Cases -> [at : {"idle", "invoke", "live", "score", "return"},
                             answers : Seq(TrialOutcomes)]]
    BY <1>1 DEF RTypeOK, Take
  <2>2. Trial(i)' <= trials'
    BY <1>1, <1>2
  <2>3. \A j \in Cases \ {i} : Trial(j)' <= trials'
    BY <1>1 DEF RTypeOK, Trial
  <2>. QED
    BY <2>1, <2>2, <2>3 DEF RTypeOK
<1>4. Fresh'
  <2>1. ~(i > started)
    BY DEF Fresh, Idle
  <2>. QED
    BY <1>1, <2>1 DEF Fresh
<1>5. Slots'
  BY <1>1 DEF Slots, Trial
<1>. QED
  BY <1>3, <1>4, <1>5

(* A step that moves no case.                                              *)
LEMMA StayShape ==
  ASSUME ShapeInv, started' \in Nat, \A j \in Cases : j > started' => j > started,
         UNCHANGED <<cassette, mode, trials, call, runs, crashes>>
  PROVE  ShapeInv'
BY DEF ShapeInv, RTypeOK, Fresh, Slots, Trial

(* The trial a case goes on with, when one has ended.                      *)
LEMMA AfterTrialType ==
  ASSUME ShapeInv, NEW i \in Cases, NEW n \in {Trial(i), Trial(i) + 1}, n <= trials
  PROVE  /\ AfterTrial(n) \in {"invoke", "return"}
         /\ AfterTrial(n) = "invoke" => n < trials
<1>1. Trial(i) \in 0 .. MaxTrials /\ trials \in 1 .. MaxTrials /\ MaxTrials \in Nat
  BY AnswersType, TrialsAssumption DEF ShapeInv, RTypeOK
<1>. QED
  BY <1>1 DEF AfterTrial

(* Where each action of a case finds it.                                   *)
LEMMA Whereabouts ==
  ASSUME ShapeInv, NEW i \in Cases
  PROVE  /\ started \in Nat
         /\ call[i].at # "idle" => i <= started
         /\ i > started => Trial(i) = 0 /\ Trial(i) < trials
         /\ Trial(i) \in Nat /\ Trial(i) <= trials /\ trials \in Nat
<1>1. /\ started \in Nat /\ trials \in 1 .. MaxTrials /\ MaxTrials \in Nat
      /\ Trial(i) \in Nat /\ Trial(i) <= trials
  BY AnswersType, TrialsAssumption DEF ShapeInv, Fresh, RTypeOK
<1>2. i > started => call[i].at = "idle" /\ Trial(i) = 0
  BY DEF ShapeInv, Fresh, Idle, Trial
<1>3. i \in Nat
  BY NumCasesAssumption DEF Cases
<1>. QED
  BY <1>1, <1>2, <1>3

LEMMA InvokeShape ==
  ASSUME ShapeInv, NEW i \in Cases, Invoke(i)
  PROVE  ShapeInv'
<1> DEFINE hit == Lookup(Key(i, Trial(i)))
<1>1. /\ call[i].at = "invoke" /\ Trial(i) < trials /\ i <= started /\ started \in Nat
      /\ Trial(i) \in Nat /\ trials \in Nat
      /\ cassette \in [Keys -> Answers \cup {Absent}]
      /\ UNCHANGED <<started, cassette, mode, trials, last, runs, crashes>>
  BY Whereabouts DEF Invoke, engineVars, ShapeInv, Slots, RTypeOK
<1>2. Key(i, Trial(i)) \in Keys
  <2>1. Trial(i) \in 0 .. MaxTrials /\ trials \in 1 .. MaxTrials /\ MaxTrials \in Nat
    BY AnswersType, TrialsAssumption DEF ShapeInv, RTypeOK
  <2>. QED
    BY <1>1, <2>1, KeyType
<1>3. CASE hit # Absent /\ Take(i, hit, "score")
  <2>1. hit \in TrialOutcomes
    BY <1>1, <1>2, <1>3 DEF Lookup, TrialOutcomes
  <2>. QED
    BY <1>1, <1>3, <2>1, TakeShape
<1>4. CASE mode = "replay" /\ Take(i, Missed, AfterTrial(Trial(i) + 1))
  <2>1. Trial(i) + 1 <= trials
    BY <1>1
  <2>2. /\ AfterTrial(Trial(i) + 1) \in {"invoke", "return"}
        /\ AfterTrial(Trial(i) + 1) = "invoke" => Trial(i) + 1 < trials
    BY <2>1, AfterTrialType
  <2>. QED
    BY <1>1, <1>4, <2>2, TakeShape DEF TrialOutcomes
<1>5. CASE mode # "replay" /\ call' = [call EXCEPT ![i].at = "live"]
  <2>1. started' \in Nat /\ \A j \in Cases : j > started' => j > started /\ j # i
    BY <1>1, NumCasesAssumption DEF Cases
  <2>. QED
    BY <1>1, <1>5, <2>1, MoveShape
<1>6. CASE Take(i, Failed, AfterTrial(Trial(i) + 1))
  <2>1. Trial(i) + 1 <= trials
    BY <1>1
  <2>2. /\ AfterTrial(Trial(i) + 1) \in {"invoke", "return"}
        /\ AfterTrial(Trial(i) + 1) = "invoke" => Trial(i) + 1 < trials
    BY <2>1, AfterTrialType
  <2>. QED
    BY <1>1, <1>6, <2>2, TakeShape DEF TrialOutcomes
<1>. QED
  BY <1>3, <1>4, <1>5, <1>6 DEF Invoke

LEMMA AnswerShape ==
  ASSUME ShapeInv, NEW i \in Cases, NEW a \in Answers, Answer(i, a)
  PROVE  ShapeInv'
<1>1. /\ call[i].at = "live" /\ Trial(i) < trials /\ Take(i, a, "score")
      /\ cassette' \in [Keys -> Answers \cup {Absent}]
      /\ UNCHANGED <<started, mode, trials, runs, crashes>>
  BY DEF Answer, Put, engineVars, ShapeInv, Slots, RTypeOK
<1>. QED
  BY <1>1, TakeShape DEF TrialOutcomes

LEMMA LiveErrorShape ==
  ASSUME ShapeInv, NEW i \in Cases, LiveError(i)
  PROVE  ShapeInv'
<1>1. /\ call[i].at = "live" /\ Trial(i) < trials /\ Trial(i) \in Nat /\ trials \in Nat
      /\ Take(i, Failed, AfterTrial(Trial(i) + 1))
      /\ cassette' \in [Keys -> Answers \cup {Absent}]
      /\ UNCHANGED <<started, mode, trials, runs, crashes>>
  BY Whereabouts DEF LiveError, engineVars, ShapeInv, Slots, RTypeOK
<1>2. Trial(i) + 1 <= trials
  BY <1>1
<1>3. /\ AfterTrial(Trial(i) + 1) \in {"invoke", "return"}
      /\ AfterTrial(Trial(i) + 1) = "invoke" => Trial(i) + 1 < trials
  BY <1>2, AfterTrialType
<1>. QED
  BY <1>1, <1>3, TakeShape DEF TrialOutcomes

(* A step that moves a case that was started before.                       *)
LEMMA MovesOn ==
  ASSUME ShapeInv, NEW i \in Cases, call[i].at # "idle", started' = started
  PROVE  started' \in Nat /\ \A j \in Cases : j > started' => j > started /\ j # i
<1>1. started \in Nat /\ i <= started /\ \A j \in Cases : j \in Nat
  BY Whereabouts, NumCasesAssumption DEF Cases
<1>. QED
  BY <1>1

(* A step that moves the case that was started next.                       *)
LEMMA MovesIn ==
  ASSUME ShapeInv, NEW i \in Cases, i = started + 1, started' = i
  PROVE  /\ started' \in Nat /\ \A j \in Cases : j > started' => j > started /\ j # i
         /\ Trial(i) < trials
<1>1. started \in Nat /\ (i > started => Trial(i) < trials) /\ \A j \in Cases : j \in Nat
  BY Whereabouts, NumCasesAssumption DEF Cases
<1>. QED
  BY <1>1

LEMMA ShapeStep ==
  ASSUME ShapeInv, [RNext]_allVars
  PROVE  ShapeInv'
<1>1. ASSUME NEW m \in Modes, NEW n \in 1 .. MaxTrials, NewRun(m, n)
      PROVE  ShapeInv'
  BY <1>1, ResetShape DEF NewRun, ShapeInv, RTypeOK
<1>2. CASE EndRun \/ Crash
  BY <1>2, ResetShape, TrialsAssumption DEF EndRun, Crash, ShapeInv, RTypeOK
<1>3. ASSUME NEW i \in Cases, BeginCase(i)
      PROVE  ShapeInv'
  <2>1. i = started + 1 /\ started' = i /\ call' = [call EXCEPT ![i].at = "invoke"]
        /\ UNCHANGED <<cassette, mode, trials, runs, crashes>>
    BY <1>3 DEF BeginCase, Dispatch, NextInWindow
  <2>. QED
    BY <2>1, MovesIn, MoveShape
<1>4. ASSUME NEW i \in Cases, SkipCase(i)
      PROVE  ShapeInv'
  <2>1. i = started + 1 /\ started' = i
        /\ UNCHANGED <<cassette, mode, trials, call, runs, crashes>>
    BY <1>4 DEF SkipCase, Skip, NextInWindow
  <2>. QED
    BY <2>1, MovesIn, StayShape
<1>5. ASSUME NEW i \in Cases, Scored(i)
      PROVE  ShapeInv'
  <2>1. /\ call[i].at = "score" /\ call' = [call EXCEPT ![i].at = AfterTrial(Trial(i))]
        /\ UNCHANGED <<started, cassette, mode, trials, runs, crashes>>
    BY <1>5 DEF Scored, engineVars
  <2>2. /\ AfterTrial(Trial(i)) \in {"invoke", "return"}
        /\ AfterTrial(Trial(i)) = "invoke" => Trial(i) < trials
    BY Whereabouts, AfterTrialType
  <2>. QED
    BY <2>1, <2>2, MovesOn, MoveShape
<1>6. ASSUME NEW i \in Cases, FinishCase(i)
      PROVE  ShapeInv'
  <2>1. /\ call[i].at = "return" /\ call' = [call EXCEPT ![i].at = "idle"]
        /\ UNCHANGED <<started, cassette, mode, trials, runs, crashes>>
    BY <1>6 DEF FinishCase, Finish
  <2>. QED
    BY <2>1, MovesOn, MoveShape
<1>7. CASE YieldResult \/ AllRunsDone \/ UNCHANGED allVars
  <2>1. UNCHANGED <<started, cassette, mode, trials, call, runs, crashes>>
    BY <1>7 DEF YieldResult, Yield, AllRunsDone, allVars, engineVars
  <2>. QED
    BY <2>1, StayShape DEF ShapeInv, Fresh
<1>. QED
  BY <1>1, <1>2, <1>3, <1>4, <1>5, <1>6, <1>7, InvokeShape, AnswerShape, LiveErrorShape
     DEF RNext, Step

(* What this module adds to the engine keeps its types, whatever the       *)
(* inputs (RTypeOK).                                                       *)
THEOREM ReplayTypeCorrect == RSpec => []RTypeOK
<1>1. ShapeInv /\ [RNext]_allVars => ShapeInv'
  BY ShapeStep
<1>2. ShapeInv => RTypeOK
  BY DEF ShapeInv
<1>. QED
  BY <1>1, <1>2, ShapeInit, PTL DEF RSpec

-----------------------------------------------------------------------------
(* The processes: a run begins, ends, or is killed.                        *)

LEMMA ReplayInit == RInit => ReplayInv
<1>. SUFFICES ASSUME RInit
              PROVE  ReplayInv
  OBVIOUS
<1>1. \A i \in Cases : call[i] = Idle /\ DOMAIN call[i].answers = {}
  BY DEF RInit, Idle
<1>2. Faithful
  BY <1>1 DEF RInit, Idle, Faithful, AnsweredIsRecorded, NotYetRecorded, LastRecorded, ReplayReads
<1>. QED
  BY <1>2, ShapeInit DEF ReplayInv

LEMMA NewRunKeeps ==
  ASSUME ReplayInv, NEW m \in Modes, NEW n \in 1 .. MaxTrials, NewRun(m, n)
  PROVE  Faithful'
<1>. USE DEF NewRun, ReplayInv, Faithful
<1>1. (AnsweredIsRecorded /\ NotYetRecorded /\ ReplayReads)'
  BY ResetEffect DEF AnsweredIsRecorded, NotYetRecorded, ReplayReads, Idle
<1>2. LastRecorded'
  BY ModesAssumption DEF LastRecorded, Key
<1>. QED
  BY <1>1, <1>2

LEMMA EndRunKeeps ==
  ASSUME ReplayInv, EndRun
  PROVE  Faithful'
<1>. USE DEF EndRun, ReplayInv, Faithful
<1>1. (AnsweredIsRecorded /\ NotYetRecorded /\ ReplayReads)'
  BY ResetEffect DEF AnsweredIsRecorded, NotYetRecorded, ReplayReads, Idle
<1>2. LastRecorded'
  BY DEF AnsweredIsRecorded, LastRecorded, Key
<1>. QED
  BY <1>1, <1>2

LEMMA CrashKeeps ==
  ASSUME ReplayInv, Crash
  PROVE  Faithful'
<1>. USE DEF Crash, ReplayInv, Faithful
<1>1. (AnsweredIsRecorded /\ NotYetRecorded /\ ReplayReads)'
  BY ResetEffect DEF AnsweredIsRecorded, NotYetRecorded, ReplayReads, Idle
<1>2. LastRecorded'
  BY DEF LastRecorded, Key
<1>. QED
  BY <1>1, <1>2

-----------------------------------------------------------------------------
(* The cases of a run. *)

(* A step that takes no outcome and starts no live call.                   *)
LEMMA MoveKeeps ==
  ASSUME ReplayInv, NEW i \in Cases, NEW at \in {"idle", "invoke", "score", "return"},
         call' = [call EXCEPT ![i].at = at] \/ UNCHANGED call,
         UNCHANGED <<cassette, mode, last>>
  PROVE  Faithful'
<1>. USE DEF ReplayInv, ShapeInv, Faithful
<1>1. \A j \in Cases : call'[j].answers = call[j].answers
                      /\ (call'[j].at = "live" => call[j].at = "live")
  BY DEF RTypeOK
<1>2. \A j \in Cases : Trial(j)' = Trial(j)
  BY <1>1 DEF Trial
<1>3. AnsweredIsRecorded' /\ ReplayReads' /\ LastRecorded'
  BY <1>1 DEF AnsweredIsRecorded, ReplayReads, LastRecorded, Key
<1>4. NotYetRecorded'
  BY <1>1, <1>2 DEF NotYetRecorded, Key
<1>. QED
  BY <1>3, <1>4

-----------------------------------------------------------------------------
(* Outcomes of trials. *)

(* A trial that ends in `a` and leaves the cassette alone keeps Faithful,  *)
(* if `a` is no answer, or the answer that the cassette has.               *)
LEMMA TakeKeeps ==
  ASSUME ReplayInv, NEW i \in Cases, NEW a \in TrialOutcomes,
         NEW at \in {"invoke", "score", "return"}, Take(i, a, at),
         a \in Answers => cassette[Key(i, Trial(i))] = a,
         mode = "replay" => a \in {cassette[Key(i, Trial(i))], Failed}
                            \/ cassette[Key(i, Trial(i))] = Absent,
         UNCHANGED <<cassette, mode, last>>
  PROVE  Faithful'
<1>. USE DEF ReplayInv, ShapeInv, Faithful
<1>1. /\ call'[i].at = at
      /\ Trial(i)' = Trial(i) + 1
      /\ DOMAIN call'[i].answers = 1 .. Trial(i) + 1
      /\ \A t \in 1 .. Trial(i) : call'[i].answers[t] = call[i].answers[t]
      /\ call'[i].answers[Trial(i) + 1] = a
      /\ \A j \in Cases \ {i} : call'[j] = call[j]
  BY TakeEffect DEF Trial
<1>2. /\ Trial(i) \in 0 .. MaxTrials
      /\ DOMAIN call[i].answers = 1 .. Trial(i) /\ MaxTrials \in Nat
  BY AnswersType, TrialsAssumption
<1>3. NotYetRecorded' /\ LastRecorded'
  BY <1>1 DEF NotYetRecorded, LastRecorded, Trial, Key
<1>4. \A j \in Cases : \A t \in DOMAIN call'[j].answers :
        \/ t \in DOMAIN call[j].answers /\ call'[j].answers[t] = call[j].answers[t]
        \/ j = i /\ t - 1 = Trial(i) /\ call'[j].answers[t] = a
  <2>. SUFFICES ASSUME NEW j \in Cases, NEW t \in DOMAIN call'[j].answers
                PROVE  \/ t \in DOMAIN call[j].answers /\ call'[j].answers[t] = call[j].answers[t]
                       \/ j = i /\ t - 1 = Trial(i) /\ call'[j].answers[t] = a
    OBVIOUS
  <2>1. CASE j # i
    BY <1>1, <2>1
  <2>2. CASE j = i
    <3>1. t \in 1 .. Trial(i) + 1
      BY <1>1, <2>2
    <3>2. CASE t \in 1 .. Trial(i)
      BY <1>1, <1>2, <2>2, <3>2
    <3>3. CASE t = Trial(i) + 1
      BY <1>1, <1>2, <2>2, <3>3
    <3>. QED
      BY <1>2, <3>1, <3>2, <3>3
  <2>. QED
    BY <2>1, <2>2
<1>5. AnsweredIsRecorded'
  <2>. SUFFICES ASSUME NEW j \in Cases, NEW t \in DOMAIN call'[j].answers,
                       call'[j].answers[t] \in Answers
                PROVE  cassette[Key(j, t - 1)] = call'[j].answers[t]
    BY DEF AnsweredIsRecorded, Key
  <2>. QED
    BY <1>4 DEF AnsweredIsRecorded
<1>6. ReplayReads'
  <2>. SUFFICES ASSUME mode = "replay", NEW j \in Cases, NEW t \in DOMAIN call'[j].answers
                PROVE  \/ call'[j].answers[t] \in {cassette[Key(j, t - 1)], Failed}
                       \/ cassette[Key(j, t - 1)] = Absent
    BY DEF ReplayReads, Key
  <2>. QED
    BY <1>4 DEF ReplayReads
<1>. QED
  BY <1>3, <1>5, <1>6

LEMMA InvokeKeeps ==
  ASSUME ReplayInv, NEW i \in Cases, Invoke(i)
  PROVE  Faithful'
<1> DEFINE hit == Lookup(Key(i, Trial(i)))
           k == Key(i, Trial(i))
<1>1. /\ call[i].at = "invoke" /\ Trial(i) < trials /\ Trial(i) \in Nat /\ trials \in Nat
      /\ UNCHANGED <<started, cassette, mode, trials, last, runs, crashes>>
  BY Whereabouts DEF Invoke, engineVars, ReplayInv, ShapeInv, Slots
<1>2. k \in Keys
  <2>1. Trial(i) \in 0 .. MaxTrials /\ trials \in 1 .. MaxTrials /\ MaxTrials \in Nat
    BY AnswersType, TrialsAssumption DEF ReplayInv, ShapeInv, RTypeOK
  <2>. QED
    BY <1>1, <2>1, KeyType
<1>3. CASE hit # Absent /\ Take(i, hit, "score")
  <2>1. hit = cassette[k] /\ hit \in Answers
    BY <1>2, <1>3 DEF Lookup, ReplayInv, ShapeInv, RTypeOK
  <2>. QED
    BY <1>1, <1>3, <2>1, TakeKeeps DEF TrialOutcomes
<1>4. CASE hit = Absent /\ mode = "replay" /\ Take(i, Missed, AfterTrial(Trial(i) + 1))
  <2>1. cassette[k] = Absent
    BY <1>4 DEF Lookup
  <2>2. AfterTrial(Trial(i) + 1) \in {"invoke", "score", "return"} /\ Missed \in TrialOutcomes
    BY DEF AfterTrial, TrialOutcomes
  <2>. QED
    BY <1>1, <1>4, <2>1, <2>2, TakeKeeps, AnswersAssumption
<1>5. CASE hit = Absent /\ mode # "replay" /\ call' = [call EXCEPT ![i].at = "live"]
  <2>. USE DEF ReplayInv, ShapeInv, Faithful
  <2>1. /\ call'[i].at = "live" /\ call'[i].answers = call[i].answers
        /\ \A j \in Cases \ {i} : call'[j] = call[j]
    BY <1>5 DEF RTypeOK
  <2>2. \A j \in Cases : call'[j].answers = call[j].answers /\ Trial(j)' = Trial(j)
    BY <2>1 DEF Trial
  <2>3. AnsweredIsRecorded' /\ ReplayReads' /\ LastRecorded'
    BY <1>1, <2>1, <2>2 DEF AnsweredIsRecorded, ReplayReads, LastRecorded, Key
  <2>4. mode = "auto" => cassette[k] = Absent
    BY <1>5 DEF Lookup
  <2>5. NotYetRecorded'
    BY <1>1, <2>1, <2>2, <2>4 DEF NotYetRecorded, Key
  <2>. QED
    BY <2>3, <2>5
<1>6. CASE Take(i, Failed, AfterTrial(Trial(i) + 1))
  <2>1. AfterTrial(Trial(i) + 1) \in {"invoke", "score", "return"} /\ Failed \in TrialOutcomes
    BY DEF AfterTrial, TrialOutcomes
  <2>. QED
    BY <1>1, <1>6, <2>1, TakeKeeps, AnswersAssumption
<1>. QED
  BY <1>3, <1>4, <1>5, <1>6 DEF Invoke

LEMMA LiveErrorKeeps ==
  ASSUME ReplayInv, NEW i \in Cases, LiveError(i)
  PROVE  Faithful'
<1>1. /\ mode # "replay" /\ Take(i, Failed, AfterTrial(Trial(i) + 1))
      /\ UNCHANGED <<cassette, mode, last>>
  BY DEF LiveError, ReplayInv, ShapeInv, Slots
<1>2. AfterTrial(Trial(i) + 1) \in {"invoke", "score", "return"} /\ Failed \in TrialOutcomes
  BY DEF AfterTrial, TrialOutcomes
<1>. QED
  BY <1>1, <1>2, TakeKeeps, AnswersAssumption

(* A live answer replaces the entry of its own key, which under auto is    *)
(* free; with distinct inputs no other trial is told by that key.          *)
LEMMA AnswerKeeps ==
  ASSUME DistinctInputs, ReplayInv, NEW i \in Cases, NEW a \in Answers, Answer(i, a)
  PROVE  Faithful'
<1>. USE DEF ReplayInv, ShapeInv, Faithful
<1>1. /\ call[i].at = "live" /\ Trial(i) < trials /\ mode \notin {"replay", "none"}
      /\ Take(i, a, "score")
      /\ cassette' = [cassette EXCEPT ![Key(i, Trial(i))] = a]
      /\ UNCHANGED <<started, mode, trials, last, runs, crashes>>
  BY DEF Answer, Awaiting, Put, engineVars, Slots
<1>2. /\ call'[i].at = "score"
      /\ Trial(i)' = Trial(i) + 1
      /\ call'[i].answers \in Seq(TrialOutcomes)
      /\ DOMAIN call'[i].answers = 1 .. Trial(i) + 1
      /\ \A t \in 1 .. Trial(i) : call'[i].answers[t] = call[i].answers[t]
      /\ call'[i].answers[Trial(i) + 1] = a
      /\ \A j \in Cases \ {i} : call'[j] = call[j]
  BY <1>1, TakeEffect DEF Trial, TrialOutcomes
<1>3. /\ Trial(i) \in 0 .. MaxTrials /\ trials \in 1 .. MaxTrials /\ MaxTrials \in Nat
      /\ \A j \in Cases : DOMAIN call[j].answers = 1 .. Trial(j) /\ Trial(j) \in 0 .. MaxTrials
      /\ \A j \in Cases : \A t \in DOMAIN call[j].answers : Key(j, t - 1) \in Keys
  BY AnswersType, TrialsAssumption DEF RTypeOK
<1>4. Key(i, Trial(i)) \in Keys
  BY <1>1, <1>3, KeyType
<1>5. /\ cassette'[Key(i, Trial(i))] = a
      /\ \A k \in Keys : k # Key(i, Trial(i)) => cassette'[k] = cassette[k]
  BY <1>1, <1>4 DEF RTypeOK
<1>6. AnsweredIsRecorded'
  <2>. SUFFICES ASSUME NEW j \in Cases, NEW t \in DOMAIN call'[j].answers,
                       call'[j].answers[t] \in Answers
                PROVE  cassette'[Key(j, t - 1)] = call'[j].answers[t]
    BY DEF AnsweredIsRecorded, Key
  <2>1. CASE j # i
    <3>1. Key(j, t - 1) \in Keys
      BY <1>2, <1>3, <2>1
    <3>2. Key(j, t - 1) # Key(i, Trial(i))
      BY <2>1, KeyUnique
    <3>. QED
      BY <1>2, <1>5, <2>1, <3>1, <3>2 DEF AnsweredIsRecorded
  <2>2. CASE j = i /\ t \in 1 .. Trial(i)
    <3>1. t - 1 # Trial(i)
      BY <1>3, <2>2
    <3>2. Key(i, t - 1) \in Keys /\ Key(i, t - 1) # Key(i, Trial(i))
      BY <1>3, <2>2, <3>1, KeyUnique
    <3>. QED
      BY <1>2, <1>3, <1>5, <2>2, <3>2 DEF AnsweredIsRecorded
  <2>3. CASE j = i /\ t = Trial(i) + 1
    BY <1>2, <1>3, <1>5, <2>3
  <2>. QED
    BY <1>2, <1>3, <2>1, <2>2, <2>3
<1>7. NotYetRecorded'
  <2>. SUFFICES ASSUME NEW j \in Cases, mode = "auto", call'[j].at = "live"
                PROVE  cassette'[Key(j, Trial(j))] = Absent /\ Trial(j)' = Trial(j)
    BY <1>1 DEF NotYetRecorded, Key
  <2>1. j # i /\ Trial(j)' = Trial(j) /\ call[j].at = "live"
    BY <1>2 DEF Trial
  <2>2. Trial(j) \in 0 .. MaxTrials - 1
    BY <1>1, <1>3, <2>1 DEF Slots
  <2>3. Key(j, Trial(j)) \in Keys /\ Key(j, Trial(j)) # Key(i, Trial(i))
    BY <2>1, <2>2, KeyType, KeyUnique
  <2>. QED
    BY <1>5, <2>1, <2>3 DEF NotYetRecorded
<1>8. LastRecorded'
  <2>. SUFFICES ASSUME mode # "live", last # NoReport, NEW j \in Cases,
                       NEW t \in 1 .. MaxTrials,
                       t \in DOMAIN last[j].answers, last[j].answers[t] \in Answers
                PROVE  cassette'[Key(j, t - 1)] = last[j].answers[t]
    BY <1>1 DEF LastRecorded, Key
  <2>1. cassette[Key(j, t - 1)] = last[j].answers[t]
    BY DEF LastRecorded
  <2>2. cassette[Key(i, Trial(i))] = Absent
    BY <1>1, ModesAssumption DEF NotYetRecorded, RTypeOK, Slots
  <2>3. Key(j, t - 1) \in Keys
    BY <1>3, KeyType
  <2>4. Key(j, t - 1) # Key(i, Trial(i))
    BY <2>1, <2>2, AnswersAssumption
  <2>. QED
    BY <1>5, <2>1, <2>3, <2>4
<1>9. ReplayReads'
  BY <1>1 DEF ReplayReads
<1>. QED
  BY <1>6, <1>7, <1>8, <1>9

-----------------------------------------------------------------------------

LEMMA ReplayStep ==
  ASSUME DistinctInputs, ReplayInv, [RNext]_allVars
  PROVE  ReplayInv'
<1>1. ShapeInv'
  BY ShapeStep DEF ReplayInv
<1>2. ASSUME NEW m \in Modes, NEW n \in 1 .. MaxTrials, NewRun(m, n)
      PROVE  Faithful'
  BY <1>2, NewRunKeeps
<1>3. ASSUME NEW i \in Cases, BeginCase(i) \/ SkipCase(i) \/ Scored(i) \/ FinishCase(i)
      PROVE  Faithful'
  <2>1. \E at \in {"idle", "invoke", "score", "return"} :
          call' = [call EXCEPT ![i].at = at] \/ UNCHANGED call
    BY <1>3 DEF BeginCase, SkipCase, Scored, FinishCase, AfterTrial
  <2>2. UNCHANGED <<cassette, mode, last>>
    BY <1>3 DEF BeginCase, SkipCase, Scored, FinishCase
  <2>. QED
    BY <2>1, <2>2, MoveKeeps
<1>4. ASSUME NEW i \in Cases, Step(i), ~Scored(i), ~FinishCase(i)
      PROVE  Faithful'
  BY <1>4, InvokeKeeps, AnswerKeeps, LiveErrorKeeps DEF Step
<1>5. ASSUME YieldResult \/ AllRunsDone \/ UNCHANGED allVars
      PROVE  Faithful'
  <2>1. UNCHANGED <<cassette, mode, call, last>>
    BY <1>5 DEF YieldResult, AllRunsDone, allVars
  <2>2. 1 \in Cases
    BY NumCasesAssumption DEF Cases
  <2>. QED
    BY <2>1, <2>2, MoveKeeps
<1>6. ASSUME NEW i \in Cases, BeginCase(i) \/ SkipCase(i) \/ Step(i)
      PROVE  Faithful'
  BY <1>3, <1>4, <1>6
<1>7. ASSUME EndRun \/ Crash
      PROVE  Faithful'
  BY <1>7, EndRunKeeps, CrashKeeps
<1>8. Faithful'
  BY <1>2, <1>5, <1>6, <1>7 DEF RNext
<1>. QED
  BY <1>1, <1>8 DEF ReplayInv

(* ReplayInv holds in every history of runs.                               *)
THEOREM ReplayInvariant ==
  ASSUME DistinctInputs
  PROVE  RSpec => []ReplayInv
<1>1. ReplayInv /\ [RNext]_allVars => ReplayInv'
  BY ReplayStep
<1>. QED
  BY <1>1, ReplayInit, PTL DEF RSpec

(* No answer that a run has paid for is lost with its process              *)
(* (AnsweredIsRecorded).                                                   *)
THEOREM AnswersAreRecorded ==
  ASSUME DistinctInputs
  PROVE  RSpec => []AnsweredIsRecorded
<1>1. ReplayInv => AnsweredIsRecorded
  BY DEF ReplayInv, Faithful
<1>. QED
  BY <1>1, ReplayInvariant, PTL

(* A replay run answers every trial as the last completed run did, unless  *)
(* its lookup fails, however both were interleaved and whatever was killed *)
(* in between (ReplayReproduces).                                          *)
THEOREM ReplayIsFaithful ==
  ASSUME DistinctInputs
  PROVE  RSpec => []ReplayReproduces
<1>1. ReplayInv => ReplayReproduces
  <2>. SUFFICES ASSUME ReplayInv, mode = "replay", last # NoReport, NEW i \in Cases,
                       NEW t \in DOMAIN call[i].answers \cap DOMAIN last[i].answers,
                       last[i].answers[t] \in Answers
                PROVE  call[i].answers[t] \in {last[i].answers[t], Failed}
    BY DEF ReplayReproduces
  <2>1. t \in 1 .. MaxTrials
    BY AnswersType, TrialsAssumption DEF ReplayInv, ShapeInv
  <2>2. cassette[Key(i, t - 1)] = last[i].answers[t]
    BY <2>1 DEF ReplayInv, Faithful, LastRecorded
  <2>. QED
    BY <2>2, AnswersAssumption DEF ReplayInv, Faithful, ReplayReads
<1>. QED
  BY <1>1, ReplayInvariant, PTL

(* Under auto no entry of the cassette is ever paid for again              *)
(* (RecordedOnce).                                                         *)
THEOREM RecordedOnlyOnce ==
  ASSUME DistinctInputs
  PROVE  RSpec => RecordedOnce
<1>1. ReplayInv /\ [RNext]_allVars =>
        [\A k \in Keys : mode = "auto" /\ cassette[k] # Absent =>
           cassette'[k] = cassette[k]]_allVars
  <2>. SUFFICES ASSUME ReplayInv, RNext, mode = "auto",
                       NEW k \in Keys, cassette[k] # Absent
                PROVE  cassette'[k] = cassette[k]
    OBVIOUS
  <2>1. ASSUME NEW i \in Cases, NEW a \in Answers, Answer(i, a)
        PROVE  cassette'[k] = cassette[k]
    <3>1. call[i].at = "live" /\ cassette' = [cassette EXCEPT ![Key(i, Trial(i))] = a]
      BY <2>1 DEF Answer, Put
    <3>2. cassette[Key(i, Trial(i))] = Absent
      BY <3>1 DEF ReplayInv, Faithful, NotYetRecorded
    <3>. QED
      BY <3>1, <3>2 DEF ReplayInv, ShapeInv, RTypeOK
  <2>2. CASE UNCHANGED cassette
    BY <2>2
  <2>3. UNCHANGED cassette \/ \E i \in Cases, a \in Answers : Answer(i, a)
    BY DEF RNext, NewRun, BeginCase, SkipCase, Step, Invoke, LiveError, Scored,
           FinishCase, YieldResult, EndRun, Crash, AllRunsDone, allVars
  <2>. QED
    BY <2>1, <2>2, <2>3
<1>. QED
  BY <1>1, ReplayInvariant, PTL DEF RecordedOnce, RSpec

-----------------------------------------------------------------------------
(* The engine of every run. *)

(* What a case has cost is within the bound that the engine is given.      *)
LEMMA CallCostType ==
  ASSUME ShapeInv, NEW i \in Cases
  PROVE  CallCost(i) \in 0 .. MaxCost
<1> DEFINE f == call[i].answers
           S == {t \in DOMAIN f : f[t] \in Answers}
           s == SumFunctionOnSet(f, S)
           c == Cardinality(S)
<1>1. /\ Trial(i) \in 0 .. MaxTrials /\ DOMAIN f = 1 .. Trial(i)
      /\ MaxTrials \in Nat \ {0} /\ MaxCost \in Nat
  BY AnswersType, TrialsAssumption, MaxCostAssumption DEF ShapeInv
<1>2. IsFiniteSet(S) /\ c <= Trial(i) /\ c \in Nat
  <2>1. /\ IsFiniteSet(1 .. Trial(i))
        /\ Cardinality(1 .. Trial(i)) = IF 1 > Trial(i) THEN 0 ELSE Trial(i) - 1 + 1
    <3>1. 1 \in Int /\ Trial(i) \in Int
      BY <1>1
    <3> HIDE DEF f, S, s, c
    <3>. QED
      BY <3>1, FS_Interval
  <2>2. Cardinality(1 .. Trial(i)) = Trial(i)
    BY <1>1, <2>1
  <2>3. S \subseteq 1 .. Trial(i)
    BY <1>1
  <2>. QED
    BY <2>1, <2>2, <2>3, FS_Subset, FS_CardinalityType
<1>3. \A t \in S : f[t] \in Nat /\ MaxTrials * f[t] <= MaxCost
  BY AnswersAssumption, PricesAssumption
<1>4. CallCost(i) = s
  BY DEF CallCost
<1> HIDE DEF f, S
<1>5. s \in Nat
  BY <1>2, <1>3, SumType
<1>6. MaxTrials * s <= c * MaxCost
  BY <1>1, <1>2, <1>3, SumBounded
<1> HIDE DEF s, c
<1>7. s <= MaxCost
  <2>1. c * MaxCost <= MaxTrials * MaxCost
    BY <1>1, <1>2
  <2>2. /\ MaxTrials * s \in Int /\ c * MaxCost \in Int /\ MaxTrials * MaxCost \in Int
    BY <1>1, <1>2, <1>5
  <2>3. MaxTrials * s <= MaxTrials * MaxCost
    BY <1>6, <2>1, <2>2
  <2>4. ASSUME s > MaxCost
        PROVE  FALSE
    <3>1. s - MaxCost \in Nat \ {0}
      BY <1>1, <1>5, <2>4
    <3>2. MaxTrials * (s - MaxCost) = MaxTrials * s - MaxTrials * MaxCost
      BY <1>1, <1>5
    <3>3. MaxTrials * (s - MaxCost) > 0
      BY <1>1, <3>1
    <3>. QED
      BY <2>2, <2>3, <3>2, <3>3
  <2>. QED
    BY <1>1, <1>5, <2>4
<1>. QED
  BY <1>1, <1>4, <1>5, <1>7

(* What happens to the engine in a history of runs is a step of the engine,*)
(* or its start.                                                           *)
LEMMA EngineMoves ==
  ASSUME ShapeInv, [RNext]_allVars
  PROVE  [Next]_vars \/ Init'
<1>1. ASSUME ResetEngine
      PROVE  Init'
  BY <1>1 DEF ResetEngine, Init
<1>2. ASSUME NEW i \in Cases, FinishCase(i)
      PROVE  Next
  <2>1. Finish(i, CallCost(i)) /\ CallCost(i) \in 0 .. MaxCost
    BY <1>2, CallCostType DEF FinishCase
  <2>. QED
    BY <2>1 DEF Next
<1>3. ASSUME NEW i \in Cases, BeginCase(i) \/ SkipCase(i)
      PROVE  Next
  BY <1>3 DEF BeginCase, SkipCase, Next
<1>4. ASSUME NEW i \in Cases, Step(i), ~FinishCase(i)
      PROVE  UNCHANGED vars
  <2>1. UNCHANGED engineVars
    BY <1>4 DEF Step, Invoke, Answer, LiveError, Scored
  <2>. QED
    BY <2>1 DEF engineVars, vars
<1>5. YieldResult => Next
  BY DEF YieldResult, Next
<1>6. AllRunsDone \/ UNCHANGED allVars => UNCHANGED vars
  BY DEF AllRunsDone, allVars, engineVars, vars
<1>7. (\E m \in Modes, n \in 1 .. MaxTrials : NewRun(m, n)) \/ EndRun \/ Crash => ResetEngine
  BY DEF NewRun, EndRun, Crash
<1>. QED
  BY <1>1, <1>2, <1>3, <1>4, <1>5, <1>6, <1>7 DEF RNext

(* In every history of runs the invariant of the engine holds.             *)
LEMMA EngineInvariant == RSpec => [](ShapeInv /\ SerialInv /\ TickPerCase)
<1>1. RInit => Init
  BY DEF RInit
<1>2. ShapeInv /\ [RNext]_allVars => ShapeInv'
  BY ShapeStep
<1>3. ShapeInv /\ [RNext]_allVars => [Next]_vars \/ Init'
  BY EngineMoves
<1>4. SerialInv => RunInv
  BY DEF SerialInv
<1>. QED
  BY <1>1, <1>2, <1>3, <1>4, ShapeInit, SerialInit, SerialStep, TickInit, TickStep, PTL DEF RSpec

(* Whatever the cassette answers, whatever fails and whenever a process is *)
(* killed, each run keeps what the engine promises: the window, the order  *)
(* and the amount of what the budget stops, and one tick per case.         *)
THEOREM EveryRunKeepsTheEngine ==
  RSpec => [](/\ Lifecycle
              /\ InFlightBound
              /\ SkippedSuffix
              /\ SpendBound
              /\ TickPerCase)
<1>1. SerialInv => Lifecycle /\ InFlightBound /\ SkippedSuffix /\ SpendBound
  BY InFlightFollows, SpendFollows DEF SerialInv, RunInv
<1>. QED
  BY <1>1, EngineInvariant, PTL

(* What each run collects from the cassette and the live target is what    *)
(* the serial loop of SequentialRun could have produced, from the start of *)
(* the process to its end.                                                 *)
THEOREM EveryRunIsSerial ==
  RSpec => [][Sequential!Next \/ (Sequential!Init)']_collected
<1>1. ASSUME ShapeInv, SerialInv, [RNext]_allVars
      PROVE  [Sequential!Next \/ (Sequential!Init)']_collected
  <2>1. CASE Init'
    <3>1. collected' = <<>>
      BY <2>1 DEF Init, collected
    <3>. QED
      BY <3>1 DEF Sequential!Init
  <2>2. CASE [Next]_vars
    BY <1>1, <2>2, Stutters, YieldIsSerial
  <2>. QED
    BY <1>1, <2>1, <2>2, EngineMoves
<1>. QED
  BY <1>1, EngineInvariant, PTL DEF RSpec
=============================================================================
