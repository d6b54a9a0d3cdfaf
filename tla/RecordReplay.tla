---------------------------- MODULE RecordReplay ----------------------------
(***************************************************************************)
(* Recording and replaying runs: the engine (RunEngine) over a target      *)
(* wrapped in CachedTarget and the cassette it keeps in the llm_cache      *)
(* table of .evalcore/cache.db (src/crates/evalcore-store/src/lib.rs).     *)
(* A history of `evalcore run` processes is modelled: each one is given a  *)
(* cache mode and a number of trials, and may be killed at any point; the  *)
(* cassette is what survives.                                              *)
(*                                                                         *)
(* Within a case the trials run one after the other (run_multi; a run with *)
(* one trial is run_single).  The places where a case awaits are           *)
(*   "live"    the inner target's call is in flight                        *)
(*   "score"   a scorer works on the answer                                *)
(* and the code between two awaits is not interleaved with other cases;    *)
(*   "invoke"  CachedTarget::invoke is about to look the key up            *)
(*   "return"  the last trial is over, run_case returns                    *)
(* are points inside such a stretch: while a case is there, nothing else   *)
(* moves.                                                                  *)
(*                                                                         *)
(* An answer is represented by what it costs in grains, the one property   *)
(* of a TargetOutput the run adds up.                                      *)
(***************************************************************************)
EXTENDS RunEngine, Sequences, Functions

CONSTANTS
  InputOf,     \* InputOf[i]: case.input of case i (the identity is fixed)
  MaxTrials,   \* bound on run.trials.count
  Answers,     \* what the live target may answer
  Modes,       \* the cache modes in use
  Absent,      \* no entry of the cassette under a key
  Missed,      \* outcome of a trial: a miss in replay mode
  Failed,      \* outcome of a trial: lookup, call or recording failed
  MaxRuns,     \* bound on the number of processes that end by themselves
  MaxCrashes   \* bound on the number of killed processes

ASSUME InputOfAssumption == DOMAIN InputOf = Cases
ASSUME TrialsAssumption == MaxTrials \in Nat \ {0}
ASSUME AnswersAssumption ==
  Answers \subseteq Nat /\ {Absent, Missed, Failed} \cap Answers = {}
(* MaxCost bounds what a case reports, with every one of its trials paid.  *)
ASSUME PricesAssumption == \A a \in Answers : MaxTrials * a <= MaxCost
ASSUME ModesAssumption == Modes \subseteq {"auto", "replay", "live"}

VARIABLES
  cassette,   \* the llm_cache table: key -> answer, or Absent
  mode,       \* cache mode of the running process, "none" between processes
  trials,     \* run.trials.count of the running process
  call,       \* call[i]: where case i is, and the outcomes of its trials
  last,       \* the report of the last completed run, or NoReport
  runs,       \* processes that ended by themselves
  crashes     \* processes killed

engineVars == <<started, running, outcome, cost, spent, yielded, ticks>>
allVars == <<engineVars, cassette, mode, trials, call, last, runs, crashes>>

NoReport == <<>>

(* The canonical request: identity and input, salted with the trial index  *)
(* for every trial but the first (salt 0 stands for the key without one).  *)
KeySlip(i, t) == <<InputOf[i], 0>>
Key(i, t) == <<InputOf[i], t>>

Keys == {InputOf[i] : i \in Cases} \X (0 .. MaxTrials - 1)

Idle == [at |-> "idle", answers |-> <<>>]

(* The trial case i is in.                                                 *)
Trial(i) == Len(call[i].answers)

(* The task is inside the poll of some case.                               *)
Polling == \E i \in Cases : call[i].at \in {"invoke", "return"}
Awaiting == mode # "none" /\ ~HeadReady /\ ~Polling

(* Case i took a as the outcome of its current trial and goes to `at`.     *)
Take(i, a, at) ==
  call' = [call EXCEPT ![i] = [at |-> at, answers |-> Append(@.answers, a)]]

AfterTrial(n) == IF n = trials THEN "return" ELSE "invoke"

CallCost(i) ==
  SumFunctionOnSet(call[i].answers,
                   {t \in DOMAIN call[i].answers : call[i].answers[t] \in Answers})

RInit ==
  /\ Init
  /\ cassette = [k \in Keys |-> Absent]
  /\ mode = "none"
  /\ trials = 1
  /\ call = [i \in Cases |-> Idle]
  /\ last = NoReport
  /\ runs = 0
  /\ crashes = 0

ResetEngine ==
  /\ started' = 0
  /\ running' = {}
  /\ outcome' = [i \in Cases |-> "none"]
  /\ cost' = [i \in Cases |-> 0]
  /\ spent' = 0
  /\ yielded' = 0
  /\ ticks' = 0
  /\ call' = [i \in Cases |-> Idle]

(* `evalcore run --cache m`: a new process on the same cassette.           *)
NewRun(m, n) ==
  /\ mode = "none"
  /\ runs < MaxRuns
  /\ mode' = m
  /\ trials' = n
  /\ ResetEngine
  /\ UNCHANGED <<cassette, last, runs, crashes>>

BeginCase(i) ==
  /\ Awaiting
  /\ Dispatch(i)
  /\ call' = [call EXCEPT ![i].at = "invoke"]
  /\ UNCHANGED <<cassette, mode, trials, last, runs, crashes>>

SkipCase(i) ==
  /\ Awaiting
  /\ Skip(i)
  /\ UNCHANGED <<cassette, mode, trials, call, last, runs, crashes>>

(* CachedTarget::invoke up to its first await: the lookup.  Store::get may *)
(* fail (a locked database, a corrupt entry): a failed trial, and no call. *)
LookupSlip(k) == IF mode # "replay" THEN Absent ELSE cassette[k]
Lookup(k) == IF mode = "live" THEN Absent ELSE cassette[k]

Invoke(i) ==
  /\ call[i].at = "invoke"
  /\ LET hit == Lookup(Key(i, Trial(i))) IN
       \/ /\ hit # Absent
          /\ Take(i, hit, "score")
       \/ /\ hit = Absent
          /\ mode = "replay"
          /\ Take(i, Missed, AfterTrial(Trial(i) + 1))
       \/ /\ hit = Absent
          /\ mode # "replay"
          /\ call' = [call EXCEPT ![i].at = "live"]
       \/ /\ mode # "live"
          /\ Take(i, Failed, AfterTrial(Trial(i) + 1))
  /\ UNCHANGED <<engineVars, cassette, mode, trials, last, runs, crashes>>

(* Store::put: INSERT OR REPLACE.                                          *)
PutSlip(k, a) ==
  cassette' = [cassette EXCEPT ![k] = IF @ = Absent THEN a ELSE @]
Put(k, a) == cassette' = [cassette EXCEPT ![k] = a]

(* The live call answered: record it, whatever the lookup once found.      *)
Answer(i, a) ==
  /\ Awaiting
  /\ call[i].at = "live"
  /\ Put(Key(i, Trial(i)), a)
  /\ Take(i, a, "score")
  /\ UNCHANGED <<engineVars, mode, trials, last, runs, crashes>>

(* The live call, or the recording of its answer, failed: a failed trial,  *)
(* nothing recorded, no scorer runs.                                       *)
LiveError(i) ==
  /\ Awaiting
  /\ call[i].at = "live"
  /\ Take(i, Failed, AfterTrial(Trial(i) + 1))
  /\ UNCHANGED <<engineVars, cassette, mode, trials, last, runs, crashes>>

(* The scorers of the current trial are done.                              *)
Scored(i) ==
  /\ Awaiting
  /\ call[i].at = "score"
  /\ call' = [call EXCEPT ![i].at = AfterTrial(Trial(i))]
  /\ UNCHANGED <<engineVars, cassette, mode, trials, last, runs, crashes>>

FinishCase(i) ==
  /\ call[i].at = "return"
  /\ Finish(i, CallCost(i))
  /\ call' = [call EXCEPT ![i].at = "idle"]
  /\ UNCHANGED <<cassette, mode, trials, last, runs, crashes>>

YieldResult ==
  /\ mode # "none"
  /\ ~Polling
  /\ Yield
  /\ UNCHANGED <<cassette, mode, trials, call, last, runs, crashes>>

(* run_suite returned and the process ends; its report is kept to compare  *)
(* later runs with.                                                        *)
EndRun ==
  /\ mode # "none"
  /\ Returned
  /\ last' = [i \in Cases |-> [outcome |-> outcome[i], answers |-> call[i].answers]]
  /\ runs' = runs + 1
  /\ mode' = "none"
  /\ trials' = 1
  /\ ResetEngine
  /\ UNCHANGED <<cassette, crashes>>

(* The process is killed: only the cassette survives.  What --cache live   *)
(* had overwritten by then is no longer what the last report shows.        *)
Crash ==
  /\ mode # "none"
  /\ crashes < MaxCrashes
  /\ crashes' = crashes + 1
  /\ last' = IF mode = "live" THEN NoReport ELSE last
  /\ mode' = "none"
  /\ trials' = 1
  /\ ResetEngine
  /\ UNCHANGED <<cassette, runs>>

AllRunsDone ==
  /\ mode = "none"
  /\ runs = MaxRuns
  /\ UNCHANGED allVars

Step(i) ==
  \/ Invoke(i)
  \/ \E a \in Answers : Answer(i, a)
  \/ LiveError(i)
  \/ Scored(i)
  \/ FinishCase(i)

RNext ==
  \/ \E m \in Modes, n \in 1 .. MaxTrials : NewRun(m, n)
  \/ \E i \in Cases : BeginCase(i) \/ SkipCase(i) \/ Step(i)
  \/ YieldResult
  \/ EndRun
  \/ Crash
  \/ AllRunsDone

RSpec == RInit /\ [][RNext]_allVars

-----------------------------------------------------------------------------

TrialOutcomes == Answers \cup {Missed, Failed}

(* The types of what this module adds to the engine.                       *)
RTypeOK ==
  /\ cassette \in [Keys -> Answers \cup {Absent}]
  /\ mode \in Modes \cup {"none"}
  /\ trials \in 1 .. MaxTrials
  /\ call \in [Cases -> [at : {"idle", "invoke", "live", "score", "return"},
                        answers : Seq(TrialOutcomes)]]
  /\ \A i \in Cases : Trial(i) <= trials
  /\ runs \in Nat /\ crashes \in Nat

(* Replay returns what was recorded: a trial that the last completed run   *)
(* answered is, in a replay run, answered the same way, or fails because   *)
(* the lookup itself does; it is never a miss and never another answer, in *)
(* whatever order the cases of both runs interleaved, with crashed runs in *)
(* between, and also when the two runs differ in their number of trials    *)
(* (trial 0 keeps the key of a run without trials).                        *)
ReplayReproduces ==
  mode = "replay" /\ last # NoReport =>
    \A i \in Cases :
      \A t \in DOMAIN call[i].answers \cap DOMAIN last[i].answers :
        last[i].answers[t] \in Answers =>
          call[i].answers[t] \in {last[i].answers[t], Failed}

(* A recorded answer is paid for once: no run in auto mode replaces an     *)
(* entry of the cassette, even after a crash.                              *)
RecordedOnce ==
  [][\A k \in Keys : mode = "auto" /\ cassette[k] # Absent =>
       cassette'[k] = cassette[k]]_allVars

(* What a run reports is what the cassette holds: an answered trial of an  *)
(* auto or live run is in the cassette under its own key from the moment   *)
(* the case has it, so killing the process loses no answer it has paid.    *)
AnsweredIsRecorded ==
  \A i \in Cases : \A t \in DOMAIN call[i].answers :
    call[i].answers[t] \in Answers =>
      cassette[Key(i, t - 1)] = call[i].answers[t]
=============================================================================
