------------------------------ MODULE RunCommand ------------------------------
(***************************************************************************)
(* `evalcore run` from its flags to its exit code (run and run_matrix in   *)
(* src/crates/evalcore/src/main.rs), around an engine run whose outcome is *)
(* any set of passing cases.  A command goes through the stages            *)
(*                                                                         *)
(*   target -> store -> scorers -> suite -> history -> report ->           *)
(*   baseline -> html -> save -> verdict -> done                           *)
(*                                                                         *)
(* leaving out what it was not asked for; a matrix goes through suite and  *)
(* history once per arm and has no baselines.  `?` in the code is the step *)
(* to "error" (exit code 1).  Commands run as processes of their own, may  *)
(* overlap, and may be killed; they share the tables of .evalcore/cache.db *)
(* (one label; a SQL statement is one step).                               *)
(***************************************************************************)
EXTENDS Integers, Sequences, FiniteSets, FiniteSetsExt, SequencesExt

CONSTANTS
  Script,       \* Script[n]: the invocations (command line, config and
                \* environment) considered for the nth command
  MaxOverlap,   \* bound on the number of commands running at a time
  Floor         \* passing cases the pass_rate gate asks for, 0 without gates

Caches == {"auto", "replay", "live", "off"}
Kinds == {"cached", "local"}   \* a target with, or without, a cache identity

Invocation ==
  [cache : Caches,
   targets : Seq(Kinds) \ {<<>>},   \* one, or the arms of a matrix
   matrix : BOOLEAN,
   judge : BOOLEAN,            \* a judge scorer is configured
   similarity : BOOLEAN,       \* a similarity scorer is configured
   key : BOOLEAN,              \* the API keys are in the environment
   baseline : BOOLEAN,
   save : BOOLEAN,
   history : BOOLEAN,          \* run.history and no --no-history
   html : BOOLEAN,
   files : Seq(Seq(STRING))]   \* the datasets: the lines of each file

ASSUME ScriptAssumption == Script \in Seq(SUBSET Invocation)
ASSUME BoundsAssumption == MaxOverlap \in Nat \ {0} /\ Floor \in Nat

VARIABLES
  cmd,        \* the commands started, in order: their invocations
  stage,      \* stage[n] of command n
  open,       \* open[n]: command n holds an open store
  arms,       \* arms[n]: the passing cases of the suites it has run
  called,     \* called[n]: what it may have called over the network
  compared,   \* compared[n]: the baseline row it compared with, or 0
  seen,       \* seen[n]: rows of the runs table when command n started
  warned,     \* warned[n]: history rows it failed to write
  runs,       \* the table of baselines
  history     \* the run_history table

perCommand == <<cmd, stage, open, arms, called, compared, seen, warned>>
vars == <<perCommand, runs, history>>

Started == DOMAIN cmd
Ended == {"done", "error", "killed"}

(* load_jsonl.  A line is the id of its case, or "unnamed" for a case that *)
(* gives none and is named for its line, "blank", or "unfit" if it has     *)
(* neither input nor trace.                                                *)
Named(file) ==
  [k \in DOMAIN file |->
     IF file[k] = "unnamed" THEN "case-" \o ToString(k) ELSE file[k]]
FileIds(file) == SelectSeq(Named(file), LAMBDA id : id # "blank")
FileLoads(file) == "unfit" \notin Range(file) /\ IsInjective(FileIds(file))

(* The ids of the cases of all the datasets, which only need to be distinct*)
(* within a file.                                                          *)
Ids(c) == FlattenSeq([f \in DOMAIN c.files |-> FileIds(c.files[f])])
DatasetsLoad(c) == Ids(c) # <<>> /\ \A f \in DOMAIN c.files : FileLoads(c.files[f])

Positions(c) == DOMAIN Ids(c)

Goto(n, s) == stage' = [stage EXCEPT ![n] = s]

Init ==
  /\ cmd = <<>> /\ stage = <<>> /\ open = <<>> /\ arms = <<>> /\ called = <<>>
  /\ compared = <<>> /\ seen = <<>> /\ warned = <<>>
  /\ runs = <<>>
  /\ history = <<>>

Start(c) ==
  /\ Cardinality({n \in Started : stage[n] \notin Ended}) < MaxOverlap
  /\ cmd' = Append(cmd, c)
  /\ stage' = Append(stage, "target")
  /\ open' = Append(open, FALSE)
  /\ arms' = Append(arms, <<>>)
  /\ called' = Append(called, {})
  /\ compared' = Append(compared, 0)
  /\ seen' = Append(seen, Len(runs))
  /\ warned' = Append(warned, 0)
  /\ UNCHANGED <<runs, history>>

-----------------------------------------------------------------------------
(* Wiring. *)

NeedsHistory(c) == c.baseline \/ c.save
AnyCached(c) == "cached" \in Range(c.targets)

(* Keys are only required where a live call may need one.                  *)
Lacks(c, needed) == needed /\ ~c.key /\ c.cache # "replay"

(* A matrix refuses baselines, and a target needs its key.                 *)
BuildTarget(n) ==
  /\ stage[n] = "target"
  /\ LET c == cmd[n] IN
       Goto(n, IF \/ c.matrix /\ NeedsHistory(c)
                  \/ Lacks(c, AnyCached(c))
               THEN "error" ELSE "store")
  /\ UNCHANGED <<cmd, open, arms, called, compared, seen, warned, runs, history>>

(* When the store is opened up front.                                      *)
NeedsStore(c) ==
  IF c.cache = "off"
  THEN NeedsHistory(c)
  ELSE AnyCached(c) \/ c.judge \/ NeedsHistory(c)

OpenStore(n) ==
  /\ stage[n] = "store"
  /\ \/ Goto(n, "scorers") /\ open' = [open EXCEPT ![n] = NeedsStore(cmd[n])]
     \/ NeedsStore(cmd[n]) /\ Goto(n, "error") /\ UNCHANGED open
  /\ UNCHANGED <<cmd, arms, called, compared, seen, warned, runs, history>>

(* The scorers' targets are built, then the datasets loaded; either may    *)
(* fail, and must where a key is missing or a dataset is unusable.         *)
BuildScorers(n) ==
  /\ stage[n] = "scorers"
  /\ \/ /\ ~Lacks(cmd[n], cmd[n].judge \/ cmd[n].similarity)
        /\ DatasetsLoad(cmd[n])
        /\ Goto(n, "suite")
     \/ Goto(n, "error")
  /\ UNCHANGED <<cmd, open, arms, called, compared, seen, warned, runs, history>>

(* What a suite may call over the network, and what of it gets through:    *)
(* a CachedTarget in replay mode keeps its calls, a bare target does not.  *)
Callers(c, kind) ==
  {x \in {"target", "judge", "similarity"} :
     \/ x = "target" /\ kind = "cached"
     \/ x = "judge" /\ c.judge
     \/ x = "similarity" /\ c.similarity}

WrappedSlip(n) == open[n] /\ cmd[n].baseline
Wrapped(n) == open[n] /\ cmd[n].cache # "off"

Live(n, kind) ==
  IF Wrapped(n) /\ cmd[n].cache = "replay" THEN {} ELSE Callers(cmd[n], kind)

(* After an arm: the next one, or the report.                              *)
AfterArm(c, n) == IF n < Len(c.targets) THEN "suite" ELSE "report"

RunSuite(n, passes) ==
  /\ stage[n] = "suite"
  /\ LET c == cmd[n]
         arm == Len(arms[n]) + 1
     IN /\ passes \subseteq Positions(c)
        /\ arms' = [arms EXCEPT ![n] = Append(@, passes)]
        /\ called' = [called EXCEPT ![n] = @ \cup Live(n, c.targets[arm])]
        /\ Goto(n, IF c.history THEN "history" ELSE AfterArm(c, arm))
  /\ UNCHANGED <<cmd, open, compared, seen, warned, runs, history>>

-----------------------------------------------------------------------------
(* Reporting and history. *)

(* record_run: a row of its own for every arm.                             *)
HistoryRow(n, arm) == [by |-> n, passes |-> arms[n][arm]]

RecordHistorySlip(n) ==
  /\ stage[n] = "history"
  /\ \/ /\ history' = Append(history, HistoryRow(n, 1))
        /\ UNCHANGED warned
     \/ /\ warned' = [warned EXCEPT ![n] = @ + 1]
        /\ UNCHANGED history
  /\ Goto(n, AfterArm(cmd[n], Len(arms[n])))
  /\ UNCHANGED <<cmd, open, arms, called, compared, seen, runs>>

(* record_history: a row, or a warning; never an error.                    *)
RecordHistory(n) ==
  /\ stage[n] = "history"
  /\ \/ /\ history' = Append(history, HistoryRow(n, Len(arms[n])))
        /\ UNCHANGED warned
     \/ /\ warned' = [warned EXCEPT ![n] = @ + 1]
        /\ UNCHANGED history
  /\ Goto(n, AfterArm(cmd[n], Len(arms[n])))
  /\ UNCHANGED <<cmd, open, arms, called, compared, seen, runs>>

(* What is next of what the command was asked for, s being done.           *)
After(c, s) ==
  IF s = "report" /\ c.baseline THEN "baseline"
  ELSE IF s # "html" /\ c.html THEN "html"
  ELSE IF c.save THEN "save" ELSE "verdict"

WriteReport(n) ==
  /\ stage[n] = "report"
  /\ Goto(n, After(cmd[n], "report")) \/ Goto(n, "error")
  /\ UNCHANGED <<cmd, open, arms, called, compared, seen, warned, runs, history>>

(* load_baseline: the newest row, an error without one.                    *)
NewestSlip == IF runs = <<>> THEN 0 ELSE 1
Newest == Len(runs)

CompareBaseline(n) ==
  /\ stage[n] = "baseline"
  /\ \/ /\ runs # <<>>
        /\ compared' = [compared EXCEPT ![n] = Newest]
        /\ Goto(n, After(cmd[n], "baseline"))
     \/ Goto(n, "error") /\ UNCHANGED compared
  /\ UNCHANGED <<cmd, open, arms, called, seen, warned, runs, history>>

WriteHtml(n) ==
  /\ stage[n] = "html"
  /\ Goto(n, After(cmd[n], "html")) \/ Goto(n, "error")
  /\ UNCHANGED <<cmd, open, arms, called, compared, seen, warned, runs, history>>

(* The row is the summary without its gates; save_baseline appends it.     *)
BaselineRow(n) == [by |-> n, ids |-> Ids(cmd[n]), passes |-> arms[n][1]]

SaveBaselineSlip(n) ==
  /\ stage[n] = "save"
  /\ \/ Goto(n, "verdict")
     \/ Goto(n, "error")
  /\ runs' = Append(runs, BaselineRow(n))
  /\ UNCHANGED <<cmd, open, arms, called, compared, seen, warned, history>>

SaveBaseline(n) ==
  /\ stage[n] = "save"
  /\ \/ /\ Goto(n, "verdict")
        /\ runs' = Append(runs, BaselineRow(n))
     \/ Goto(n, "error") /\ UNCHANGED runs
  /\ UNCHANGED <<cmd, open, arms, called, compared, seen, warned, history>>

-----------------------------------------------------------------------------
(* The verdict. *)

(* baseline_by_id: of two results with one id the later one stays.         *)
ById(row) ==
  [id \in Range(row.ids) |->
     Max({k \in DOMAIN row.ids : row.ids[k] = id}) \in row.passes]

(* compare: a failing case that passed in the baseline, or is not in it.   *)
(* (Fixed and removed cases are reported and never fail the gate.)         *)
Regresses(row, id) == id \notin DOMAIN ById(row) \/ ById(row)[id]

DiffFails(row, ids, passes) ==
  \E k \in DOMAIN ids \ passes : Regresses(row, ids[k])

GatesPass(passes) == Cardinality(passes) >= Floor

Contract(n, passes) ==
  IF cmd[n].baseline
  THEN ~DiffFails(runs[compared[n]], Ids(cmd[n]), passes)
  ELSE passes = Positions(cmd[n])

(* Saving a baseline clears the gates attached to the summary.             *)
AcceptedSlip(n) ==
  \A passes \in Range(arms[n]) :
    Contract(n, passes) /\ (cmd[n].save \/ GatesPass(passes))
Accepted(n) ==
  \A passes \in Range(arms[n]) : Contract(n, passes) /\ GatesPass(passes)

Verdict(n) ==
  /\ stage[n] = "verdict"
  /\ Goto(n, "done")
  /\ UNCHANGED <<cmd, open, arms, called, compared, seen, warned, runs, history>>

ExitCode(n) == IF stage[n] = "done" /\ Accepted(n) THEN 0 ELSE 1

Kill(n) ==
  /\ stage[n] \notin Ended
  /\ Goto(n, "killed")
  /\ UNCHANGED <<cmd, open, arms, called, compared, seen, warned, runs, history>>

AllEnded ==
  /\ Len(cmd) = Len(Script)
  /\ \A n \in Started : stage[n] \in Ended
  /\ UNCHANGED vars

Stage(n) ==
  \/ BuildTarget(n) \/ OpenStore(n) \/ BuildScorers(n)
  \/ \E passes \in SUBSET Positions(cmd[n]) : RunSuite(n, passes)
  \/ RecordHistory(n) \/ WriteReport(n) \/ CompareBaseline(n)
  \/ WriteHtml(n) \/ SaveBaseline(n) \/ Verdict(n)
  \/ Kill(n)

Next ==
  \/ Len(cmd) < Len(Script) /\ \E c \in Script[Len(cmd) + 1] : Start(c)
  \/ \E n \in Started : Stage(n)
  \/ AllEnded

Spec == Init /\ [][Next]_vars

-----------------------------------------------------------------------------

Stages == {"target", "store", "scorers", "suite", "history", "report",
           "baseline", "html", "save", "verdict"} \cup Ended

(* Rows of the two tables that command n may write.                        *)
BaselineRows(n) == [by : {n}, ids : {Ids(cmd[n])}, passes : SUBSET Positions(cmd[n])]
HistoryRows(n) == [by : {n}, passes : SUBSET Positions(cmd[n])]

Invoked == UNION Range(Script)

(* Types; a suite grades the command's own cases, at most once per arm, and*)
(* a row of a table is that of a command.                                  *)
TypeOK ==
  /\ cmd \in Seq(Invoked) /\ Len(cmd) <= Len(Script)
  /\ stage \in [Started -> Stages]
  /\ open \in [Started -> BOOLEAN]
  /\ arms \in [Started -> Seq(UNION {SUBSET Positions(cmd[n]) : n \in Started})]
  /\ \A n \in Started :
       /\ arms[n] \in Seq(SUBSET Positions(cmd[n]))
       /\ Len(arms[n]) <= Len(cmd[n].targets)
  /\ called \in [Started -> SUBSET {"target", "judge", "similarity"}]
  /\ compared \in [Started -> 0 .. Len(runs)]
  /\ seen \in [Started -> 0 .. Len(runs)]
  /\ warned \in [Started -> Nat]
  /\ runs \in Seq(UNION {BaselineRows(n) : n \in Started})
  /\ history \in Seq(UNION {HistoryRows(n) : n \in Started})

Failing(ids, passes, id) == {k \in DOMAIN ids \ passes : ids[k] = id}

(* Exit code 0 keeps its promise: every suite stays above its gate floors, *)
(* and every case passes, or with --baseline no more cases of an id fail   *)
(* than the baseline accepted ("`gate_failed()` is true when any case      *)
(* regressed (passed -> failed) or any case unknown to the baseline is     *)
(* failing", baseline.rs:14-16).                                           *)
ExitZeroMeansAccepted ==
  \A n \in Started : ExitCode(n) = 0 =>
    /\ Len(arms[n]) = Len(cmd[n].targets)
    /\ \A passes \in Range(arms[n]) :
         /\ Cardinality(passes) >= Floor
         /\ \A id \in Range(Ids(cmd[n])) :
              Cardinality(Failing(Ids(cmd[n]), passes, id)) <=
                IF compared[n] = 0 THEN 0
                ELSE Cardinality(Failing(runs[compared[n]].ids,
                                         runs[compared[n]].passes, id))

(* A command compares with a baseline saved by another one (a rolling      *)
(* --baseline L --save-baseline L never accepts its own regressions), and  *)
(* never with one older than what was saved when it started, however the   *)
(* commands overlap.                                                       *)
ComparesWithNewest ==
  \A n \in Started : compared[n] # 0 =>
    /\ runs[compared[n]].by # n
    /\ compared[n] >= seen[n]

(* Saving is the last thing that can fail: a command that ended with an    *)
(* error has left no baseline for the next one to accept, and one that came*)
(* to its verdict has saved what it was asked to, once.                    *)
SavedIffFinished ==
  \A n \in Started :
    LET rows == {k \in DOMAIN runs : runs[k].by = n} IN
      /\ Cardinality(rows) <= 1
      /\ rows # {} => stage[n] \in {"verdict", "done", "killed"}
      /\ stage[n] = "done" /\ cmd[n].save => rows # {}

(* The rows that command n has left among the first k of a table.          *)
RowsBy(table, n, k) == Cardinality({j \in 1 .. k : table[j].by = n})

(* Every suite that was run has left one history row, in arm order, or a   *)
(* warning, whatever became of the command afterwards; only the suite just *)
(* finished may still be without.                                          *)
HistoryComplete ==
  \A n \in Started : cmd[n].history =>
    /\ stage[n] \in {"suite", "report", "baseline", "html", "save", "verdict",
                     "done", "error"} =>
         RowsBy(history, n, Len(history)) + warned[n] = Len(arms[n])
    /\ warned[n] = 0 =>
         \A k \in DOMAIN history : history[k].by = n =>
           history[k].passes = arms[n][RowsBy(history, n, k)]

(* "Replay never calls the network and never reads API keys" (cache-and-   *)
(* determinism.md:120): --cache replay lets no call of a target or of a    *)
(* scorer through.                                                         *)
ReplayOffline ==
  \A n \in Started : cmd[n].cache = "replay" => called[n] = {}
=============================================================================
