# EvalCore in TLA+

TLA+ models of [EvalCore](../src/README.md), a command that runs a dataset of
cases against a target (an LLM endpoint, an HTTP service, a shell command, a
recorded trace), scores the answers, and turns the result into reports,
baselines and an exit code for CI. The models follow the Rust code under
`src/crates`; `PROJECT.json` maps every definition to the lines it stands for.

Contents: [the system](#the-system) ·
[the modules](#the-modules) · [the runs](#the-runs) ·
[disagreements found](#disagreements-found) · [proofs](#proofs) ·
[what is left out](#what-is-left-out) · [plan](#plan)

## The system

| Component (crate) | State | Operations | Talks to |
|---|---|---|---|
| run engine (`evalcore-core/engine.rs`) | window of case futures, accumulated micro-USD, results in dataset order | dispatch, skip on budget, run a case (trials, scorers), collect | target, scorers, progress sink |
| record/replay (`evalcore-store`) | `llm_cache` table, trial index in a task local | `CachedTarget::invoke`: look up, call, record | inner target, SQLite |
| live HTTP call (`target.rs`, `http_target.rs`, `embeddings.rs`) | retry counter, per-attempt timer | attempt, classify, back off | endpoint |
| shell target, subprocess scorer | one child process, two pipes | spawn, write stdin, close, drain, judge by status | the user's command |
| case and suite verdicts (`engine.rs`, `classification.rs`, `gates.rs`, `types.rs`) | none: folds of results | trial policy, means, cost, aggregates, gates | run command |
| trajectory scorer (`evalcore-scorers/trajectory.rs`) | none | the three rules over tool calls | traces |
| run command (`evalcore/main.rs`) | stage of the command, exit code | wire, run arms, history, report, baseline, HTML, save, verdict | all of the above, files |
| baselines and history (`evalcore-store`, `baseline.rs`) | tables `runs`, `run_history` | save, load newest, compare, append | run command, viewer |
| trace target (`trace.rs`) | none | order the spans of an export, extract steps, answer, tokens, latency | scorers |
| datasets (`dataset.rs`) | none | name the cases, refuse duplicates in a file | run command |
| matrix comparison (`comparison.rs`) | none | mean score per arm, winner, wins and ties of a case | run command, reports |
| configuration (`evalcore-config`, factories in `evalcore-core` and `evalcore-scorers`) | the file, which a user edits between runs | validate, build targets and scorers, form requests and cache identities | run command, cassette |
| scorers without a process (`evalcore-scorers`) | none of their own; `judge` and `similarity` read and fill the cassette | `exact`, `contains`, `regex`, `json_schema`, `judge`, `similarity` | engine, endpoints |
| reports (`evalcore-report`) | none | terminal, JSON, JUnit and HTML, the baseline section, the forms for a matrix | run command, viewer |
| viewer (`evalcore-serve`) | none of its own; a browser keeps pages of it open | listing with trend and links, run page, diff of two runs | `run_history`, reports |
| terminal presentation (`evalcore/ui.rs`) | progress line, count of ticks, what stdout and stderr hold | resolve styles, tick, clear, place each piece of output | engine's progress sink, run command |
| shims, action, documentation site | none | adapt, package, explain | - |

How they interact. `main.rs` builds a target, wraps it in a `CachedTarget` if a
store is open, builds the scorers (whose own LLM calls are targets again,
wrapped in the same way) and hands all to `run_suite`. One task polls every
case: there is concurrency but no parallelism in the engine, and its
interleavings are those of its `await`s: in the target, in a scorer, and
between cases. What outlives a process is `.evalcore/cache.db`, which several
commands may share.

What is hard in it, and which properties guard it (the full list, by line, is
`hazards` in `PROJECT.json`):

* Engine: the budget is read before an await and written after it; completions
  come in any order, results go out in dataset order. *The skipped cases are a
  suffix; the overshoot is below one window; what is collected is what a serial
  pass could have produced; the run returns; progress is counted once.*
* Record/replay: check, await, act; trials share a case but not a key; a process
  may die anywhere, and a lookup may fail. *Replay gives back what was reported or fails
  with its lookup; nothing recorded is paid for twice; nothing reported is unrecorded.*
* Live calls: timers against late answers, retries, `Retry-After`. *The number
  of requests and the total time are bounded; a call ends early only for what was
  answered for good; the call returns.*
* Child processes: two bounded pipes and a program that reads and writes when
  it likes. *The verdict is the exit status; output is whole; the call returns.*
* Verdicts: errors are data, and each denominator must count them or must not.
  *The policy decides; an error never helps; unlabeled cases never count; the order
  in which spans were written and arms were listed decides nothing.*
* Run command: a long sequence in which any stage may fail, three sources of one
  exit code, several commands on one store. *Exit code 0 keeps its promise; a
  failed command leaves no baseline; replay makes no calls.*
* Configuration: a recording outlives the file it was made with, and the identity of
  a target is written apart from its request. *An answer is replayed only for the
  request it was given to; keys, timeouts and prices lose no recording; what is
  accepted can be satisfied.*
* Scorers: the prompt is the key of a verdict, looked up before an await and recorded
  after it by cases, trials and processes of several cache modes; cosines round. *A grade
  stands until something else is recorded in its place; a laxer scorer never refuses what
  a stricter one accepts.*
* Reports: seven renderers decide for themselves what failed and why. *They tell of
  the same run; whatever sends the exit code to 1 has a red mark.*
* Presentation (sequential, so not among the hazards): reporter, file and terminal decide
  at every place anew where a piece of output goes. *Stdout is the report's; the verdict is told once; colour goes where it was asked for.*
* Viewer: pages stay open while runs are appended, and rows may not parse. *The
  listing is the history; a link keeps its word.*

## The modules

Names follow the code. A definition ending in `Slip` is a plausible mistake in
the definition below it; no specification uses one. They are what
`PROJECT.json` substitutes ("mutants") to show that a property can fail.

```
SequentialRun <--refines-- RunRefinement --EXTENDS--> RunEngine <--EXTENDS-- RecordReplay
LiveCall      ChildProcess      RunCommand
Verdicts --EXTENDS--> CaseVerdict, SuiteVerdict, TraceExport, TrajectoryRules, MatrixVerdict,
                      Scorers, Configuration, Report, Presentation, Viewer
RunEngineProofs --EXTENDS--> RunRefinement
RecordReplayProofs --EXTENDS--> RecordReplay, RunEngineProofs
LiveCallProofs, ChildProcessProofs, RunCommandProofs: EXTEND the module
                      they are about
VerdictProofs --EXTENDS--> CaseVerdict, SuiteVerdict, TraceExport, TrajectoryRules,
                      MatrixVerdict, DataLemmas
SessionProofs --EXTENDS--> Verdicts, VerdictProofs
MC*: instances for TLC
```

**RunEngine** is `run_suite`. `buffered(n)` becomes two cursors, `started` and
`yielded`, and the set `running` between them. `Dispatch(i)` is the first poll of
case i up to its first await, `Skip(i)` the same poll when the budget is
exhausted, `Finish(i, c)` the stretch from the return of `run_case` to the end of
the future (accumulate, tick, result), `Yield` the hand-over of a completed head
to `collect`. `HeadReady` gives `Yield` priority, as a poll of `buffered` returns a
ready head before it polls anything else. Dollars are integers in *grains*, `Grain`
of which make one micro-USD, so that the cast `(cost * 1e6) as u64`
(engine.rs:141) is an integer division and its rounding is visible.

**SequentialRun** is what the engine promises: a serial loop over the dataset
whose budget check may be `Staleness` cases late. **RunRefinement** maps the
engine's collected prefix to it with `Staleness = Window - 1`.

**RecordReplay** extends the engine with what happens inside a case: the trials,
and `CachedTarget` around the target, for a history of processes over one
`cassette`. `call[i].at` is the place where case i awaits; places inside a
stretch of code without an await block everything else (`Polling`).
`Invoke` is the lookup, which may fail and make the trial a failed one, `Answer` the return of the live call together with the
recording of it, `LiveError` its failure or that of the recording, `Crash` a kill
at any moment. Every engine step in it is RunEngine's own action (`BeginCase`
conjoins `Dispatch`, `FinishCase` conjoins `Finish`, ...).

**LiveCall** is `retry_with_backoff` around one `attempt`. Time is counted in half
seconds. `left` is the timer of the attempt or of the pause, `granted` the sum of
all timers ever started. The endpoint may refuse, stall at any point, answer any
class of status, ask for any pause, or break off its body. `parses` is whether the
target takes its answer from parsed JSON; an `http` target without `response_path` does
not, and then any text is an answer. A body that the timeout found unfinished is `"stalled"`.

**ChildProcess** is `ShellTarget::invoke` and `SubprocessScorer::score`: write
all, close, drain, wait. The pipes are bounded and the command is one of three
external programs (a filter, a collector, a command that ignores its input), any
of which may fail at any time.

**RunCommand** is `run` and `run_matrix` as a sequence of stages, several commands
at a time, on the tables `runs` and `history`. What the engine returns is any set
of passing cases. Datasets are the lines of their files, as far as ids go. A `?` is
the step to `"error"`. The wiring of the cache
(`NeedsStore`, `Wrapped`, `Live`) is that of main.rs.

**CaseVerdict**, **SuiteVerdict**, **TraceExport**, **TrajectoryRules** and
**MatrixVerdict** are the folds: `run_multi`/`run_single`,
`compute_classification` with `evaluate_gate`, `normalize_otel` with
`root_final_output`, `check_rule`, and `compare_arms`. Each grows one piece of data
(trials, results, spans, calls, arms) and its definitions evaluate what there is so
far.

**Scorers** has gradings in flight, each of a case and an output by one scorer, in a
trial (`with_trial`), in a process of one cache mode, all on one cassette. A `Grading` is at
a lookup, in a live call, or done. `Begin` and `Resume` are `CachedTarget::invoke` up to its
first await (`Invoked`: a hit, a lookup that fails, a miss that replay turns into an error, or
the live call, at once under `live` and `off`); `Answer` is its return together with the
recording, `AnswerFails` the failure of either. Anything may happen in between, so two
gradings of one prompt may both miss, and the second of the two calls of `similarity` may
find another vector than the first. `KeyOf` salts the request with the trial. A grading is
`stale` once another reply is recorded under a key it was answered from. The plain scorers
await nothing and are one step. A text is reduced to its words with their case, whether the
pattern matches it and which places breach the schema; an embedding to its length, its
direction and what rounding takes away.

**Configuration** is a session of edits around one recording. `Valid` is
`EvalConfig::validate`, `ScorersBuild` and `KeyResolves` are the factories, `Exchange`
is the request a target sends with the part of the response it reads, and `Identity`
is `cache_identity`; the last two are translated from different functions of the
code, and `RecordingFits` is about their agreement.

**Report** takes a run and its baseline (or two arms) case by case, and has one
operator per reporter, and one for each form of a matrix, which takes the gate results of
every arm. A document is a record of the marks, counts and reasons it
states; what a reporter leaves out (a passing case under `--quiet`, the reason of a passing
score, a group of the baseline without lines) is missing from the domain of a function over
the places in the run, so that its order is that of the dataset. `Diff` and
`BaselineSection` are `compare` of `baseline.rs` and what is said of it; a group of lines is
the set of its ids, which a run holds once each.

**Presentation** is one command from the first tick to the last hint: `TickFrame`,
`EndSuite` (the clearing of the line), `WarnOrNot`, `PrintReport`, `PrintSection`, `SaveNote`,
`PrintVerdict`, `PrintHints`. `Options` ranges over flags, environment and what the
streams are.

**Viewer** interleaves a reader (`GetIndex`, `GetRun`, `GetDiff` and `FinishDiff`, one
action for each SQL statement) with runs that append rows (`AppendRow`), some of which do not parse.
The trend picks the places of the listing that have a count, and finds each by its rank.

**Verdicts** puts these ten side by side; a behaviour is about one of them, its
`subject`, so their state spaces add up.

## The runs

| Run | Instance | What it shows |
|---|---|---|
| `engine_window` | 5 cases, window 3, costs 0..4 grains of half a micro-USD, budget 4 grains | `InFlightBound`, `SkippedSuffix`, `SpendBound`, `TickPerCase`; `ImplementsSequentialRun`; `EventuallyReturns` |
| `engine_budget` | 3 cases of one grain, window 1, budget 2 grains | *violation* of `StopsAtBudget` |
| `cassette` | 2 cases, 1 or 2 trials, 2 processes of any mode, 1 kill, budget 2 | `ReplayReproduces`, `RecordedOnce`, `AnsweredIsRecorded` |
| `cassette_same_input` | 2 cases with the same input, in flight together | *violation* of `ReplayReproduces` |
| `live_retries` | bodies that must parse and raw ones, 7 attempts, timeout 1 s, `Retry-After` to 2 s | `AttemptsExact`, `ElapsedBound`, `VerdictIsDue`, `CallReturns` |
| `live_raw` | an `http` target without `response_path` | *violation* of `OkIsWhole` |
| `child_fits` | pipes of 2 units, payload of 5 | `VerdictIsStatus`, `OutputWhole`, `CommandReturns` |
| `child_large` | the same with a payload of 6 and a filter | *violation* of `CommandReturns` |
| `command_store` | save, then save or roll, then one of seven commands; two at a time | `ExitZeroMeansAccepted`, `ComparesWithNewest`, `SavedIffFinished`, `HistoryComplete`, `ReplayOffline` |
| `command_replay` | each single-target suite under `--cache replay` | *violation* of `ReplayOffline` |
| `command_ids` | two dataset files whose cases have default ids | *violation* of `ExitZeroMeansAccepted` |
| `verdicts` | 2 scorers, 3 trials, 2 scores and an error | `VerdictFollowsPolicy`, `FailureIsTraceable`, `CostIsBilled` |
| | 4 cases, 2 expected labels and a stray one | `FixingHelps`, `CasesCountOnce` |
| | 3 spans, timed or not; 5 calls of 3 tools | `WriteOrderIrrelevant`, `LastWordIsGraded`; `RulesSettle` |
| | 3 arms over 2 cases, means of 0 to 3 tolerances | `NewArmGivesNoWins` |
| | 2 gradings: 3 cases, 2 outputs, 2 trials, 4 cache modes, 3 judge replies, 3 embeddings, failed lookups and calls | `GradesStand`, `ExactIsStrictest` |
| | a draft, an edit before or after the recording, one or two targets | `RecordingFits`, `RequestsAreMeant`, `FullMarksAreAccepted` |
| | 3 case ids, 8 kinds of result, two runs | `ReportersAgree`, `RefusalIsShown` |
| | 2 ticks, all flags, 5 environments, single, baseline and matrix | `StreamsKeepApart` |
| | 3 rows of 2 targets, empty and unreadable ones, a trend of 2 | `ListingIsHistory`, `LinksKeepTheirWord` |

The last nine lines are one run, one line for each subject or two. Types are not
among the properties of the runs where they are proved (see below); those of the ten
parts are in the inductive invariants of VerdictProofs and SessionProofs.

Why the bounds are enough:

* `engine_window`: a window of three has a head, a middle and a last case that can
  finish in every order, and two cases wait outside. Costs reach from free through
  a fraction of a micro-USD to the whole budget, so the budget trips before,
  between and after every pair of dispatches. The proofs remove the bounds for all
  but liveness.
* `cassette`: two cases are the least that interleave, two trials the least that
  can confuse keys, two processes the least with something to replay; the kill may
  come in either of them. Distinct inputs here, equal ones in `cassette_same_input`.
  `--cache off` has no `CachedTarget`; it is RunEngine.
* `live_retries`: six retries pass the point where the doubling is capped. A timeout
  of two ticks lets every event come before, at, or after half of it. The proofs
  hold for every timeout and number of retries.
* `child_fits` / `child_large`: with pipes of P units the critical payload is 2P + 1
  (both pipes full and one unit in the command); the two runs are on its two sides,
  and `WhatFitsNeverJams` has the bound for every P.
* `command_store`: a baseline, its replacement, and a reader that overlaps with the
  writer; two cases let one regress while another is fixed. A matrix of two arms
  has an arm to fail before and after.
* `verdicts`, folds: three trials are the least with a majority that is neither one nor
  all; four cases the least in which fixing one moves precision and recall of two
  classes against each other; three spans are two rivals and a parent that may be
  there or not; rules compare at most two positions in a trace; three arms are the
  least in which closeness is not transitive.
* `verdicts`, the rest: two gradings are a verdict and its repetition, in another trial,
  in a process of another mode, or at the same time, or two scorers over one text; each has
  at most two calls, and every lookup and every answer of one may come before, between and
  after those of the other. Two of the cases differ in their context alone. The disagreement of a
  request with an identity shows in two texts of a target, so one edit is enough, and
  a second target is added for a matrix; the drafts and texts differ from each other in
  one or two fields, over every field. Cases are reported independently but for
  counts and for presence in the other run, so three ids have one that is kept, one
  added and one removed. Two ticks are a frame to overwrite and a last one; a matrix
  has two suites. Three rows are two runs of one target with another one between
  them, and one more than the trend shows.

Fairness. Safety runs assume none. `EventuallyReturns` assumes that the engine's
task is polled while it can move (the Tokio runtime), and that every `run_case`
returns. For HTTP-shaped targets the latter is `CallReturns` of LiveCall, which
assumes only that time passes and timers fire, nothing of the endpoint. For a
shell target or a subprocess scorer the code has no timeout: it is an assumption
on the user's command, which ChildProcess makes explicit as weak fairness of a
command that works while it can and exits when it has done its work; even so it
does not hold for large payloads (`child_large`). `--cache` changes nothing here, as
a lookup is a bounded piece of code.

## Disagreements found

Each is a run that TLC must find violated, and an entry of `findings`.

1. `engine_budget` (engine.rs:141): costs are cut to whole micro-USD per case, so a
   suite of cases that each cost less never reaches its budget.
2. `cassette_same_input` (store lib.rs:295): two cases with one input in flight
   together both miss and both record; replay shows one answer where the recording
   run reported two.
3. `live_raw` (http_target.rs:178): a raw body that breaks off is a successful empty
   answer, against the comment above it.
4. `child_large` (target.rs:140, subprocess.rs:80): all of the input is written before
   any output is read; a filter and a large payload wait for each other for ever.
5. `command_replay` (main.rs:374): a similarity scorer does not open the store, so with
   a local target its embeddings are fetched live under `--cache replay`.
6. `command_ids` (main.rs:400, dataset.rs): ids are unique per file only; a regression
   can hide behind a case of the same id and the command exits 0.

Met on the way, in texts or wording that the models leave out:

* With trials, a failing case gives every scorer a failing score; one that passed in
  every trial that answered is reported as failed without a reason, and the errored
  trial is not named (engine.rs:279-292, against the trials guide, "names the scorer
  and the first failing trial").
* The docs (cache-and-determinism.md:16-18, record-replay.md:178-179) and
  main.rs:361-365 say that a purely local run creates no `.evalcore/`; run history, on
  by default, creates it. "Two tables" (cache-and-determinism.md:20) are three.
* The latency of a trace is said to be `max(end) - min(start)` (trajectory-spec.md:93);
  trace.rs:116 takes both only from spans that have both, so an export with an
  unfinished span reports less.
* A budget under replay behaves "consistently" (cost-and-budgets.md) only with a
  concurrency of one: with more, the cases finish in another order and others may be
  skipped. `SpendBound` and `ImplementsSequentialRun` bound the difference.
* An `{{input}}` in a *key* of an `http` body satisfies the check that every case sends
  another request (evalcore-config lib.rs:274-284), but `substitute_body`
  (http_target.rs:231) replaces in values only: all cases then send the same.
  `RequestsAreMeant` exempts it.
* `auth_header: Content-Type` on an `http` target with a body is accepted: validation
  compares the key's header with the static ones (evalcore-config lib.rs:299-314), but
  `attempt` adds a content type of its own if no static one is there
  (http_target.rs:128-135), so the request carries two. `RequestsAreMeant` exempts this
  one line, and a target written so is among those of the run.
* A judge's reply that is no verdict was paid for, but the scorer's error carries no
  cost (judge.rs:128-147): neither the report nor the budget counts it.
* `budget_usd: .nan` passes `budget <= 0.0` (evalcore-config lib.rs:88) and then never
  stops a run (engine.rs:117); the gates' and thresholds' range checks refuse NaN.
* `/diff` of runs over different cases marks a case that one run lacks as FAIL, and lists
  only the cases of the first (older) run: that is `compare_arms`, made for
  arms over one dataset. The report of a baseline has words for added and removed.
* The `try_lock` of a progress frame (ui.rs:208-211) is never contended: the sink is called
  from the one task that polls the cases.
* An attempt that timed out may have been served and billed; its retry pays again, and
  only the last attempt's tokens are seen (target.rs:263). What the endpoint bills is
  outside every model here.

## Proofs

Checked by TLAPS for all values of the constants. Every safety property that a run
expects to hold is a theorem. They assume no more than the named `ASSUME`s of the
modules, which TLC evaluates on every run:

* what validation enforces: at least one case, scorer and trial, a positive budget and
  timeout, natural retries and concurrency, thresholds and floors in their range;
* what a type says: the shapes of texts, results, spans and configurations
  (`WrittenAssumption`, `ResultKindsAssumption`, `SpansAssumption`, `CasesAssumption`,
  `TextsAssumption`, `SummariesAssumption`), a script of sets of invocations, pipes that hold
  something;
* that a marker for "nothing" is none of the things: `NoCost` no number, `NoTool` no tool,
  `Absent` no label, `Corrupt` no summary, `Failed` no reply, `Unset` no target type;
* of floating point, that the rounding of two vectors stays within the tolerance
  (`RoundingAssumption`, which similarity.rs states of its tolerance);
* of a bound of the model, that `MaxCost` covers a case whose every trial is paid
  (`PricesAssumption`);
* that there is something to configure, print and report (`SomeAssumption`).

Where a theorem needs more, it says so in its own ASSUME (`DistinctInputs`,
`StoreWhereReplayed`, `DistinctIds`), and a *violation* run shows what happens without it.

**RunEngineProofs**: `RunInvariant`, and from it `TypeCorrect`, `LifecycleCorrect`,
`InFlightBounded`, `SkippedSuffixHolds`, `SpendBounded`, `TickPerCaseHolds`. None of
the properties is inductive alone; `RunInv` adds three parts.

* `CursorBound` (`started <= yielded + Window`) bounds the number of running cases
  through `Lifecycle`: the running ones lie between the cursors.
* `SkipsExhausted`: a skipped case means that the budget *is* exhausted. With the
  accumulator never shrinking (`ExhaustedStays`) no later dispatch can happen, which
  makes `SkippedSuffix` inductive.
* `SpendPledged`: what is spent plus `MaxCost` for each running case stays below the
  budget plus `Window` full cases. `Dispatch` pledges one more case but finds
  `spent < Budget` and a free place in the window; `Finish` turns a pledge into at
  most as much spending (`SpendStep`, where the cast rounds down). `SpendBound` is
  this without the pledges.

`TickPerCase` is preserved given `RunInv`, as each completed case is new in
`Completed`.

The same module, from *Refinement* on: `EngineIsSerial`, for every number of cases, window and budget:
what is collected starts empty, and each step of the engine leaves it alone or (`Yield`)
is a step of the serial loop with `Staleness = Window - 1`. `SerialInv` adds three parts
to `RunInv`.

* `Unbilled`: a case that did not run, or has not finished, has cost nothing.
* `SpentIsRecorded`: the accumulator is the recorded spend of all cases, so a prefix of
  completed cases in front of unfinished ones accounts for no more than `spent`.
* `DispatchedInTime`: a case that is dispatched or ran found budget left by the cases
  a full window in front of it; these had finished, whatever the order of completion.

Totals are prefix sums, a function by recursion on the prefix. What holds of all prefixes
is shown by taking the least one for which it fails (`CaseInduction`), as the library's
induction theorem is out of the provers' reach.

**LiveCallProofs**: `CallInvariant`, and from it `CallTypeCorrect`, `AttemptsCounted`,
`ElapsedBounded`, `VerdictsAreDue`. `CallInv` says that the requests sent are the
retries plus one, and the retries below `max_retries` while the call sleeps; that
`now + left` never exceeds what was granted, and that what was granted is at most
one timeout per request and one longest pause per retry; and that the verdict is
honest about the body last read: a call that stopped for good had an answer for good, one
that sleeps or gave up had none. It does not follow that a successful raw body is whole, which
`live_raw` refutes.

**RecordReplayProofs**, for every number of cases, trials, processes and kills. First
what holds whatever the inputs. `ShapeInv` adds two parts to the types (`ReplayTypeCorrect`):
`Fresh`, a case that was not dispatched is idle, and `Slots`, a case about to call has a
trial left and replay has nobody "live". It bounds the cost of a case (`CallCostType`: at
most `MaxTrials` prices, which `PricesAssumption` keeps within `MaxCost`), so each step
is one of the engine's, the start of a process, or leaves the engine alone
(`EngineMoves`). Therefore `EveryRunKeepsTheEngine` (window, budget, ticks) and
`EveryRunIsSerial` (each run collects what the serial loop could have produced): the
results of RunEngineProofs, whose `Finish` reports any cost, hold of what the cassette,
the trials and the kills really make of a run.

Then the cassette: `ReplayInvariant`, and from it `AnswersAreRecorded`,
`ReplayIsFaithful`, `RecordedOnlyOnce`. They assume `DistinctInputs`: no two cases have
the same input, hence no two callers the same key (`KeyUnique`). Without it
`ReplayIsFaithful` and `RecordedOnlyOnce` are false (`cassette_same_input`). Besides
what the property `AnsweredIsRecorded` says, `ReplayInv` needs:

* `NotYetRecorded`: under `auto`, the key of a call in flight is still free. It is
  what the lookup found, and only the holder of a key can fill it: this is the
  check-then-act of lib.rs:295, and the step that needs distinct inputs;
* `LastRecorded`: what the last report shows is in the cassette, unless `--cache live`
  is overwriting it; with `ReplayReads` (answers under replay are the cassette's) it
  gives `ReplayReproduces` as soon as the replaying run has started: the trial has the
  recorded answer, or `Failed` from a lookup that failed, and it is never a miss.

**ChildProcessProofs**: `ChildInvariant`, and from it `ChildTypeCorrect`,
`VerdictFollowsStatus`, `OutputIsWhole`, for every size of pipe, payload and
answer. `ChildInv` ties the stage of the caller to that of the command (`Phases`), says
that a closed stdin lies behind the whole payload (`Delivered`), that a filter is at most one
unit behind (`Copied`), and what each verdict means (`Judged`).

Three more theorems say when caller and command wait for each other for ever
(disagreement 4). `Jammed` is the state where both pipes are full, the caller is still
writing and the command wants to print. `WhatFitsNeverJams`: it is unreachable if a
filter's input is at most 2P + 1 units, for pipes of P, and a command that does not read
has its answer or its input fit one pipe; a "collector" never jams. `JamsForGood`: once
there, no step but the command's own failure leads out, as the caller has no timeout.
`OnlyJamsStandStill`: in every other state before the end the guard of a step of the
caller or the command holds (`CallerCanMove`, `CommandCanMove` are the guards written
out, as `ENABLED` is out of the prover's reach). So the two runs show the general case.
That steps which can be taken are taken, and the call returns, stays with TLC.

**RunCommandProofs**: `CommandInvariant`, and from it `CommandTypeCorrect`,
`BaselineIsNewest`, `SavesOnceWhenFinished`, for every script and every overlap of its
commands; and `ReplayStaysOffline`. `CommandInv` needs, beyond types and
`ComparesWithNewest` itself, `Course` (a command at a stage wants it and has what it
needs: suites left to run, an open store) and `Rows` (nobody saves twice; who
saved is at or past its verdict; who is past it with `--save-baseline` has
saved). `ReplayStaysOffline` assumes `StoreWhereReplayed`: every replayed invocation with a similarity
scorer opens the store for another reason. So disagreement 5 is the only way out
to the network under replay.

The same module goes on with `VerdictInvariant`, and from it `EverySuiteIsLogged` and
`ExitZeroIsEarned`, for every script and every overlap. `VerdictInv` adds for each command
`Progress` (one that reports has run all its arms; `compared` is set exactly for those
that were asked to compare and are past it) and `Logged` (rows plus warnings are as many
as its suites, one less at stage `history`; the kth of its rows holds its kth suite, as
long as no write failed). Rows of overlapping commands interleave in one table, so
`RowsBy` counts a command's own and `RowsByAppend` says what one row more does to every
count. `ExitZeroIsEarned` assumes `DistinctIds`: then at most one case of an id fails, on
either side of the diff, and `compare`, which keeps the last result of an id, keeps the
only one. Disagreement 6 (`command_ids`) is what happens otherwise. `DistinctIds` also
says that the ids of a suite are a sequence of strings, which holds of all
invocations but by recursion (`FlattenSeq`).

**DataLemmas** has what the library lacks or states with an operator as parameter: the
least and greatest of a set of numbers; induction over a set of numbers and over the subsets
of a finite set, for a *set* of those for which the claim holds; the image of a finite set;
cardinalities of parts and differences; and `SumFunction`: that it is a fold in any order,
that it splits, follows a renaming of its domain, grows with its terms, and is zero if they are.

**VerdictProofs**, about what is made of a run's outputs. A part's state is the data it
was given, so what is inductive is mostly a type, and the argument is one about data of any
size.

* `PolicyDecides`: passing and failing trials partition the trials, every score of the
  fold carries the verdict, and an error is set only when no trial passed.
  `FailuresAreTraced` reads the reasons of the same fold, by `BlameIsFirst`.
* `CostsAddUp`: `BilledInv` says that `billed` is the sum of the bills of the trials, one
  by one. The case adds up outputs and scores in two other orders, so both are taken
  apart into slips, one for each trial and payee, and slips without a price add nothing.
* `VerdictsOnCallsStand`: the first place of a tool stays where it is as calls are added.
* `NoWinsFromCompany`: who wins among more arms wins among fewer (`WinnerAmongFewer`),
  although closeness to the best is not transitive.
* `LastWordWins`, `AnyWriteOrder`: `Precedes` orders the spans strictly, so ranks are the
  places 1..n (`RanksArePlaces`) and sorting is a bijection; where the starts are distinct
  the rank of a span depends on no place (`RankByStart`), and a permutation of the
  export leaves the sorted sequence as it is.
* `RightAnswersHelp`, `ErrorsSinkGates`: fractions are compared crosswise. F1 becomes one
  fraction `2c / (s + p)` of the three counts of its class (`F1IsHarmonic`), which one
  case moves in a known way (`CountSwap`, `CountAppend`); macro-F1 is a sum over classes
  that grows with its terms (`FractionSumGrows`, where `<<0, 1>>` is neutral) over a number of
  classes that a first errored case may raise (`MacroCompares`); a gate compares the
  metric with its floor, and order is transitive on fractions (`ClosedGates`).

**SessionProofs**, about what surrounds a run.

* `RecordingsFit`, `RequestsMeanTheFile`, `FullMarksSuffice`: `ConfigInv` says that the file
  has its shape after any edit and that only targets of accepted configurations were
  recorded (`Callee`). Then equal identities determine the fields of the exchange: no
  parameter is one of the reserved fields, and what is left out of one is left out of both.
* `StreamsApart`: `PresentationInv` says for each stage what has been written where.
* `LinksAreKept`, `ListingsAreKept`: rows are only appended (`Grows`), so what a line, an open
  page or a half-loaded diff says of rows below its own stays true (`ViewerInv`); and a
  place of the trend is the one with as many places behind it (`PlaceByRank`).
* `VerdictsAreReplayed`, `LaxerScorersAgree`: `ScorersInv` says that a grading in flight or
  done is what its scorer makes of what it heard (`GradingOk`); that what it heard is in the
  cassette under its keys unless the cache is off or something was recorded there since
  (`Backed`, which every `Answer` keeps because it marks as stale whom it contradicts:
  `RecordStep`); that each reply to a judge in the cassette was recorded by a done grading of
  the same question (`ChatsVouched`, as a prompt determines its parts: `ChatsDiffer`); and
  that a judge answered from the cassette heard such a reply (`HitVouched`). Two verdicts
  that stand (`Standing`) then heard the same replies. Of a text that is its own
  expectation both vectors are the entry of one key, if the grading stands; that is all that
  makes them equal. That an order of violations does not matter is `SchemaIsOrderFree`.
* `ReportsTellTheSame`, `RefusalsAreTold`: `ReportInv` says that both runs have ascending ids
  (so the last of an id is the only one) and results as the engine folds them. The
  difference of the headlines counts three disjoint parts of the failing cases on each side.
* `PartsKeepTheirSpecs`: Verdicts, in which a behaviour has one subject, implements the
  specification of each of its ten parts, the subject's by its steps and the others' by
  stuttering. `EveryPartIsCorrect` puts it together with the theorems above: what the
  run `verdicts` checks on an instance holds of `Verdicts!Spec` for every value of
  the constants.

Only model-checked: `EventuallyReturns`, `CallReturns` and `CommandReturns`, as liveness
under fairness is out of the prover's reach, and with them the fairness part of
`ImplementsSequentialRun`, whose safety part is `EngineIsSerial`. The recursion that assigns
the ids of several dataset files (`FlattenSeq`) is not reasoned about; `DistinctIds` says what
the theorem needs of it.

## What is left out

* Contents of prompts, answers, reports and reasons. An answer is what it costs
  (RecordReplay), a label, a verdict and a value (Verdicts).
* f64 arithmetic. Costs are integers, means and metrics exact fractions, folded in any
  order, and nothing is rounded. The tolerance of 1e-9 in gates, which repairs rounding, is left out; that of
  the winners is one unit of the scores in MatrixVerdict.
* Two-process use of one *cassette* by targets: RecordReplay runs processes one after
  another. In Scorers the calls of several processes interleave on it, and two commands at a
  time are in RunCommand, at the grain of SQL statements. WAL and
  the five-second lock timeout of SQLite show only as statements that may fail.
* A cassette corrupted from outside, but for lookups that fail because of it. The calls
  of scorers are in Scorers and those of targets in RecordReplay: their identities differ, so
  neither finds what the other recorded.
* Syntax: YAML and JSON, unknown fields, the shape of cases and spans, the attribute
  names that make a span a tool call, the native trace format, which is taken verbatim.
  Which of several mistakes of a configuration is named first.
* In reports: classification tables, trajectories, tokens and costs, escaping, layout,
  wording. In the viewer: malformed requests (400, 404, 405 without a row), which change
  nothing.
* The judge's prompt is the tuple of its parts: that two cases could be worded so that
  their prompts coincide is not considered, nor a collision of hashes.
* Shims, the GitHub action and the site: adapters of other tools, packaging and prose.
* A shell command that never exits: nothing in the code ends it (target.rs:151). The
  models assume that it exits when it has done its work; `child_large` shows that
  even this is not always enough.
* Stderr of a child process, which is drained with stdout.

## Plan

Done so far, in this order: the engine and its abstract specification, proofs of
its invariants; the cassette over the engine; live calls with their proofs; child
processes; the command over the store; the verdicts, the traces they are given and the
matrix they are compared in; configuration, scorers, reports, presentation and viewer;
proofs of the cassette, the child processes, the command and the refinement; proofs of the
verdicts and of what surrounds a run, part by part and put together.

Left: the native trace format and the shape of cases, if they gain behaviour of their own.
