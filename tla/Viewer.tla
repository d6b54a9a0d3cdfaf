-------------------------------- MODULE Viewer --------------------------------
(***************************************************************************)
(* `evalcore serve` (src/crates/evalcore-serve): pages over the run_history*)
(* table, which runs keep appending to while the pages are open in a       *)
(* browser.  The reader loads the listing, and later follows a link of it. *)
(*                                                                         *)
(* A row is its target and its summary, of which the verdicts of the cases *)
(* are kept, or Corrupt where it no longer parses; the id of a row is its  *)
(* place in the table.  Every statement of the store is one step; /diff    *)
(* makes two.  Dates, the config's path and costs are left out.            *)
(***************************************************************************)
EXTENDS Integers, Sequences, FiniteSets, SequencesExt, FiniteSetsExt

CONSTANTS
  RowTargets,     \* names of targets
  Summaries,      \* sequences of verdicts
  Corrupt,        \* a summary that does not parse
  MaxRows,        \* bound on the rows
  SparklineRuns,  \* SPARKLINE_RUNS
  Nothing         \* no listing loaded, no page open

ASSUME SummariesAssumption == Summaries \subseteq Seq(BOOLEAN) /\ Corrupt \notin Summaries
ASSUME SparklineAssumption == SparklineRuns \in Nat \ {0}

VARIABLES
  rows,     \* the run_history table
  listing,  \* the listing the reader has open, or Nothing
  page,     \* the page a link has led to, or Nothing
  pending   \* a /diff whose first arm is loaded, or Nothing

viewerVars == <<rows, listing, page, pending>>

PassedOf(summary) == Len(SelectSeq(summary, LAMBDA v : v))
Counts(summary) ==
  [passed |-> PassedOf(summary), failed |-> Len(summary) - PassedOf(summary),
   total |-> Len(summary)]

-----------------------------------------------------------------------------
(* The store's readers. *)

Meta(id) == [id |-> id, target |-> rows[id].target, summary |-> rows[id].summary]

ListRunsSlip ==
  LET readable == SelectSeq([id \in DOMAIN rows |-> Meta(id)], LAMBDA m : m.summary # Corrupt)
  IN Reverse(readable)
(* Newest first; a row that does not parse is one of the list.             *)
ListRuns == Reverse([id \in DOMAIN rows |-> Meta(id)])

(* load_run: at most one row.                                              *)
LoadRun(id) == IF id \in DOMAIN rows THEN {Meta(id)} ELSE {}

-----------------------------------------------------------------------------
(* The listing. *)

PreviousSlip(runs, k) ==
  LET same == {j \in DOMAIN runs \ {k} : runs[j].target = runs[k].target}
  IN {runs[j].id : j \in {n \in same : \A m \in same : n <= m}}
(* The nearest older run, further down the list, of the same target.       *)
PreviousSameTarget(runs, k) ==
  LET older == {j \in k + 1 .. Len(runs) : runs[j].target = runs[k].target}
  IN {runs[j].id : j \in {n \in older : \A m \in older : n <= m}}

(* push_row: counts or an error, and the diff link (`a` the older).        *)
Entry(runs, k) ==
  [run |-> runs[k].id,
   target |-> runs[k].target,
   counts |-> IF runs[k].summary = Corrupt THEN {} ELSE {Counts(runs[k].summary)},
   diff |-> {[a |-> old, b |-> runs[k].id] : old \in PreviousSameTarget(runs, k)}]

HasRate(run) == run.summary # Corrupt /\ run.summary # <<>>
Rate(run) == <<PassedOf(run.summary), Len(run.summary)>>

(* Of the newest rows those with a rate, oldest first; nothing below two.  *)
Sparkline(runs) ==
  LET plotted == {k \in 1 .. Min({SparklineRuns, Len(runs)}) : HasRate(runs[k])}
      Place(n) == CHOOSE k \in plotted : Cardinality({j \in plotted : j >= k}) = n
  IN IF Cardinality(plotted) < 2 THEN <<>>
     ELSE [n \in 1 .. Cardinality(plotted) |-> Rate(runs[Place(n)])]

IndexPage(runs) ==
  [entries |-> [k \in DOMAIN runs |-> Entry(runs, k)],
   sparkline |-> IF runs = <<>> THEN <<>> ELSE Sparkline(runs)]

-----------------------------------------------------------------------------
(* Run detail and diff. *)

NotFound == [status |-> 404]
ServerError == [status |-> 500]

RunPage(id) ==
  IF LoadRun(id) = {} THEN NotFound
  ELSE LET meta == CHOOSE m \in LoadRun(id) : TRUE
       IN IF meta.summary = Corrupt THEN ServerError
          ELSE [status |-> 200, run |-> id, counts |-> Counts(meta.summary)]

(* load_arm: the arm "run #id (target)", or the page that says why not.    *)
LoadArm(id) ==
  IF LoadRun(id) = {} THEN NotFound
  ELSE LET meta == CHOOSE m \in LoadRun(id) : TRUE
       IN IF meta.summary = Corrupt THEN ServerError
          ELSE [status |-> 200, arm |-> [run |-> id, target |-> meta.target,
                                         counts |-> Counts(meta.summary)]]

-----------------------------------------------------------------------------

ViewerInit == rows = <<>> /\ listing = Nothing /\ page = Nothing /\ pending = Nothing

(* `evalcore run`, of this version or another.                             *)
AppendRow(target, summary) ==
  /\ Len(rows) < MaxRows
  /\ rows' = Append(rows, [target |-> target, summary |-> summary])
  /\ UNCHANGED <<listing, page, pending>>

GetIndex ==
  /\ pending = Nothing
  /\ listing' = [targets |-> [k \in DOMAIN rows |-> rows[k].target], shows |-> IndexPage(ListRuns)]
  /\ page' = Nothing
  /\ UNCHANGED <<rows, pending>>

Listed == IF listing = Nothing THEN {} ELSE Range(listing.shows.entries)

GetRun(entry) ==
  /\ pending = Nothing
  /\ page' = [of |-> "run", from |-> entry, shows |-> RunPage(entry.run)]
  /\ UNCHANGED <<rows, listing, pending>>

(* /diff loads the two arms one after the other and stops at the first it  *)
(* cannot show.                                                            *)
GetDiff(entry, link) ==
  /\ pending = Nothing
  /\ LET a == LoadArm(link.a) IN
       IF a.status = 200
       THEN pending' = [from |-> entry, link |-> link, a |-> a] /\ page' = Nothing
       ELSE page' = [of |-> "diff", from |-> entry, shows |-> a] /\ UNCHANGED pending
  /\ UNCHANGED <<rows, listing>>

FinishDiff ==
  /\ pending # Nothing
  /\ LET b == LoadArm(pending.link.b) IN
       page' = [of |-> "diff", from |-> pending.from,
                shows |-> IF b.status = 200
                          THEN [status |-> 200, arms |-> <<pending.a.arm, b.arm>>] ELSE b]
  /\ pending' = Nothing
  /\ UNCHANGED <<rows, listing>>

ViewerNext ==
  \/ \E target \in RowTargets, summary \in Summaries \cup {Corrupt} : AppendRow(target, summary)
  \/ GetIndex
  \/ \E entry \in Listed : GetRun(entry) \/ \E link \in entry.diff : GetDiff(entry, link)
  \/ FinishDiff

-----------------------------------------------------------------------------

(* The listing is the history as it was: every row has its line, newest    *)
(* first, an unreadable one with an error and no other line changed by it; *)
(* the trend shows what the listed counts of the newest rows say, oldest   *)
(* first, and no unreadable row as a failing one.                          *)
ListingIsHistory ==
  listing # Nothing =>
    LET entries == listing.shows.entries
        Told(k) == {c \in entries[k].counts : c.total > 0}
        newest == {k \in DOMAIN entries : k <= SparklineRuns /\ Told(k) # {}}
        points == listing.shows.sparkline
    IN /\ Len(entries) = Len(listing.targets)
       /\ \A k \in DOMAIN entries :
            /\ entries[k].run = Len(entries) + 1 - k
            /\ entries[k].target = listing.targets[entries[k].run]
            /\ entries[k].counts = {} <=> rows[entries[k].run].summary = Corrupt
       /\ points # <<>> <=> Cardinality(newest) >= 2
       /\ points # <<>> => Len(points) = Cardinality(newest)
       /\ \A k \in newest : points # <<>> =>
            LET c == CHOOSE t \in Told(k) : TRUE
                younger == {j \in newest : j < k}
            IN points[Len(points) - Cardinality(younger)] = <<c.passed, c.total>>

(* A link of a listing keeps its word however many runs were recorded since*)
(* it was loaded: the run's page has the counts of its line (an error where*)
(* the line has one, never "not found"), and the diff has on its left the  *)
(* latest run before it of the same target, if that can be read.           *)
LinksKeepTheirWord ==
  page # Nothing =>
    LET from == page.from shows == page.shows IN
      IF page.of = "run"
      THEN IF from.counts = {} THEN shows = ServerError
           ELSE shows.status = 200 /\ shows.run = from.run /\ {shows.counts} = from.counts
      ELSE /\ shows # NotFound
           /\ shows.status = 200 =>
                LET a == shows.arms[1] b == shows.arms[2] IN
                  /\ b.run = from.run /\ {b.counts} = from.counts
                  /\ a.target = b.target /\ a.run < b.run
                  /\ \A id \in a.run + 1 .. b.run - 1 : rows[id].target # b.target
           /\ shows = ServerError =>
                \E id \in 1 .. from.run :
                  rows[id].summary = Corrupt /\ rows[id].target = from.target
=============================================================================
