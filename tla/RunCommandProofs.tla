--------------------------- MODULE RunCommandProofs ---------------------------
(***************************************************************************)
(* What RunCommand guarantees for every script of invocations and every    *)
(* overlap of the commands.  CommandInv is inductive: beyond types it says *)
(* what a command must have done to be where it is (Course), whose the     *)
(* rows of the baseline table are (Rows), and which of them were there     *)
(* when (Compared).                                                        *)
(*                                                                         *)
(* From "Exit code and history" on: what the exit code means and what the  *)
(* history holds.  To CommandInv is added, for each command, how far it    *)
(* has come (Progress) and what it has left in the history (Logged).       *)
(***************************************************************************)
EXTENDS RunCommand, SequenceTheorems, FiniteSetTheorems, TLAPS

(* Stage s is reached by a command n that wants it and has what it needs:  *)
(* a suite left to run, one that was run (its arms are a), an open store.  *)
Reaches(n, s, a, opened) ==
  /\ s \in {"target", "store", "scorers"} => a = <<>>
  /\ s = "suite" => Len(a) < Len(cmd[n].targets)
  /\ s \in {"history", "report", "baseline", "html", "save", "verdict", "done"} => a # <<>>
  /\ s = "baseline" => cmd[n].baseline
  /\ s = "save" => cmd[n].save
  /\ s \in {"scorers", "suite", "history", "report", "baseline", "html",
            "save", "verdict"} /\ NeedsStore(cmd[n]) => opened

Course == \A n \in Started : Reaches(n, stage[n], arms[n], open[n])

(* A command saves once, as its last act before the verdict.               *)
Rows ==
  /\ \A j, k \in DOMAIN runs : runs[j].by = runs[k].by => j = k
  /\ \A k \in DOMAIN runs : stage[runs[k].by] \in {"verdict", "done", "killed"}
  /\ \A n \in Started : stage[n] \in {"verdict", "done"} /\ cmd[n].save =>
       \E k \in DOMAIN runs : runs[k].by = n

CommandInv == TypeOK /\ Course /\ Rows /\ ComparesWithNewest

-----------------------------------------------------------------------------
(* Sequences as functions on 1 .. n.                                       *)

LEMMA Extend ==
  ASSUME NEW S, NEW n \in Nat, NEW f \in [1 .. n -> S], NEW e \in S
  PROVE  /\ Append(f, e) \in [1 .. n + 1 -> S]
         /\ \A k \in 1 .. n : Append(f, e)[k] = f[k]
         /\ Append(f, e)[n + 1] = e
<1>1. f \in Seq(S) /\ Len(f) = n
  OBVIOUS
<1>2. /\ Append(f, e) \in Seq(S) /\ Len(Append(f, e)) = n + 1
      /\ \A k \in 1 .. n : Append(f, e)[k] = f[k]
      /\ Append(f, e)[n + 1] = e
  BY <1>1, AppendProperties
<1>3. Append(f, e) \in [1 .. n + 1 -> S]
  BY <1>2, LenProperties
<1>. QED
  BY <1>2, <1>3

LEMMA InvokedType ==
  /\ Invoked \subseteq Invocation
  /\ \A k \in 1 .. Len(Script) : Script[k] \subseteq Invoked
BY ScriptAssumption DEF Invoked, Range

(* What comes after the report.                                            *)
LEMMA AfterType ==
  ASSUME NEW c, NEW s
  PROVE  /\ After(c, s) \in {"baseline", "html", "save", "verdict"}
         /\ After(c, s) = "baseline" => c.baseline
         /\ After(c, s) = "save" => c.save
         /\ After(c, s) = "verdict" => ~c.save
         /\ s # "report" => After(c, s) # "baseline"
BY DEF After

LEMMA CommandInit == Init => CommandInv
<1>. SUFFICES ASSUME Init
              PROVE  CommandInv
  OBVIOUS
<1>1. Started = {} /\ Len(cmd) = 0 /\ Len(runs) = 0 /\ DOMAIN runs = {}
  BY DEF Init, Started
<1>2. Len(Script) \in Nat
  BY ScriptAssumption
<1>3. TypeOK
  BY <1>1, <1>2 DEF Init, TypeOK
<1>4. Course /\ Rows /\ ComparesWithNewest
  BY <1>1 DEF Course, Rows, ComparesWithNewest
<1>. QED
  BY <1>3, <1>4 DEF CommandInv

-----------------------------------------------------------------------------

(* A command that is started finds the rows that are there and has done    *)
(* nothing.                                                                *)
LEMMA StartKeeps ==
  ASSUME CommandInv, Len(cmd) < Len(Script), NEW c \in Script[Len(cmd) + 1], Start(c)
  PROVE  CommandInv'
<1>. USE DEF CommandInv
<1> DEFINE N == Len(cmd)
<1>1. /\ N \in Nat /\ Started = 1 .. N /\ Len(Script) \in Nat
      /\ c \in Invoked /\ c \in Invocation
  <2>1. /\ N \in Nat /\ Started = 1 .. N /\ Len(Script) \in Nat
    BY ScriptAssumption DEF TypeOK, Started
  <2>2. Len(cmd) + 1 \in 1 .. Len(Script)
    BY <2>1
  <2>. QED
    BY <2>1, <2>2, InvokedType
<1>2. /\ cmd' \in Seq(Invoked) /\ Len(cmd') = N + 1 /\ Started' = 1 .. N + 1
      /\ \A n \in Started : cmd'[n] = cmd[n]
      /\ cmd'[N + 1] = c /\ c.targets \in Seq(Kinds)
  BY <1>1, AppendProperties DEF TypeOK, Start, Started, Invocation
<1>3. /\ stage \in [1 .. N -> Stages] /\ open \in [1 .. N -> BOOLEAN]
      /\ called \in [1 .. N -> SUBSET {"target", "judge", "similarity"}]
      /\ compared \in [1 .. N -> 0 .. Len(runs)] /\ seen \in [1 .. N -> 0 .. Len(runs)]
      /\ warned \in [1 .. N -> Nat] /\ Len(runs) \in Nat
  BY <1>1 DEF TypeOK
<1>4. /\ stage' = Append(stage, "target") /\ open' = Append(open, FALSE)
      /\ called' = Append(called, {}) /\ compared' = Append(compared, 0)
      /\ seen' = Append(seen, Len(runs)) /\ warned' = Append(warned, 0)
      /\ arms' = Append(arms, <<>>) /\ runs' = runs /\ history' = history
  BY DEF Start
<1>. HIDE DEF N
<1>5. /\ stage' \in [Started' -> Stages] /\ stage'[N + 1] = "target"
      /\ \A n \in Started : stage'[n] = stage[n]
  <2>1. N \in Nat /\ stage \in [1 .. N -> Stages] /\ "target" \in Stages
    BY <1>1, <1>3 DEF Stages
  <2>2. Append(stage, "target") \in [1 .. N + 1 -> Stages]
    BY <2>1, Extend
  <2>3. Append(stage, "target")[N + 1] = "target"
    BY <2>1, Extend
  <2>4. \A k \in 1 .. N : Append(stage, "target")[k] = stage[k]
    BY <2>1, Extend
  <2>. QED
    BY <1>1, <1>2, <1>4, <2>2, <2>3, <2>4
<1>6. /\ open' \in [Started' -> BOOLEAN]
      /\ \A n \in Started : open'[n] = open[n]
  <2> DEFINE B == BOOLEAN
             F == FALSE
  <2>1. N \in Nat /\ open \in [1 .. N -> B] /\ F \in B /\ open' = Append(open, F)
    BY <1>1, <1>3, <1>4
  <2>. HIDE DEF B, F
  <2>2. Append(open, F) \in [1 .. N + 1 -> B]
    BY <2>1, Extend
  <2>3. \A k \in 1 .. N : Append(open, F)[k] = open[k]
    BY <2>1, Extend
  <2>. QED
    BY <1>1, <1>2, <2>1, <2>2, <2>3 DEF B
<1>7. /\ compared' \in [Started' -> (0 .. Len(runs))] /\ compared'[N + 1] = 0
      /\ \A n \in Started : compared'[n] = compared[n]
  <2>1. N \in Nat /\ compared \in [1 .. N -> (0 .. Len(runs))] /\ 0 \in (0 .. Len(runs))
    BY <1>1, <1>3
  <2>2. Append(compared, 0) \in [1 .. N + 1 -> (0 .. Len(runs))]
    BY <2>1, Extend
  <2>3. Append(compared, 0)[N + 1] = 0
    BY <2>1, Extend
  <2>4. \A k \in 1 .. N : Append(compared, 0)[k] = compared[k]
    BY <2>1, Extend
  <2>. QED
    BY <1>1, <1>2, <1>4, <2>2, <2>3, <2>4
<1>8. /\ seen' \in [Started' -> (0 .. Len(runs))] /\ seen'[N + 1] = Len(runs)
      /\ \A n \in Started : seen'[n] = seen[n]
  <2>1. N \in Nat /\ seen \in [1 .. N -> (0 .. Len(runs))] /\ Len(runs) \in (0 .. Len(runs))
    BY <1>1, <1>3
  <2>2. Append(seen, Len(runs)) \in [1 .. N + 1 -> (0 .. Len(runs))]
    BY <2>1, Extend
  <2>3. Append(seen, Len(runs))[N + 1] = Len(runs)
    BY <2>1, Extend
  <2>4. \A k \in 1 .. N : Append(seen, Len(runs))[k] = seen[k]
    BY <2>1, Extend
  <2>. QED
    BY <1>1, <1>2, <1>4, <2>2, <2>3, <2>4
<1>9. /\ warned' \in [Started' -> Nat]
      /\ called' \in [Started' -> SUBSET {"target", "judge", "similarity"}]
  BY <1>1, <1>2, <1>3, <1>4, Extend
<1>10. UNION {SUBSET Positions(cmd[n]) : n \in Started}
         \subseteq UNION {SUBSET Positions(cmd'[n]) : n \in Started'}
  BY <1>1, <1>2
<1>11. /\ arms' \in [Started' -> Seq(UNION {SUBSET Positions(cmd'[n]) : n \in Started'})]
       /\ arms'[N + 1] = <<>>
       /\ \A n \in Started : arms'[n] = arms[n]
  <2> DEFINE P == UNION {SUBSET Positions(cmd[n]) : n \in Started}
             Q == UNION {SUBSET Positions(cmd'[n]) : n \in Started'}
  <2>1. Seq(P) \subseteq Seq(Q)
    BY <1>10, SeqMonotonic
  <2>2. arms \in [1 .. N -> Seq(Q)]
    BY <1>1, <2>1 DEF TypeOK
  <2>3. <<>> \in Seq(Q)
    OBVIOUS
  <2>. HIDE DEF Q
  <2>4. N \in Nat
    BY <1>1
  <2>5. Append(arms, <<>>) \in [1 .. N + 1 -> Seq(Q)]
    BY <2>2, <2>3, <2>4, Extend
  <2>6. Append(arms, <<>>)[N + 1] = <<>>
    BY <2>2, <2>3, <2>4, Extend
  <2>7. \A n \in 1 .. N : Append(arms, <<>>)[n] = arms[n]
    BY <2>2, <2>3, <2>4, Extend
  <2>. QED
    BY <1>1, <1>2, <1>4, <2>5, <2>6, <2>7 DEF Q
<1>12. \A n \in Started' : arms'[n] \in Seq(SUBSET Positions(cmd'[n]))
                           /\ Len(arms'[n]) <= Len(cmd'[n].targets)
  <2>1. \A n \in Started : arms'[n] \in Seq(SUBSET Positions(cmd'[n]))
                           /\ Len(arms'[n]) <= Len(cmd'[n].targets)
    BY <1>2, <1>11 DEF TypeOK
  <2>2. arms'[N + 1] \in Seq(SUBSET Positions(cmd'[N + 1]))
        /\ Len(arms'[N + 1]) <= Len(cmd'[N + 1].targets)
    BY <1>2, <1>11
  <2>3. \A n \in Started' : n \in Started \/ n = N + 1
    BY <1>1, <1>2
  <2>. QED
    BY <2>1, <2>2, <2>3
<1>13. runs' \in Seq(UNION {BaselineRows(n) : n \in Started})'
  <2>1. UNION {BaselineRows(n) : n \in Started} \subseteq UNION {BaselineRows(n) : n \in Started}'
    BY <1>1, <1>2 DEF BaselineRows
  <2>2. runs' = runs /\ runs \in Seq(UNION {BaselineRows(n) : n \in Started})
    BY DEF TypeOK, Start
  <2>. QED
    BY <2>1, <2>2, SeqMonotonic
<1>14. history' \in Seq(UNION {HistoryRows(n) : n \in Started})'
  <2>1. UNION {HistoryRows(n) : n \in Started} \subseteq UNION {HistoryRows(n) : n \in Started}'
    BY <1>1, <1>2 DEF HistoryRows
  <2>2. history' = history /\ history \in Seq(UNION {HistoryRows(n) : n \in Started})
    BY DEF TypeOK, Start
  <2>. QED
    BY <2>1, <2>2, SeqMonotonic
<1>15. TypeOK'
  <2>1. Len(cmd') <= Len(Script) /\ runs' = runs
    BY <1>1, <1>2, <1>4 DEF N
  <2>. QED
    BY <1>2, <1>4, <1>5, <1>6, <1>7, <1>8, <1>9, <1>11, <1>12, <1>13, <1>14, <2>1 DEF TypeOK
<1>16. \A n \in Started' : n \in Started \/ n = N + 1
  BY <1>1, <1>2
<1>17. Course'
  <2>. SUFFICES ASSUME NEW n \in Started'
                PROVE  Reaches(n, stage[n], arms[n], open[n])'
    BY DEF Course
  <2>1. CASE n \in Started
    <3>1. /\ stage'[n] = stage[n] /\ arms'[n] = arms[n]
          /\ open'[n] = open[n] /\ cmd'[n] = cmd[n]
      BY <1>2, <1>5, <1>6, <1>11, <2>1
    <3>2. Reaches(n, stage[n], arms[n], open[n])
      BY <2>1 DEF Course
    <3>. QED
      BY <3>1, <3>2 DEF Reaches
  <2>2. CASE n = N + 1
    <3>1. stage'[n] = "target" /\ arms'[n] = <<>>
      BY <1>5, <1>11, <2>2
    <3>. QED
      BY <3>1 DEF Reaches
  <2>. QED
    BY <1>16, <2>1, <2>2
<1>18. \A k \in DOMAIN runs : runs[k].by \in Started
  BY DEF TypeOK, BaselineRows
<1>19. Rows'
  BY <1>2, <1>4, <1>5, <1>16, <1>18 DEF Rows
<1>20. ComparesWithNewest'
  BY <1>4, <1>7, <1>8, <1>16 DEF ComparesWithNewest
<1>. QED
  BY <1>15, <1>17, <1>19, <1>20

-----------------------------------------------------------------------------

(* A step of command n to stage s that writes no baseline keeps CommandInv *)
(* if n has by then done what s asks for.                                  *)
LEMMA MoveKeeps ==
  ASSUME CommandInv, NEW n \in Started, NEW s \in Stages,
         Goto(n, s), UNCHANGED <<cmd, seen, runs>>,
         open' \in [Started -> BOOLEAN],
         \A m \in Started \ {n} : open'[m] = open[m],
         arms' \in [Started -> Seq(UNION {SUBSET Positions(cmd[m]) : m \in Started})],
         \A m \in Started \ {n} : arms'[m] = arms[m],
         arms'[n] \in Seq(SUBSET Positions(cmd[n])),
         Len(arms'[n]) <= Len(cmd[n].targets),
         called' \in [Started -> SUBSET {"target", "judge", "similarity"}],
         compared' \in [Started -> 0 .. Len(runs)],
         \A m \in Started \ {n} : compared'[m] = compared[m],
         warned' \in [Started -> Nat],
         history' \in Seq(UNION {HistoryRows(m) : m \in Started}),
         Reaches(n, s, arms'[n], open'[n]),
         stage[n] \in {"verdict", "done", "killed"} => s \in {"verdict", "done", "killed"},
         s \in {"verdict", "done"} /\ cmd[n].save => \E k \in DOMAIN runs : runs[k].by = n,
         compared'[n] # 0 => runs[compared'[n]].by # n /\ compared'[n] >= seen[n]
  PROVE  CommandInv'
<1>. USE DEF CommandInv
<1>1. /\ stage \in [Started -> Stages] /\ stage' = [stage EXCEPT ![n] = s]
      /\ cmd' = cmd /\ seen' = seen /\ runs' = runs /\ Started' = Started
  BY DEF Goto, TypeOK, Started
<1>2. /\ stage' \in [Started -> Stages] /\ stage'[n] = s
      /\ \A m \in Started \ {n} : stage'[m] = stage[m]
  BY <1>1
<1>3. TypeOK'
  <2>1. \A m \in Started : arms'[m] \in Seq(SUBSET Positions(cmd[m]))
                           /\ Len(arms'[m]) <= Len(cmd[m].targets)
    BY DEF TypeOK
  <2>2. history' \in Seq(UNION {HistoryRows(m) : m \in Started})'
    <3>1. (UNION {HistoryRows(m) : m \in Started})' = UNION {HistoryRows(m) : m \in Started}
      BY <1>1 DEF HistoryRows
    <3>. QED
      BY <3>1
  <2>3. runs' \in Seq(UNION {BaselineRows(m) : m \in Started})'
    <3>1. (UNION {BaselineRows(m) : m \in Started})' = UNION {BaselineRows(m) : m \in Started}
      BY <1>1 DEF BaselineRows
    <3>. QED
      BY <1>1, <3>1 DEF TypeOK
  <2>4. /\ cmd' \in Seq(Invoked) /\ Len(cmd') <= Len(Script)
        /\ seen' \in [Started -> 0 .. Len(runs')]
        /\ compared' \in [Started -> 0 .. Len(runs')]
    BY <1>1 DEF TypeOK
  <2>5. arms' \in [Started' -> Seq(UNION {SUBSET Positions(cmd'[m]) : m \in Started'})]
    <3>1. UNION {SUBSET Positions(cmd'[m]) : m \in Started'}
            = UNION {SUBSET Positions(cmd[m]) : m \in Started}
      BY <1>1
    <3>. QED
      BY <1>1, <3>1
  <2>6. \A m \in Started' : arms'[m] \in Seq(SUBSET Positions(cmd'[m]))
                            /\ Len(arms'[m]) <= Len(cmd'[m].targets)
    BY <1>1, <2>1
  <2>7. /\ stage' \in [Started' -> Stages] /\ open' \in [Started' -> BOOLEAN]
        /\ called' \in [Started' -> SUBSET {"target", "judge", "similarity"}]
        /\ compared' \in [Started' -> 0 .. Len(runs')]
        /\ seen' \in [Started' -> 0 .. Len(runs')]
        /\ warned' \in [Started' -> Nat]
    BY <1>1, <1>2, <2>4
  <2>. QED
    BY <2>2, <2>3, <2>4, <2>5, <2>6, <2>7 DEF TypeOK
<1>4. Course'
  <2>. SUFFICES ASSUME NEW m \in Started
                PROVE  Reaches(m, stage'[m], arms'[m], open'[m])
    BY <1>1 DEF Course, Reaches
  <2>1. CASE m = n
    BY <1>2, <2>1
  <2>2. CASE m # n
    BY <1>2, <2>2 DEF Course
  <2>. QED
    BY <2>1, <2>2
<1>5. Rows'
  <2>1. \A k \in DOMAIN runs : runs[k].by \in Started
    BY DEF TypeOK, BaselineRows
  <2>2. \A k \in DOMAIN runs : stage'[runs[k].by] \in {"verdict", "done", "killed"}
    BY <1>2, <2>1 DEF Rows
  <2>3. \A m \in Started : stage'[m] \in {"verdict", "done"} /\ cmd[m].save =>
          \E k \in DOMAIN runs : runs[k].by = m
    BY <1>2 DEF Rows
  <2>. QED
    BY <1>1, <2>2, <2>3 DEF Rows
<1>6. ComparesWithNewest'
  BY <1>1 DEF ComparesWithNewest
<1>. QED
  BY <1>3, <1>4, <1>5, <1>6

(* What CommandInv says of one command.                                    *)
LEMMA CommandFacts ==
  ASSUME CommandInv, NEW n \in Started
  PROVE  /\ open \in [Started -> BOOLEAN]
         /\ arms \in [Started -> Seq(UNION {SUBSET Positions(cmd[m]) : m \in Started})]
         /\ arms[n] \in Seq(SUBSET Positions(cmd[n]))
         /\ Len(arms[n]) <= Len(cmd[n].targets)
         /\ called \in [Started -> SUBSET {"target", "judge", "similarity"}]
         /\ compared \in [Started -> 0 .. Len(runs)]
         /\ warned \in [Started -> Nat]
         /\ history \in Seq(UNION {HistoryRows(m) : m \in Started})
         /\ compared[n] # 0 => runs[compared[n]].by # n /\ compared[n] >= seen[n]
         /\ Reaches(n, stage[n], arms[n], open[n])
         /\ cmd[n] \in Invoked /\ cmd[n] \in Invocation
         /\ cmd[n].targets \in Seq(Kinds)
         /\ Len(cmd[n].targets) \in Nat /\ Len(cmd[n].targets) >= 1
<1>1. /\ open \in [Started -> BOOLEAN]
      /\ arms \in [Started -> Seq(UNION {SUBSET Positions(cmd[m]) : m \in Started})]
      /\ arms[n] \in Seq(SUBSET Positions(cmd[n]))
      /\ Len(arms[n]) <= Len(cmd[n].targets)
      /\ called \in [Started -> SUBSET {"target", "judge", "similarity"}]
      /\ compared \in [Started -> 0 .. Len(runs)]
      /\ warned \in [Started -> Nat]
      /\ history \in Seq(UNION {HistoryRows(m) : m \in Started})
  BY DEF CommandInv, TypeOK
<1>2. /\ Reaches(n, stage[n], arms[n], open[n])
      /\ cmd[n] \in Invoked /\ cmd[n] \in Invocation
  <2>1. cmd \in Seq(Invoked) /\ n \in DOMAIN cmd
    BY DEF CommandInv, TypeOK, Started
  <2>. QED
    BY <2>1, InvokedType DEF CommandInv, Course
<1>3. cmd[n].targets \in Seq(Kinds) /\ Len(cmd[n].targets) \in Nat /\ Len(cmd[n].targets) >= 1
  BY <1>2, EmptySeq, LenProperties DEF Invocation
<1>4. compared[n] # 0 => runs[compared[n]].by # n /\ compared[n] >= seen[n]
  BY DEF CommandInv, ComparesWithNewest
<1>. QED
  BY <1>1, <1>2, <1>3, <1>4

(* The same, for a step that only moves the stage.                         *)
LEMMA PlainMoveKeeps ==
  ASSUME CommandInv, NEW n \in Started, NEW s \in Stages,
         Goto(n, s), UNCHANGED <<cmd, open, arms, called, compared, seen, warned, runs, history>>,
         Reaches(n, s, arms[n], open[n]),
         stage[n] \in {"verdict", "done", "killed"} => s \in {"verdict", "done", "killed"},
         s \in {"verdict", "done"} /\ cmd[n].save => \E k \in DOMAIN runs : runs[k].by = n
  PROVE  CommandInv'
BY CommandFacts, MoveKeeps

(* Giving up needs nothing.                                                *)
LEMMA QuitKeeps ==
  ASSUME CommandInv, NEW n \in Started, NEW s \in {"error", "killed"},
         Goto(n, s), UNCHANGED <<cmd, open, arms, called, compared, seen, warned, runs, history>>,
         stage[n] \in {"verdict", "done", "killed"} => s = "killed"
  PROVE  CommandInv'
<1>1. s \in Stages /\ Reaches(n, s, arms[n], open[n])
  BY DEF Stages, Ended, Reaches
<1>. QED
  BY <1>1, PlainMoveKeeps

LEMMA WiringKeeps ==
  ASSUME CommandInv, NEW n \in Started,
         BuildTarget(n) \/ OpenStore(n) \/ BuildScorers(n)
  PROVE  CommandInv'
<1>. USE CommandFacts
<1>4. CASE BuildTarget(n)
  <2>1. CASE Goto(n, "error")
    BY <1>4, <2>1, QuitKeeps DEF BuildTarget
  <2>2. CASE Goto(n, "store")
    <3>1. "store" \in Stages /\ Reaches(n, "store", arms[n], open[n])
      BY <1>4 DEF BuildTarget, Reaches, Stages
    <3>. QED
      BY <1>4, <2>2, <3>1, PlainMoveKeeps DEF BuildTarget
  <2>. QED
    BY <1>4, <2>1, <2>2 DEF BuildTarget
<1>5. CASE OpenStore(n)
  <2>1. CASE Goto(n, "error") /\ UNCHANGED open
    BY <1>5, <2>1, QuitKeeps DEF OpenStore
  <2>2. CASE Goto(n, "scorers") /\ open' = [open EXCEPT ![n] = NeedsStore(cmd[n])]
    <3>1. NeedsStore(cmd[n]) \in BOOLEAN
      BY DEF NeedsStore, NeedsHistory, AnyCached, Invocation
    <3>2. /\ open' \in [Started -> BOOLEAN] /\ open'[n] = NeedsStore(cmd[n])
          /\ \A m \in Started \ {n} : open'[m] = open[m]
      BY <2>2, <3>1
    <3>3. "scorers" \in Stages /\ Reaches(n, "scorers", arms[n], open'[n])
      BY <1>5, <3>2 DEF OpenStore, Reaches, Stages
    <3>. QED
      BY <1>5, <2>2, <3>2, <3>3, MoveKeeps DEF OpenStore
  <2>. QED
    BY <1>5, <2>1, <2>2 DEF OpenStore
<1>6. CASE BuildScorers(n)
  <2>1. CASE Goto(n, "error")
    BY <1>6, <2>1, QuitKeeps DEF BuildScorers
  <2>2. CASE Goto(n, "suite")
    <3>1. stage[n] = "scorers" /\ arms[n] = <<>>
      BY <1>6 DEF BuildScorers, Reaches
    <3>2. Len(arms[n]) < Len(cmd[n].targets)
      <4>1. Len(<<>>) = 0
        OBVIOUS
      <4>2. Len(cmd[n].targets) \in Nat /\ Len(cmd[n].targets) >= 1
        OBVIOUS
      <4>. QED
        BY ONLY <3>1, <4>1, <4>2
    <3>3. "suite" \in Stages /\ Reaches(n, "suite", arms[n], open[n])
      BY <3>1, <3>2 DEF Reaches, Stages
    <3>. QED
      BY <1>6, <2>2, <3>1, <3>3, PlainMoveKeeps DEF BuildScorers
  <2>. QED
    BY <1>6, <2>1, <2>2 DEF BuildScorers
<1>. QED
  BY <1>4, <1>5, <1>6

(* A suite that was run is one arm more; the next arm, or the report.      *)
LEMMA AfterArmReached ==
  ASSUME NEW n, NEW arm \in Nat, NEW a, Len(a) = arm, a # <<>>, NEW opened,
         arm <= Len(cmd[n].targets), Len(cmd[n].targets) \in Nat,
         NeedsStore(cmd[n]) => opened
  PROVE  /\ AfterArm(cmd[n], arm) \in Stages
         /\ AfterArm(cmd[n], arm) \in {"suite", "report"}
         /\ Reaches(n, AfterArm(cmd[n], arm), a, opened)
BY DEF AfterArm, Stages, Reaches

LEMMA RunSuiteKeeps ==
  ASSUME CommandInv, NEW n \in Started, NEW passes \in SUBSET Positions(cmd[n]),
         RunSuite(n, passes)
  PROVE  CommandInv'
<1>. USE CommandFacts
<1> DEFINE arm == Len(arms[n]) + 1
           a == Append(arms[n], passes)
           s == IF cmd[n].history THEN "history" ELSE AfterArm(cmd[n], arm)
<1>1. /\ stage[n] = "suite" /\ Goto(n, s)
      /\ arms' = [arms EXCEPT ![n] = a]
      /\ called' = [called EXCEPT ![n] = @ \cup Live(n, cmd[n].targets[arm])]
      /\ UNCHANGED <<cmd, open, compared, seen, warned, runs, history>>
  BY DEF RunSuite
<1>2. Len(arms[n]) \in Nat /\ Len(arms[n]) < Len(cmd[n].targets) /\ NeedsStore(cmd[n]) => open[n]
  BY <1>1, LenProperties DEF Reaches
<1>3. /\ a \in Seq(SUBSET Positions(cmd[n])) /\ a # <<>> /\ Len(a) = arm
      /\ arm \in Nat /\ arm <= Len(cmd[n].targets)
  <2>1. /\ a \in Seq(SUBSET Positions(cmd[n])) /\ a # <<>> /\ Len(a) = arm
    <3>1. arms[n] \in Seq(SUBSET Positions(cmd[n]))
      OBVIOUS
    <3>. QED
      BY ONLY <3>1, AppendProperties, passes \in SUBSET Positions(cmd[n])
  <2>2. Len(arms[n]) < Len(cmd[n].targets) /\ Len(arms[n]) \in Nat
    BY <1>1, LenProperties DEF Reaches
  <2>. QED
    BY <2>1, <2>2
<1>4. a \in Seq(UNION {SUBSET Positions(cmd[m]) : m \in Started})
  <2>1. SUBSET Positions(cmd[n]) \subseteq UNION {SUBSET Positions(cmd[m]) : m \in Started}
    OBVIOUS
  <2>. QED
    BY <1>3, <2>1, SeqMonotonic
<1>. HIDE DEF a, arm
<1>5. /\ arms' \in [Started -> Seq(UNION {SUBSET Positions(cmd[m]) : m \in Started})]
      /\ arms'[n] = a
      /\ \A m \in Started \ {n} : arms'[m] = arms[m]
  BY <1>1, <1>4
<1>6. called' \in [Started -> SUBSET {"target", "judge", "similarity"}]
  <2>1. Live(n, cmd[n].targets[arm]) \subseteq {"target", "judge", "similarity"}
    BY DEF Live, Callers
  <2>. QED
    BY <1>1, <2>1
<1>7. NeedsStore(cmd[n]) => open[n]
  BY <1>1 DEF Reaches
<1>8. s \in Stages /\ Reaches(n, s, a, open[n])
  <2>1. CASE cmd[n].history
    BY <1>3, <1>7, <2>1 DEF Reaches, Stages
  <2>2. CASE ~cmd[n].history
    BY <1>3, <1>7, <2>2, AfterArmReached
  <2>. QED
    BY <2>1, <2>2
<1>9. s \in {"history", "suite", "report"}
  BY DEF AfterArm
<1>. HIDE DEF s
<1>. QED
  BY <1>1, <1>3, <1>5, <1>6, <1>8, <1>9, MoveKeeps

LEMMA RecordHistoryKeeps ==
  ASSUME CommandInv, NEW n \in Started, RecordHistory(n)
  PROVE  CommandInv'
<1> DEFINE arm == Len(arms[n])
           s == AfterArm(cmd[n], arm)
<1>1. /\ stage[n] = "history" /\ Goto(n, s)
      /\ \/ history' = Append(history, HistoryRow(n, arm)) /\ UNCHANGED warned
         \/ warned' = [warned EXCEPT ![n] = @ + 1] /\ UNCHANGED history
      /\ UNCHANGED <<cmd, open, arms, called, compared, seen, runs>>
  BY DEF RecordHistory
<1>2. /\ arms[n] \in Seq(SUBSET Positions(cmd[n])) /\ Reaches(n, "history", arms[n], open[n])
      /\ arm <= Len(cmd[n].targets) /\ Len(cmd[n].targets) \in Nat
      /\ warned \in [Started -> Nat]
      /\ history \in Seq(UNION {HistoryRows(m) : m \in Started})
  BY <1>1, CommandFacts
<1>3. arms[n] # <<>> /\ (NeedsStore(cmd[n]) => open[n])
  BY <1>2 DEF Reaches
<1>4. arm \in Nat /\ arm \in DOMAIN arms[n]
  BY <1>2, <1>3, EmptySeq, LenProperties
<1>5. HistoryRow(n, arm) \in UNION {HistoryRows(m) : m \in Started}
  BY <1>2, <1>4 DEF HistoryRow, HistoryRows
<1>6. history' \in Seq(UNION {HistoryRows(m) : m \in Started})
  BY <1>1, <1>2, <1>5, AppendProperties
<1>7. warned' \in [Started -> Nat]
  BY <1>1, <1>2
<1>8. s \in Stages /\ s \in {"suite", "report"} /\ Reaches(n, s, arms[n], open[n])
  BY <1>2, <1>3, <1>4, AfterArmReached
<1>. HIDE DEF s
<1>. QED
  BY <1>1, <1>2, <1>6, <1>7, <1>8, CommandFacts, MoveKeeps

(* Once a suite was run, what After names is within reach.                 *)
LEMMA AfterReached ==
  ASSUME CommandInv, NEW n \in Started, NEW done \in {"report", "baseline", "html"},
         stage[n] = done
  PROVE  /\ After(cmd[n], done) \in Stages
         /\ Reaches(n, After(cmd[n], done), arms[n], open[n])
<1>1. Reaches(n, done, arms[n], open[n])
  BY CommandFacts
<1>. QED
  BY <1>1, AfterType DEF Reaches, Stages

LEMMA ReportingKeeps ==
  ASSUME CommandInv, NEW n \in Started, WriteReport(n) \/ WriteHtml(n)
  PROVE  CommandInv'
<1>1. PICK done \in {"report", "html"} :
        /\ stage[n] = done
        /\ Goto(n, After(cmd[n], done)) \/ Goto(n, "error")
        /\ UNCHANGED <<cmd, open, arms, called, compared, seen, warned, runs, history>>
  BY DEF WriteReport, WriteHtml
<1>2. CASE Goto(n, "error")
  BY <1>1, <1>2, QuitKeeps
<1>3. CASE Goto(n, After(cmd[n], done))
  BY <1>1, <1>3, AfterType, AfterReached, PlainMoveKeeps
<1>. QED
  BY <1>1, <1>2, <1>3

(* No row is the command's own before it saves, and the newest one is at   *)
(* least as new as those it found.                                         *)
LEMMA CompareBaselineKeeps ==
  ASSUME CommandInv, NEW n \in Started, CompareBaseline(n)
  PROVE  CommandInv'
<1>1. /\ stage[n] = "baseline"
      /\ UNCHANGED <<cmd, open, arms, called, seen, warned, runs, history>>
  BY DEF CompareBaseline
<1>2. CASE Goto(n, "error") /\ UNCHANGED compared
  BY <1>1, <1>2, QuitKeeps
<1>3. CASE /\ runs # <<>>
           /\ compared' = [compared EXCEPT ![n] = Newest]
           /\ Goto(n, After(cmd[n], "baseline"))
  <2>1. Len(runs) \in Nat /\ DOMAIN runs = 1 .. Len(runs)
    BY LenProperties DEF CommandInv, TypeOK
  <2>2. /\ compared' \in [Started -> 0 .. Len(runs)] /\ compared'[n] = Len(runs)
        /\ \A m \in Started \ {n} : compared'[m] = compared[m]
    <3>1. compared \in [Started -> 0 .. Len(runs)]
      BY CommandFacts
    <3>2. compared' = [compared EXCEPT ![n] = Len(runs)] /\ Len(runs) \in 0 .. Len(runs)
      BY <1>3, <2>1 DEF Newest
    <3>. QED
      BY ONLY <3>1, <3>2
  <2>3. compared'[n] # 0 => runs[compared'[n]].by # n /\ compared'[n] >= seen[n]
    <3>1. seen[n] \in 0 .. Len(runs)
      BY DEF CommandInv, TypeOK
    <3>2. \A k \in DOMAIN runs : runs[k].by # n
      BY <1>1 DEF CommandInv, Rows
    <3>. QED
      BY <2>1, <2>2, <3>1, <3>2
  <2>. QED
    BY <1>1, <1>3, <2>2, <2>3, AfterType, AfterReached, CommandFacts, MoveKeeps
<1>. QED
  BY <1>2, <1>3 DEF CompareBaseline

(* Saving appends the command's only row.                                  *)
LEMMA SaveBaselineKeeps ==
  ASSUME CommandInv, NEW n \in Started, SaveBaseline(n)
  PROVE  CommandInv'
<1>1. /\ stage[n] = "save"
      /\ UNCHANGED <<cmd, open, arms, called, compared, seen, warned, history>>
  BY DEF SaveBaseline
<1>2. CASE Goto(n, "error") /\ UNCHANGED runs
  BY <1>1, <1>2, QuitKeeps
<1>3. CASE Goto(n, "verdict") /\ runs' = Append(runs, BaselineRow(n))
  <2> DEFINE T == UNION {BaselineRows(m) : m \in Started}
  <2>1. /\ runs \in Seq(T) /\ Len(runs) \in Nat /\ DOMAIN runs = 1 .. Len(runs)
        /\ \A k \in DOMAIN runs : runs[k].by \in Started
    <3>1. runs \in Seq(T)
      BY DEF CommandInv, TypeOK
    <3>2. \A r \in T : r.by \in Started
      BY DEF BaselineRows
    <3>. QED
      BY <3>1, <3>2, LenProperties
  <2>2. BaselineRow(n) \in T /\ BaselineRow(n).by = n
    <3>1. arms[n] \in Seq(SUBSET Positions(cmd[n])) /\ arms[n] # <<>>
      BY <1>1, CommandFacts DEF Reaches
    <3>2. 1 \in DOMAIN arms[n]
      BY <3>1, EmptySeq, LenProperties
    <3>3. arms[n][1] \in SUBSET Positions(cmd[n])
      BY <3>1, <3>2
    <3>. QED
      BY <3>3 DEF BaselineRow, BaselineRows
  <2>. HIDE DEF T
  <2>3. /\ runs' \in Seq(T) /\ Len(runs') = Len(runs) + 1
        /\ runs'[Len(runs) + 1] = BaselineRow(n)
    BY <1>3, <2>1, <2>2, AppendProperties
  <2>4. \A k \in 1 .. Len(runs) : runs'[k] = runs[k]
    BY <1>3, <2>1, <2>2, AppendProperties
  <2>5. DOMAIN runs' = 1 .. Len(runs) + 1
    BY <2>3, LenProperties
  <2>6. \A k \in DOMAIN runs' : k \in DOMAIN runs \/ k = Len(runs) + 1
    BY <2>1, <2>5
  <2>7. /\ stage' \in [Started -> Stages] /\ stage'[n] = "verdict"
        /\ \A m \in Started \ {n} : stage'[m] = stage[m]
        /\ Started' = Started
    BY <1>1, <1>3 DEF CommandInv, TypeOK, Goto, Started, Stages
  <2>8. TypeOK'
    <3>1. /\ cmd' \in Seq(Invoked) /\ Len(cmd') <= Len(Script)
          /\ open' \in [Started' -> BOOLEAN]
          /\ called' \in [Started' -> SUBSET {"target", "judge", "similarity"}]
          /\ warned' \in [Started' -> Nat]
      BY <1>1, <2>7 DEF CommandInv, TypeOK
    <3>2. compared' \in [Started' -> 0 .. Len(runs')] /\ seen' \in [Started' -> 0 .. Len(runs')]
      <4>1. compared \in [Started -> 0 .. Len(runs)] /\ seen \in [Started -> 0 .. Len(runs)]
        BY DEF CommandInv, TypeOK
      <4>2. 0 .. Len(runs) \subseteq 0 .. Len(runs')
        BY <2>1, <2>3
      <4>. QED
        BY <1>1, <2>7, <4>1, <4>2
    <3>3. arms' \in [Started' -> Seq(UNION {SUBSET Positions(cmd'[m]) : m \in Started'})]
      <4>1. UNION {SUBSET Positions(cmd'[m]) : m \in Started'}
              = UNION {SUBSET Positions(cmd[m]) : m \in Started}
        BY <1>1, <2>7
      <4>. QED
        BY <1>1, <2>7, <4>1, CommandFacts
    <3>4. \A m \in Started' : arms'[m] \in Seq(SUBSET Positions(cmd'[m]))
                              /\ Len(arms'[m]) <= Len(cmd'[m].targets)
      BY <1>1, <2>7, CommandFacts
    <3>5. runs' \in Seq(UNION {BaselineRows(m) : m \in Started})'
      <4>1. (UNION {BaselineRows(m) : m \in Started})' = T
        BY <1>1, <2>7 DEF BaselineRows, T
      <4>. QED
        BY <2>3, <4>1
    <3>6. history' \in Seq(UNION {HistoryRows(m) : m \in Started})'
      <4>1. (UNION {HistoryRows(m) : m \in Started})' = UNION {HistoryRows(m) : m \in Started}
        BY <1>1, <2>7 DEF HistoryRows
      <4>. QED
        BY <1>1, <4>1, CommandFacts
    <3>. QED
      BY <2>7, <3>1, <3>2, <3>3, <3>4, <3>5, <3>6 DEF TypeOK
  <2>9. Course'
    <3>1. Reaches(n, "verdict", arms[n], open[n])
      BY <1>1, CommandFacts DEF Reaches
    <3>2. \A m \in Started : Reaches(m, stage'[m], arms[m], open[m])
      BY <2>7, <3>1, CommandFacts
    <3>. QED
      BY <1>1, <2>7, <3>2 DEF Course, Reaches
  <2>10. Rows'
    <3>1. \A k \in DOMAIN runs : runs[k].by # n
      BY <1>1 DEF CommandInv, Rows
    <3>2. \A j, k \in DOMAIN runs' : runs'[j].by = runs'[k].by => j = k
      BY <2>1, <2>2, <2>3, <2>4, <2>6, <3>1 DEF CommandInv, Rows
    <3>3. \A k \in DOMAIN runs' : stage'[runs'[k].by] \in {"verdict", "done", "killed"}
      BY <2>1, <2>2, <2>3, <2>4, <2>6, <2>7, <3>1 DEF CommandInv, Rows
    <3>4. \A m \in Started : stage'[m] \in {"verdict", "done"} /\ cmd[m].save =>
            \E k \in DOMAIN runs' : runs'[k].by = m
      <4>1. Len(runs) + 1 \in DOMAIN runs' /\ DOMAIN runs \subseteq DOMAIN runs'
        BY <2>1, <2>5
      <4>2. \E k \in DOMAIN runs' : runs'[k].by = n
        BY <2>2, <2>3, <4>1
      <4>3. \A m \in Started \ {n} : stage[m] \in {"verdict", "done"} /\ cmd[m].save =>
              \E k \in DOMAIN runs' : runs'[k].by = m
        BY <2>1, <2>4, <4>1 DEF CommandInv, Rows
      <4>. QED
        BY <2>7, <4>2, <4>3
    <3>. QED
      BY <1>1, <2>7, <3>2, <3>3, <3>4 DEF Rows
  <2>11. ComparesWithNewest'
    <3>. SUFFICES ASSUME NEW m \in Started, compared[m] # 0
                  PROVE  runs'[compared[m]].by # m /\ compared[m] >= seen[m]
      BY <1>1, <2>7 DEF ComparesWithNewest
    <3>1. compared[m] \in 1 .. Len(runs)
      BY <2>1 DEF CommandInv, TypeOK
    <3>. QED
      BY <2>4, <3>1 DEF CommandInv, ComparesWithNewest
  <2>. QED
    BY <2>8, <2>9, <2>10, <2>11 DEF CommandInv
<1>. QED
  BY <1>1, <1>2, <1>3 DEF SaveBaseline

LEMMA CommandStep == CommandInv /\ [Next]_vars => CommandInv'
<1>. SUFFICES ASSUME CommandInv, [Next]_vars
              PROVE  CommandInv'
  OBVIOUS
<1>1. ASSUME NEW c \in Script[Len(cmd) + 1], Len(cmd) < Len(Script), Start(c)
      PROVE  CommandInv'
  BY <1>1, StartKeeps
<1>2. ASSUME NEW n \in Started, Verdict(n)
      PROVE  CommandInv'
  <2>1. /\ stage[n] = "verdict" /\ Goto(n, "done")
        /\ UNCHANGED <<cmd, open, arms, called, compared, seen, warned, runs, history>>
    BY <1>2 DEF Verdict
  <2>2. "done" \in Stages /\ Reaches(n, "done", arms[n], open[n])
    BY <2>1, CommandFacts DEF Reaches, Stages, Ended
  <2>3. cmd[n].save => \E k \in DOMAIN runs : runs[k].by = n
    BY <2>1 DEF CommandInv, Rows
  <2>. QED
    BY <2>1, <2>2, <2>3, PlainMoveKeeps
<1>3. ASSUME NEW n \in Started, Kill(n)
      PROVE  CommandInv'
  BY <1>3, QuitKeeps DEF Kill
<1>4. ASSUME NEW n \in Started, Stage(n)
      PROVE  CommandInv'
  BY <1>2, <1>3, <1>4, WiringKeeps, RunSuiteKeeps, RecordHistoryKeeps, ReportingKeeps,
     CompareBaselineKeeps, SaveBaselineKeeps DEF Stage
<1>5. CASE UNCHANGED vars \/ AllEnded
  <2>1. UNCHANGED <<cmd, stage, open, arms, called, compared, seen, warned, runs, history>>
    BY <1>5 DEF AllEnded, vars, perCommand
  <2>2. TypeOK'
    BY <2>1 DEF CommandInv, TypeOK, Started, BaselineRows, HistoryRows
  <2>3. Course'
    BY <2>1 DEF CommandInv, Course, Reaches, Started
  <2>4. Rows' /\ ComparesWithNewest'
    BY <2>1 DEF CommandInv, Rows, ComparesWithNewest, Started
  <2>. QED
    BY <2>2, <2>3, <2>4 DEF CommandInv
<1>. QED
  BY <1>1, <1>4, <1>5 DEF Next

(* CommandInv holds however the commands overlap and wherever they are     *)
(* killed.                                                                 *)
THEOREM CommandInvariant == Spec => []CommandInv
<1>. QED
  BY CommandInit, CommandStep, PTL DEF Spec

(* Types, and the ownership of rows (TypeOK).                              *)
THEOREM CommandTypeCorrect == Spec => []TypeOK
<1>1. CommandInv => TypeOK
  BY DEF CommandInv
<1>. QED
  BY <1>1, CommandInvariant, PTL

(* A command compares with a baseline of another one, no older than what   *)
(* it found when it started (ComparesWithNewest).                          *)
THEOREM BaselineIsNewest == Spec => []ComparesWithNewest
<1>1. CommandInv => ComparesWithNewest
  BY DEF CommandInv
<1>. QED
  BY <1>1, CommandInvariant, PTL

(* A command saves at most once, and exactly when it comes to its verdict  *)
(* and was asked to (SavedIffFinished).                                    *)
THEOREM SavesOnceWhenFinished == Spec => []SavedIffFinished
<1>1. CommandInv => SavedIffFinished
  <2>. SUFFICES ASSUME CommandInv, NEW n \in Started
                PROVE  LET rows == {k \in DOMAIN runs : runs[k].by = n} IN
                         /\ Cardinality(rows) <= 1
                         /\ rows # {} => stage[n] \in {"verdict", "done", "killed"}
                         /\ stage[n] = "done" /\ cmd[n].save => rows # {}
    BY DEF SavedIffFinished
  <2> DEFINE rows == {k \in DOMAIN runs : runs[k].by = n}
  <2>1. Cardinality(rows) <= 1
    <3>1. CASE rows = {}
      BY <3>1, FS_EmptySet
    <3>2. CASE rows # {}
      <4>1. PICK k \in rows : rows = {k}
        BY <3>2 DEF CommandInv, Rows
      <4>. QED
        BY <4>1, FS_Singleton
    <3>. QED
      BY <3>1, <3>2
  <2>2. rows # {} => stage[n] \in {"verdict", "done", "killed"}
    BY DEF CommandInv, Rows
  <2>3. stage[n] = "done" /\ cmd[n].save => rows # {}
    BY DEF CommandInv, Rows
  <2>. QED
    BY <2>1, <2>2, <2>3
<1>. QED
  BY <1>1, CommandInvariant, PTL

-----------------------------------------------------------------------------
(* Replay.  NeedsStore overlooks the similarity scorer: RunCommand_replay  *)
(* shows a replay run that calls out.  That is the only way it can happen. *)

StoreWhereReplayed ==
  \A c \in Invoked : c.cache = "replay" /\ c.similarity => NeedsStore(c)

LEMMA OfflineStep ==
  ASSUME StoreWhereReplayed, CommandInv, ReplayOffline, [Next]_vars
  PROVE  ReplayOffline'
<1>1. ASSUME NEW c \in Script[Len(cmd) + 1], Start(c)
      PROVE  ReplayOffline'
  <2>1. /\ cmd \in Seq(Invoked) /\ Started = 1 .. Len(cmd) /\ Len(cmd) \in Nat
        /\ called \in [1 .. Len(cmd) -> SUBSET {"target", "judge", "similarity"}]
    <3>1. cmd \in Seq(Invoked) /\ called \in [Started -> SUBSET {"target", "judge", "similarity"}]
      BY DEF CommandInv, TypeOK
    <3>2. Started = 1 .. Len(cmd) /\ Len(cmd) \in Nat
      BY <3>1, LenProperties DEF Started
    <3>. QED
      BY <3>1, <3>2
  <2>2. cmd' = Append(cmd, c) /\ called' = Append(called, {})
    BY <1>1 DEF Start
  <2>3. called \in Seq(SUBSET {"target", "judge", "similarity"}) /\ Len(called) = Len(cmd)
    BY <2>1
  <2>4. /\ Started' = 1 .. Len(cmd) + 1
        /\ called'[Len(cmd) + 1] = {}
    BY <2>1, <2>2, <2>3 DEF Started
  <2>5. \A n \in 1 .. Len(cmd) : cmd'[n] = cmd[n] /\ called'[n] = called[n]
    BY <2>1, <2>2, <2>3
  <2>6. \A n \in Started' : n \in Started \/ n = Len(cmd) + 1
    BY <2>1, <2>4
  <2>. QED
    BY <2>1, <2>4, <2>5, <2>6 DEF ReplayOffline
<1>2. ASSUME NEW n \in Started, NEW passes \in SUBSET Positions(cmd[n]), RunSuite(n, passes)
      PROVE  ReplayOffline'
  <2> DEFINE arm == Len(arms[n]) + 1
             kind == cmd[n].targets[arm]
  <2>1. /\ stage[n] = "suite" /\ cmd' = cmd
        /\ called' = [called EXCEPT ![n] = @ \cup Live(n, kind)]
        /\ called \in [Started -> SUBSET {"target", "judge", "similarity"}]
    BY <1>2, CommandFacts DEF RunSuite
  <2>2. kind \in Range(cmd[n].targets)
    <3>1. /\ arms[n] \in Seq(SUBSET Positions(cmd[n])) /\ cmd[n].targets \in Seq(Kinds)
          /\ Len(arms[n]) < Len(cmd[n].targets)
      BY <2>1, CommandFacts DEF Reaches
    <3>2. arm \in DOMAIN cmd[n].targets
      BY <3>1, LenProperties
    <3>. QED
      BY <3>2 DEF Range
  <2>3. NeedsStore(cmd[n]) => open[n]
    BY <2>1, CommandFacts DEF Reaches
  <2>4. cmd[n].cache = "replay" => Live(n, kind) = {}
    <3>. SUFFICES ASSUME cmd[n].cache = "replay", ~open[n]
                  PROVE  Callers(cmd[n], kind) = {}
      BY DEF Live, Wrapped
    <3>1. ~NeedsStore(cmd[n]) /\ cmd[n] \in Invoked
      BY <2>3, CommandFacts
    <3>2. ~AnyCached(cmd[n]) /\ ~cmd[n].judge /\ ~cmd[n].similarity
      BY <3>1 DEF NeedsStore, StoreWhereReplayed
    <3>3. kind # "cached"
      BY <2>2, <3>2 DEF AnyCached
    <3>. QED
      BY <3>2, <3>3 DEF Callers
  <2>. HIDE DEF kind
  <2>. QED
    BY <2>1, <2>4 DEF ReplayOffline, Started
<1>3. CASE UNCHANGED <<cmd, called>>
  BY <1>3 DEF ReplayOffline, Started
<1>4. \/ UNCHANGED <<cmd, called>>
      \/ \E c \in Script[Len(cmd) + 1] : Start(c)
      \/ \E n \in Started : \E passes \in SUBSET Positions(cmd[n]) : RunSuite(n, passes)
  BY DEF Next, Stage, BuildTarget, OpenStore, BuildScorers, RecordHistory, WriteReport,
         CompareBaseline, WriteHtml, SaveBaseline, Verdict, Kill, AllEnded, vars, perCommand
<1>. QED
  BY <1>1, <1>2, <1>3, <1>4

(* Where a store is opened for every replay run with a similarity scorer,  *)
(* no replay run calls the network (ReplayOffline).                        *)
THEOREM ReplayStaysOffline ==
  ASSUME StoreWhereReplayed
  PROVE  Spec => []ReplayOffline
<1>1. Init => ReplayOffline
  BY DEF Init, ReplayOffline, Started
<1>2. CommandInv /\ ReplayOffline /\ [Next]_vars => ReplayOffline'
  BY OfflineStep
<1>. QED
  BY <1>1, <1>2, CommandInvariant, PTL DEF Spec

-----------------------------------------------------------------------------
(* Exit code and history. *)

(* A command that reports has run all its arms; one has compared exactly   *)
(* when it was asked to and is past that stage.                            *)
Progress(n) ==
  /\ stage[n] \in {"report", "baseline", "html", "save", "verdict", "done"} =>
       Len(arms[n]) = Len(cmd[n].targets)
  /\ compared[n] # 0 => cmd[n].baseline
  /\ cmd[n].baseline /\ stage[n] \in {"html", "save", "verdict", "done"} =>
       compared[n] # 0

(* The rows of a command and its warnings, which are as many as its suites *)
(* but for one just finished; and the rows hold what the suites gave.      *)
Entries(n) == RowsBy(history, n, Len(history)) + warned[n]

Logged(n) ==
  cmd[n].history =>
    /\ Entries(n) <= Len(arms[n])
    /\ stage[n] \notin {"history", "killed"} => Entries(n) = Len(arms[n])
    /\ stage[n] = "history" => Entries(n) + 1 = Len(arms[n])
    /\ warned[n] = 0 =>
         \A k \in DOMAIN history : history[k].by = n =>
           history[k].passes = arms[n][RowsBy(history, n, k)]

VerdictInv == CommandInv /\ \A n \in Started : Progress(n) /\ Logged(n)

-----------------------------------------------------------------------------
(* Counting the rows of a command. *)

LEMMA RowsByBounds ==
  ASSUME NEW table, NEW n, NEW k \in Nat
  PROVE  /\ RowsBy(table, n, k) \in 0 .. k
         /\ \A j \in 1 .. k : RowsBy(table, n, j) <= RowsBy(table, n, k)
         /\ \A j \in 1 .. k : table[j].by = n => RowsBy(table, n, j) >= 1
         /\ (\A j \in 1 .. k : table[j].by # n) => RowsBy(table, n, k) = 0
<1> DEFINE Mine(j) == {i \in 1 .. j : table[i].by = n}
<1>1. ASSUME NEW j \in Nat
      PROVE  IsFiniteSet(Mine(j)) /\ Cardinality(Mine(j)) \in Nat /\ Cardinality(Mine(j)) <= j
  <2>1. IsFiniteSet(1 .. j) /\ Cardinality(1 .. j) = j
    BY FS_Interval
  <2>2. Mine(j) \in SUBSET (1 .. j)
    OBVIOUS
  <2>. QED
    BY <2>1, <2>2, FS_Subset, FS_CardinalityType
<1>2. \A j \in 1 .. k : Cardinality(Mine(j)) <= Cardinality(Mine(k))
  <2>. TAKE j \in 1 .. k
  <2>1. Mine(j) \in SUBSET Mine(k)
    OBVIOUS
  <2>. HIDE DEF Mine
  <2>. QED
    BY <1>1, <2>1, FS_Subset
<1>3. \A j \in 1 .. k : table[j].by = n => Cardinality(Mine(j)) >= 1
  <2>. SUFFICES ASSUME NEW j \in 1 .. k, table[j].by = n
                PROVE  Cardinality(Mine(j)) >= 1
    OBVIOUS
  <2>1. j \in Nat /\ j \in Mine(j)
    OBVIOUS
  <2>. HIDE DEF Mine
  <2>2. Cardinality(Mine(j)) # 0 /\ Cardinality(Mine(j)) \in Nat
    BY <1>1, <2>1, FS_EmptySet
  <2>. QED
    BY <2>2
<1>4. (\A j \in 1 .. k : table[j].by # n) => Cardinality(Mine(k)) = 0
  <2>1. (\A j \in 1 .. k : table[j].by # n) => Mine(k) = {}
    OBVIOUS
  <2>. QED
    BY <2>1, FS_EmptySet
<1>5. \A j : RowsBy(table, n, j) = Cardinality(Mine(j))
  BY DEF RowsBy
<1>. HIDE DEF Mine
<1>. QED
  BY <1>1, <1>2, <1>3, <1>4, <1>5

(* A row more changes no count of those before it, and adds one to its     *)
(* command's.                                                              *)
LEMMA RowsByAppend ==
  ASSUME NEW S, NEW table \in Seq(S), NEW row \in S, NEW n
  PROVE  /\ \A k \in 0 .. Len(table) :
              RowsBy(Append(table, row), n, k) = RowsBy(table, n, k)
         /\ RowsBy(Append(table, row), n, Len(table) + 1) =
              RowsBy(table, n, Len(table)) + (IF row.by = n THEN 1 ELSE 0)
<1> DEFINE L == Len(table)
           T == Append(table, row)
           Mine(t, j) == {i \in 1 .. j : t[i].by = n}
<1>1. L \in Nat /\ T[L + 1] = row /\ \A k \in 1 .. L : T[k] = table[k]
  BY AppendProperties
<1>. HIDE DEF L, T
<1>2. \A k \in 0 .. L : Mine(T, k) = Mine(table, k)
  BY <1>1
<1>3. Mine(T, L + 1) = IF row.by = n THEN Mine(table, L) \cup {L + 1} ELSE Mine(table, L)
  BY <1>1
<1>4. L + 1 \notin Mine(table, L)
  BY <1>1
<1>5. IsFiniteSet(Mine(table, L)) /\ Cardinality(Mine(table, L)) \in Nat
  <2>1. IsFiniteSet(1 .. L) /\ Mine(table, L) \in SUBSET (1 .. L)
    BY <1>1, FS_Interval
  <2>. QED
    BY <2>1, FS_Subset, FS_CardinalityType
<1>6. \A t, j : RowsBy(t, n, j) = Cardinality(Mine(t, j))
  BY DEF RowsBy
<1>. HIDE DEF Mine
<1>7. RowsBy(T, n, L + 1) = RowsBy(table, n, L) + (IF row.by = n THEN 1 ELSE 0)
  <2>1. Cardinality(Mine(table, L) \cup {L + 1}) = Cardinality(Mine(table, L)) + 1
    BY <1>4, <1>5, FS_AddElement
  <2>2. CASE row.by = n
    <3>1. RowsBy(T, n, L + 1) = Cardinality(Mine(table, L) \cup {L + 1})
      BY <1>3, <1>6, <2>2
    <3>2. RowsBy(table, n, L) = Cardinality(Mine(table, L))
      BY <1>6
    <3>. QED
      BY <2>1, <2>2, <3>1, <3>2
  <2>3. CASE row.by # n
    BY <1>3, <1>5, <1>6, <2>3
  <2>. QED
    BY <2>2, <2>3
<1>8. \A k \in 0 .. L : RowsBy(T, n, k) = RowsBy(table, n, k)
  BY <1>2, <1>6
<1>. QED
  BY <1>7, <1>8 DEF L, T

-----------------------------------------------------------------------------
(* Steps. *)

LEMMA VerdictInit == Init => VerdictInv
<1>1. Init => Started = {}
  BY DEF Init, Started
<1>. QED
  BY <1>1, CommandInit DEF VerdictInv

(* A command is in the table only after it was started.                    *)
LEMMA RowOwners ==
  ASSUME CommandInv
  PROVE  /\ history \in Seq(UNION {HistoryRows(m) : m \in Started})
         /\ Len(history) \in Nat /\ DOMAIN history = 1 .. Len(history)
         /\ \A k \in DOMAIN history : history[k].by \in Started
<1>1. history \in Seq(UNION {HistoryRows(m) : m \in Started})
  BY DEF CommandInv, TypeOK
<1>2. \A r \in UNION {HistoryRows(m) : m \in Started} : r.by \in Started
  BY DEF HistoryRows
<1>3. Len(history) \in Nat /\ DOMAIN history = 1 .. Len(history)
  BY <1>1, LenProperties
<1>. QED
  BY <1>1, <1>2, <1>3

(* A step that leaves what they speak of alone keeps them.                 *)
LEMMA LoggedStays ==
  ASSUME NEW n, Logged(n), UNCHANGED history,
         UNCHANGED <<cmd[n], stage[n], arms[n], warned[n]>>
  PROVE  Logged(n)'
BY DEF Logged, Entries, RowsBy

LEMMA ProgressStays ==
  ASSUME NEW n, Progress(n), UNCHANGED <<cmd[n], stage[n], arms[n], compared[n]>>
  PROVE  Progress(n)'
BY DEF Progress

LEMMA StartVerdict ==
  ASSUME VerdictInv, Len(cmd) < Len(Script), NEW c \in Script[Len(cmd) + 1], Start(c)
  PROVE  \A n \in Started' : (Progress(n) /\ Logged(n))'
<1>0. PICK N : N = Len(cmd)
  OBVIOUS
<1>1. CommandInv /\ N \in Nat /\ Started = 1 .. N /\ cmd \in Seq(Invoked) /\ c \in Invoked
  <2>1. CommandInv /\ cmd \in Seq(Invoked)
    BY DEF VerdictInv, CommandInv, TypeOK
  <2>2. N \in Nat /\ Started = 1 .. N /\ Len(Script) \in Nat
    BY <1>0, <2>1, ScriptAssumption, LenProperties DEF Started
  <2>3. Len(cmd) + 1 \in 1 .. Len(Script)
    BY <1>0, <2>2
  <2>. QED
    BY <2>1, <2>2, <2>3, InvokedType
<1>2. /\ stage \in [1 .. N -> Stages] /\ compared \in [1 .. N -> 0 .. Len(runs)]
      /\ warned \in [1 .. N -> Nat] /\ cmd \in [1 .. N -> Invoked]
      /\ arms \in [1 .. N -> Seq(UNION {SUBSET Positions(cmd[m]) : m \in Started})]
      /\ Len(runs) \in Nat
  <2>1. Len(runs) \in Nat
    BY <1>1, LenProperties DEF CommandInv, TypeOK
  <2>2. cmd \in [1 .. N -> Invoked]
    BY <1>0, <1>1, LenProperties
  <2>3. arms \in [Started -> Seq(UNION {SUBSET Positions(cmd[m]) : m \in Started})]
    BY <1>1 DEF CommandInv, TypeOK
  <2>4. /\ stage \in [Started -> Stages] /\ compared \in [Started -> 0 .. Len(runs)]
        /\ warned \in [Started -> Nat]
    BY <1>1 DEF CommandInv, TypeOK
  <2>. QED
    BY <1>1, <2>1, <2>2, <2>3, <2>4
<1>3. /\ cmd' = Append(cmd, c) /\ stage' = Append(stage, "target")
      /\ arms' = Append(arms, <<>>) /\ compared' = Append(compared, 0)
      /\ warned' = Append(warned, 0) /\ history' = history
  BY DEF Start
<1>4. /\ Started' = 1 .. N + 1 /\ cmd'[N + 1] = c
      /\ \A n \in 1 .. N : cmd'[n] = cmd[n]
  <2>1. Append(cmd, c) \in [1 .. N + 1 -> Invoked]
    BY <1>1, <1>2, Extend
  <2>. QED
    BY <1>1, <1>2, <1>3, <2>1, Extend DEF Started
<1>5. stage'[N + 1] = "target" /\ \A n \in 1 .. N : stage'[n] = stage[n]
  <2>1. "target" \in Stages
    BY DEF Stages
  <2>. QED
    BY <1>1, <1>2, <1>3, <2>1, Extend
<1>6. arms'[N + 1] = <<>> /\ \A n \in 1 .. N : arms'[n] = arms[n]
  <2>1. PICK P : arms \in [1 .. N -> Seq(P)]
    BY <1>2
  <2>. QED
    BY <1>1, <1>3, <2>1, Extend, EmptySeq
<1>7. compared'[N + 1] = 0 /\ \A n \in 1 .. N : compared'[n] = compared[n]
  <2>1. 0 \in 0 .. Len(runs)
    BY <1>2
  <2>. QED
    BY <1>1, <1>2, <1>3, <2>1, Extend
<1>8. warned'[N + 1] = 0 /\ \A n \in 1 .. N : warned'[n] = warned[n]
  BY <1>1, <1>2, <1>3, Extend
<1>9. \A n \in Started : (Progress(n) /\ Logged(n))'
  <2>. SUFFICES ASSUME NEW n \in Started
                PROVE  (Progress(n) /\ Logged(n))'
    OBVIOUS
  <2>1. /\ UNCHANGED <<cmd[n], stage[n], arms[n], warned[n], compared[n]>>
        /\ Progress(n) /\ Logged(n)
    BY <1>1, <1>4, <1>5, <1>6, <1>7, <1>8 DEF VerdictInv
  <2>. QED
    BY <1>3, <2>1, LoggedStays, ProgressStays
<1>10. (Progress(N + 1) /\ Logged(N + 1))'
  <2>1. N + 1 \notin Started
    BY <1>1
  <2>2. \A k \in DOMAIN history : history[k].by # N + 1
    BY <1>1, <2>1, RowOwners
  <2>3. RowsBy(history, N + 1, Len(history)) = 0
    BY <1>1, <2>2, RowOwners, RowsByBounds
  <2>4. Progress(N + 1)'
    BY <1>5, <1>7 DEF Progress
  <2>5. Entries(N + 1)' = 0 /\ Len(arms'[N + 1]) = 0
    <3>1. Entries(N + 1)' = RowsBy(history, N + 1, Len(history)) + warned'[N + 1]
      BY <1>3 DEF Entries, RowsBy
    <3>2. Len(arms'[N + 1]) = 0
      BY <1>6, EmptySeq
    <3>. QED
      BY <1>8, <2>3, <3>1, <3>2
  <2>6. Logged(N + 1)'
    <3>1. \A k \in DOMAIN history' : history'[k].by # N + 1
      BY <1>3, <2>2
    <3>. QED
      BY <1>5, <2>5, <3>1 DEF Logged, RowsBy
  <2>. QED
    BY <2>4, <2>6
<1>11. \A n \in Started' : n \in Started \/ n = N + 1
  BY <1>1, <1>4
<1>. QED
  BY <1>9, <1>10, <1>11

(* The stages of a step that writes neither arms, nor history.             *)
LEMMA MoveVerdict ==
  ASSUME VerdictInv, NEW n \in Started, NEW s \in Stages,
         Goto(n, s), UNCHANGED <<cmd, arms, compared, warned, history>>,
         s \in {"report", "baseline", "html", "save", "verdict", "done"} =>
           Len(arms[n]) = Len(cmd[n].targets),
         cmd[n].baseline /\ s \in {"html", "save", "verdict", "done"} => compared[n] # 0,
         s # "history", stage[n] \in {"history", "killed"} => s = "killed"
  PROVE  \A m \in Started' : (Progress(m) /\ Logged(m))'
<1>1. /\ Started' = Started /\ stage'[n] = s
      /\ \A m \in Started \ {n} : stage'[m] = stage[m]
  BY DEF VerdictInv, CommandInv, TypeOK, Goto, Started
<1>2. \A m \in Started : Progress(m) /\ Logged(m)
  BY DEF VerdictInv
<1>3. ASSUME NEW m \in Started \ {n}
      PROVE  (Progress(m) /\ Logged(m))'
  BY <1>1, <1>2, <1>3, LoggedStays, ProgressStays
<1>4. Progress(n)'
  BY <1>1, <1>2 DEF Progress
<1>5. Logged(n)'
  <2>1. Entries(n)' = Entries(n) /\ Logged(n)
    BY <1>2 DEF Entries, RowsBy
  <2>. QED
    BY <1>1, <2>1 DEF Logged, RowsBy
<1>. QED
  BY <1>1, <1>3, <1>4, <1>5

LEMMA WiringVerdict ==
  ASSUME VerdictInv, NEW n \in Started,
         BuildTarget(n) \/ OpenStore(n) \/ BuildScorers(n) \/ Kill(n)
  PROVE  \A m \in Started' : (Progress(m) /\ Logged(m))'
<1>1. PICK s \in {"store", "scorers", "suite", "error", "killed"} :
        /\ Goto(n, s)
        /\ stage[n] \in {"history", "killed"} => s = "killed"
        /\ UNCHANGED <<cmd, arms, compared, warned, history>>
  BY DEF BuildTarget, OpenStore, BuildScorers, Kill
<1>2. s \in Stages
  BY DEF Stages, Ended
<1>. QED
  BY <1>1, <1>2, MoveVerdict

LEMMA ClosingVerdict ==
  ASSUME VerdictInv, NEW n \in Started,
         WriteReport(n) \/ WriteHtml(n) \/ SaveBaseline(n) \/ Verdict(n)
  PROVE  \A m \in Started' : (Progress(m) /\ Logged(m))'
<1>1. PICK s \in Stages :
        /\ Goto(n, s)
        /\ s \in {"baseline", "html", "save", "verdict", "done", "error"}
        /\ stage[n] = "report" /\ cmd[n].baseline => s \in {"baseline", "error"}
  <2>1. PICK s : /\ Goto(n, s)
                 /\ s \in {"baseline", "html", "save", "verdict", "done", "error"}
                 /\ stage[n] = "report" /\ cmd[n].baseline => s \in {"baseline", "error"}
    BY AfterType DEF WriteReport, WriteHtml, SaveBaseline, Verdict, After
  <2>. QED
    BY <2>1 DEF Stages, Ended
<1>2. /\ stage[n] \in {"report", "html", "save", "verdict"}
      /\ UNCHANGED <<cmd, arms, compared, warned, history>>
  BY DEF WriteReport, WriteHtml, SaveBaseline, Verdict
<1>3. Progress(n)
  BY DEF VerdictInv
<1>4. /\ Len(arms[n]) = Len(cmd[n].targets)
      /\ cmd[n].baseline /\ s \in {"html", "save", "verdict", "done"} => compared[n] # 0
  BY <1>1, <1>2, <1>3 DEF Progress
<1>. QED
  BY <1>1, <1>2, <1>4, MoveVerdict

(* The other commands do not notice a step that is not in the history.     *)
LEMMA OthersVerdict ==
  ASSUME VerdictInv, NEW n \in Started, NEW m \in Started \ {n},
         NEW s, NEW a, NEW d, Goto(n, s),
         arms' = [arms EXCEPT ![n] = a], compared' = [compared EXCEPT ![n] = d],
         UNCHANGED <<cmd, warned, history>>
  PROVE  Progress(m)' /\ Logged(m)'
<1>1. /\ stage'[m] = stage[m] /\ arms'[m] = arms[m] /\ compared'[m] = compared[m]
      /\ cmd'[m] = cmd[m] /\ warned'[m] = warned[m] /\ history' = history
  BY DEF VerdictInv, CommandInv, TypeOK, Goto
<1>2. Progress(m) /\ Logged(m)
  BY DEF VerdictInv
<1>. QED
  BY <1>1, <1>2, LoggedStays, ProgressStays

(* A suite more than there are entries, unless history is off; the rows    *)
(* that are there are of the suites before.                                *)
LEMMA RunSuiteVerdict ==
  ASSUME VerdictInv, NEW n \in Started, NEW passes \in SUBSET Positions(cmd[n]),
         RunSuite(n, passes)
  PROVE  \A m \in Started' : (Progress(m) /\ Logged(m))'
<1>1. PICK s : /\ s = IF cmd[n].history THEN "history"
                      ELSE AfterArm(cmd[n], Len(arms[n]) + 1)
               /\ Goto(n, s)
  BY DEF RunSuite
<1>2. /\ stage[n] = "suite"
      /\ arms' = [arms EXCEPT ![n] = Append(arms[n], passes)]
      /\ UNCHANGED <<cmd, compared, warned, history>>
  BY DEF RunSuite
<1>3. /\ CommandInv /\ Progress(n) /\ Logged(n) /\ warned[n] \in Nat
      /\ arms[n] \in Seq(SUBSET Positions(cmd[n])) /\ Len(arms[n]) \in Nat
      /\ Len(arms[n]) < Len(cmd[n].targets) /\ Len(cmd[n].targets) \in Nat
  <2>1. CommandInv /\ Progress(n) /\ Logged(n)
    BY DEF VerdictInv
  <2>. QED
    BY <1>2, <2>1, CommandFacts, LenProperties DEF Reaches
<1>4. /\ Started' = Started /\ stage'[n] = s /\ arms'[n] = Append(arms[n], passes)
  BY <1>1, <1>2, <1>3 DEF CommandInv, TypeOK, Goto, Started
<1>5. /\ Len(arms'[n]) = Len(arms[n]) + 1
      /\ \A k \in 1 .. Len(arms[n]) : arms'[n][k] = arms[n][k]
  BY <1>3, <1>4, AppendProperties
<1>6. s \in {"history", "suite", "report"} /\ (s = "history" <=> cmd[n].history)
  BY <1>1 DEF AfterArm
<1>7. Progress(n)'
  <2>1. s = "report" => Len(arms[n]) + 1 = Len(cmd[n].targets)
    BY <1>1, <1>3 DEF AfterArm
  <2>2. compared[n] # 0 => cmd[n].baseline
    BY <1>3 DEF Progress
  <2>. QED
    BY <1>2, <1>4, <1>5, <1>6, <2>1, <2>2 DEF Progress
<1>8. Logged(n)'
  <2>. SUFFICES ASSUME cmd[n].history
                PROVE  Logged(n)'
    BY <1>2 DEF Logged
  <2>1. Entries(n) = Len(arms[n])
    BY <1>2, <1>3 DEF Logged
  <2>2. Entries(n)' = Entries(n)
    BY <1>2 DEF Entries, RowsBy
  <2>3. ASSUME warned[n] = 0, NEW k \in DOMAIN history, history[k].by = n
        PROVE  history[k].passes = arms'[n][RowsBy(history, n, k)]
    <3>1. Len(history) \in Nat /\ k \in 1 .. Len(history)
      BY <1>3, RowOwners
    <3>2. RowsBy(history, n, k) >= 1 /\ RowsBy(history, n, k) <= RowsBy(history, n, Len(history))
      BY <2>3, <3>1, RowsByBounds
    <3>3. RowsBy(history, n, k) \in Nat /\ RowsBy(history, n, Len(history)) \in Nat
      BY <3>1, RowsByBounds
    <3>4. RowsBy(history, n, k) \in 1 .. Len(arms[n])
      BY <1>3, <2>1, <2>3, <3>2, <3>3 DEF Entries
    <3>5. history[k].passes = arms[n][RowsBy(history, n, k)]
      BY <1>3, <2>3 DEF Logged
    <3>. QED
      BY <1>5, <3>4, <3>5
  <2>. QED
    <3>1. warned'[n] = 0 =>
            \A k \in DOMAIN history' : history'[k].by = n =>
              history'[k].passes = arms'[n][RowsBy(history', n, k)]
      BY <1>2, <2>3
    <3>2. stage'[n] = "history"
      BY <1>2, <1>4, <1>6
    <3>3. /\ Len(arms'[n]) = Len(arms[n]) + 1 /\ Entries(n)' = Len(arms[n])
          /\ Len(arms[n]) \in Nat
      BY <1>3, <1>5, <2>1, <2>2
    <3>. QED
      BY <3>1, <3>2, <3>3 DEF Logged, RowsBy
<1>9. compared' = [compared EXCEPT ![n] = compared[n]]
  BY <1>2, <1>3 DEF CommandInv, TypeOK
<1>. QED
  BY <1>1, <1>2, <1>4, <1>7, <1>8, <1>9, OthersVerdict

(* The row, or the warning, that the suite was still without.              *)
LEMMA RecordHistoryVerdict ==
  ASSUME VerdictInv, NEW n \in Started, RecordHistory(n)
  PROVE  \A m \in Started' : (Progress(m) /\ Logged(m))'
<1>1. PICK s : s = AfterArm(cmd[n], Len(arms[n])) /\ Goto(n, s)
  BY DEF RecordHistory
<1>2. /\ stage[n] = "history"
      /\ UNCHANGED <<cmd, arms, compared>>
  BY DEF RecordHistory
<1>3. /\ CommandInv /\ warned \in [Started -> Nat]
      /\ \A m \in Started : Progress(m) /\ Logged(m)
      /\ arms[n] \in Seq(SUBSET Positions(cmd[n])) /\ Len(arms[n]) \in Nat
      /\ arms[n] # <<>> /\ Len(arms[n]) # 0
      /\ Len(arms[n]) <= Len(cmd[n].targets) /\ Len(cmd[n].targets) \in Nat
  <2>1. CommandInv /\ \A m \in Started : Progress(m) /\ Logged(m)
    BY DEF VerdictInv
  <2>2. arms[n] \in Seq(SUBSET Positions(cmd[n])) /\ arms[n] # <<>>
    BY <1>2, <2>1, CommandFacts DEF Reaches
  <2>. QED
    BY <2>1, <2>2, CommandFacts, LenProperties, EmptySeq
<1>4. /\ Started' = Started /\ stage'[n] = s
      /\ \A m \in Started \ {n} : stage'[m] = stage[m]
  BY <1>1, <1>2, <1>3 DEF CommandInv, TypeOK, Goto, Started
<1>5. s \in {"suite", "report"} /\ (s = "report" => Len(arms[n]) = Len(cmd[n].targets))
  BY <1>1, <1>3 DEF AfterArm
<1>6. \A m \in Started : Progress(m)'
  <2>1. Progress(n)'
    BY <1>2, <1>3, <1>4, <1>5 DEF Progress
  <2>2. ASSUME NEW m \in Started \ {n}
        PROVE  Progress(m)'
    BY <1>2, <1>3, <1>4, ProgressStays
  <2>. QED
    BY <2>1, <2>2
<1>7. CASE warned' = [warned EXCEPT ![n] = @ + 1] /\ UNCHANGED history
  <2>1. /\ warned'[n] = warned[n] + 1 /\ warned[n] \in Nat /\ history' = history
        /\ \A m \in Started \ {n} : warned'[m] = warned[m]
    BY <1>3, <1>7
  <2>2. Logged(n)'
    <3>1. Entries(n)' = Entries(n) + 1
      <4>1. RowsBy(history, n, Len(history)) \in Nat
        BY <1>3, RowOwners, RowsByBounds
      <4>2. Entries(n)' = RowsBy(history, n, Len(history)) + warned'[n]
        BY <2>1 DEF Entries, RowsBy
      <4>. QED
        BY <2>1, <4>1, <4>2 DEF Entries
    <3>2. cmd[n].history => Entries(n) + 1 = Len(arms[n])
      BY <1>2, <1>3 DEF Logged
    <3>. QED
      BY <1>2, <1>3, <1>4, <1>5, <2>1, <3>1, <3>2 DEF Logged, RowsBy
  <2>3. ASSUME NEW m \in Started \ {n}
        PROVE  Logged(m)'
    BY <1>2, <1>3, <1>4, <2>1, LoggedStays
  <2>. QED
    BY <1>4, <1>6, <2>2, <2>3
<1>8. CASE history' = Append(history, HistoryRow(n, Len(arms[n]))) /\ UNCHANGED warned
  <2>1. PICK row : row = HistoryRow(n, Len(arms[n]))
    OBVIOUS
  <2>2. PICK T : history \in Seq(T) /\ row \in T
    <3>1. Len(arms[n]) \in DOMAIN arms[n]
      BY <1>3, LenProperties
    <3>2. row \in UNION {HistoryRows(m) : m \in Started}
      BY <1>3, <2>1, <3>1 DEF HistoryRow, HistoryRows
    <3>. QED
      BY <1>3, <3>2, RowOwners
  <2>3. /\ row.by = n /\ row.passes = arms[n][Len(arms[n])]
        /\ history' = Append(history, row) /\ UNCHANGED warned
    BY <1>8, <2>1 DEF HistoryRow
  <2> DEFINE L == Len(history)
  <2>4. /\ L \in Nat /\ DOMAIN history = 1 .. L /\ Len(history') = L + 1
        /\ DOMAIN history' = 1 .. L + 1 /\ history'[L + 1] = row
        /\ \A k \in 1 .. L : history'[k] = history[k]
    <3>1. history' \in Seq(T)
      BY <2>2, <2>3, AppendProperties
    <3>. QED
      BY <2>2, <2>3, <3>1, AppendProperties, LenProperties
  <2>5. \A m : /\ \A k \in 0 .. L : RowsBy(history', m, k) = RowsBy(history, m, k)
               /\ RowsBy(history', m, L + 1) =
                    RowsBy(history, m, L) + (IF n = m THEN 1 ELSE 0)
    BY <2>2, <2>3, RowsByAppend
  <2>6. \A m : RowsBy(history, m, L) \in Nat
    BY <2>4, RowsByBounds
  <2>7. \A m \in Started : Entries(m)' = RowsBy(history', m, L + 1) + warned[m]
    BY <2>3, <2>4 DEF Entries, RowsBy
  <2>8. \A m \in Started : Entries(m)' = Entries(m) + (IF n = m THEN 1 ELSE 0)
    <3>. TAKE m \in Started
    <3>1. warned[m] \in Nat
      BY <1>3
    <3>. QED
      BY <2>5, <2>6, <2>7, <3>1 DEF Entries
  <2>9. ASSUME NEW m \in Started, cmd[m].history, warned[m] = 0,
               NEW k \in DOMAIN history', history'[k].by = m
        PROVE  history'[k].passes = arms[m][RowsBy(history', m, k)]
    <3>1. CASE k \in 1 .. L
      BY <1>3, <2>4, <2>5, <2>9, <3>1 DEF Logged
    <3>2. CASE k = L + 1
      <4>1. m = n
        BY <2>3, <2>4, <2>9, <3>2
      <4>2. RowsBy(history, n, L) + 1 = Len(arms[n])
        BY <1>2, <1>3, <2>6, <2>9, <4>1 DEF Logged, Entries
      <4>. QED
        BY <2>3, <2>4, <2>5, <3>2, <4>1, <4>2
    <3>. QED
      BY <2>4, <3>1, <3>2
  <2>. HIDE DEF L
  <2>10. ASSUME NEW m \in Started
         PROVE  Logged(m)'
    <3>. SUFFICES ASSUME cmd[m].history
                  PROVE  /\ Entries(m)' <= Len(arms[m])
                         /\ stage'[m] \notin {"history", "killed"} =>
                              Entries(m)' = Len(arms[m])
                         /\ stage'[m] = "history" => Entries(m)' + 1 = Len(arms[m])
      <4>1. cmd[m].history /\ warned'[m] = 0 =>
              \A k \in DOMAIN history' : history'[k].by = m =>
                history'[k].passes = arms'[m][RowsBy(history', m, k)]
        BY <1>2, <2>3, <2>9
      <4>2. arms' = arms /\ cmd' = cmd
        BY <1>2
      <4>. QED
        BY <4>1, <4>2 DEF Logged, RowsBy
    <3>1. CASE m = n
      <4>1. Entries(n) + 1 = Len(arms[n])
        BY <1>2, <1>3, <3>1 DEF Logged
      <4>. QED
        BY <1>3, <1>4, <1>5, <2>8, <3>1, <4>1
    <3>2. CASE m # n
      <4>1. Entries(m)' = Entries(m) /\ stage'[m] = stage[m]
        <5>1. Entries(m) \in Nat
          BY <1>3, <2>6 DEF Entries, L
        <5>. QED
          BY <1>4, <2>8, <3>2, <5>1
      <4>. QED
        BY <1>3, <4>1 DEF Logged
    <3>. QED
      BY <3>1, <3>2
  <2>. QED
    BY <1>4, <1>6, <2>10
<1>. QED
  BY <1>7, <1>8 DEF RecordHistory

(* There is a newest row to compare with.                                  *)
LEMMA CompareBaselineVerdict ==
  ASSUME VerdictInv, NEW n \in Started, CompareBaseline(n)
  PROVE  \A m \in Started' : (Progress(m) /\ Logged(m))'
<1>1. /\ stage[n] = "baseline"
      /\ UNCHANGED <<cmd, arms, warned, history>>
  BY DEF CompareBaseline
<1>2. CASE Goto(n, "error") /\ UNCHANGED compared
  BY <1>1, <1>2, MoveVerdict DEF Stages, Ended
<1>3. CASE /\ runs # <<>>
           /\ compared' = [compared EXCEPT ![n] = Newest]
           /\ Goto(n, After(cmd[n], "baseline"))
  <2>1. PICK s : s = After(cmd[n], "baseline") /\ Goto(n, s)
    BY <1>3
  <2>2. s \in {"html", "save", "verdict"}
    BY <2>1, AfterType
  <2>3. CommandInv /\ Progress(n) /\ Logged(n)
    BY DEF VerdictInv
  <2>4. Len(runs) # 0 /\ cmd[n].baseline
    <3>1. runs \in Seq(UNION {BaselineRows(m) : m \in Started})
      BY <2>3 DEF CommandInv, TypeOK
    <3>2. Len(runs) # 0
      BY <1>3, <3>1, EmptySeq
    <3>. QED
      BY <1>1, <2>3, <3>2, CommandFacts DEF Reaches
  <2>5. Started' = Started /\ stage'[n] = s /\ compared'[n] = Len(runs)
    BY <1>1, <1>3, <2>1, <2>3 DEF CommandInv, TypeOK, Goto, Started, Newest
  <2>6. Progress(n)'
    BY <1>1, <2>2, <2>3, <2>4, <2>5 DEF Progress
  <2>7. Logged(n)'
    <3>1. Entries(n)' = Entries(n)
      BY <1>1 DEF Entries, RowsBy
    <3>. QED
      BY <1>1, <2>2, <2>3, <2>5, <3>1 DEF Logged, RowsBy
  <2>8. \A m \in Started \ {n} : Progress(m)' /\ Logged(m)'
    <3>1. arms' = [arms EXCEPT ![n] = arms[n]]
      BY <1>1, <2>3 DEF CommandInv, TypeOK
    <3>. QED
      BY <1>1, <1>3, <2>1, <3>1, OthersVerdict
  <2>. QED
    BY <2>5, <2>6, <2>7, <2>8
<1>. QED
  BY <1>2, <1>3 DEF CompareBaseline

LEMMA VerdictStep == VerdictInv /\ [Next]_vars => VerdictInv'
<1>. SUFFICES ASSUME VerdictInv, [Next]_vars
              PROVE  VerdictInv'
  OBVIOUS
<1>1. CommandInv'
  BY CommandStep DEF VerdictInv
<1>2. ASSUME NEW c \in Script[Len(cmd) + 1], Len(cmd) < Len(Script), Start(c)
      PROVE  \A m \in Started' : (Progress(m) /\ Logged(m))'
  BY <1>2, StartVerdict
<1>3. ASSUME NEW n \in Started, Stage(n)
      PROVE  \A m \in Started' : (Progress(m) /\ Logged(m))'
  BY <1>3, WiringVerdict, RunSuiteVerdict, RecordHistoryVerdict, ClosingVerdict,
     CompareBaselineVerdict DEF Stage
<1>4. CASE UNCHANGED vars \/ AllEnded
  <2>1. UNCHANGED <<cmd, stage, arms, compared, warned, history>>
    BY <1>4 DEF AllEnded, vars, perCommand
  <2>. QED
    BY <1>1, <2>1, LoggedStays, ProgressStays DEF VerdictInv, Started
<1>. QED
  BY <1>1, <1>2, <1>3, <1>4 DEF Next, VerdictInv

(* VerdictInv holds however the commands overlap and wherever they are     *)
(* killed.                                                                 *)
THEOREM VerdictInvariant == Spec => []VerdictInv
<1>. QED
  BY VerdictInit, VerdictStep, PTL DEF Spec

(* Every suite has left its row, in arm order, or a warning                *)
(* (HistoryComplete).                                                      *)
THEOREM EverySuiteIsLogged == Spec => []HistoryComplete
<1>1. VerdictInv => HistoryComplete
  BY DEF VerdictInv, Logged, Entries, HistoryComplete
<1>. QED
  BY <1>1, VerdictInvariant, PTL

-----------------------------------------------------------------------------
(* The exit code.  RunCommand_ids shows what repeated ids do to it.  That  *)
(* the ids of a suite are a sequence holds of all invocations; FlattenSeq  *)
(* defines them by recursion, and so it is assumed.                        *)

DistinctIds ==
  \A c \in Invoked : Ids(c) \in Seq(STRING) /\ IsInjective(Ids(c))

(* With distinct ids no more than one case of an id fails.                 *)
LEMMA FailingOnce ==
  ASSUME NEW ids \in Seq(STRING), IsInjective(ids), NEW passes, NEW id
  PROVE  /\ Cardinality(Failing(ids, passes, id)) \in {0, 1}
         /\ Cardinality(Failing(ids, passes, id)) = 1 <=> Failing(ids, passes, id) # {}
<1>1. \A j, k \in Failing(ids, passes, id) : j = k
  BY DEF Failing, IsInjective
<1>2. CASE Failing(ids, passes, id) = {}
  BY <1>2, FS_EmptySet
<1>3. CASE Failing(ids, passes, id) # {}
  <2>1. PICK k : Failing(ids, passes, id) = {k}
    BY <1>1, <1>3
  <2>. QED
    BY <2>1, FS_Singleton
<1>. QED
  BY <1>2, <1>3

(* An id that the diff lets fail is one that failed in the baseline.       *)
LEMMA AcceptedFailure ==
  ASSUME NEW row, row.ids \in Seq(STRING), IsInjective(row.ids),
         NEW id, ~Regresses(row, id)
  PROVE  Failing(row.ids, row.passes, id) # {}
<1>1. /\ id \in Range(row.ids)
      /\ Max({k \in DOMAIN row.ids : row.ids[k] = id}) \notin row.passes
  BY DEF Regresses, ById
<1>2. PICK j \in DOMAIN row.ids : row.ids[j] = id
  BY <1>1 DEF Range
<1>3. {k \in DOMAIN row.ids : row.ids[k] = id} = {j} /\ j \in Nat
  BY <1>2, LenProperties DEF IsInjective
<1>4. Max({j}) = j
  BY <1>3 DEF Max
<1>. QED
  BY <1>1, <1>2, <1>3, <1>4 DEF Failing

(* Where ids are distinct, exit code 0 means that every suite of the       *)
(* command was run and passes its gates, and that no case fails that its   *)
(* baseline had not accepted (ExitZeroMeansAccepted).                      *)
THEOREM ExitZeroIsEarned ==
  ASSUME DistinctIds
  PROVE  Spec => []ExitZeroMeansAccepted
<1>1. VerdictInv => ExitZeroMeansAccepted
  <2>. SUFFICES ASSUME VerdictInv, NEW n \in Started, stage[n] = "done", Accepted(n)
                PROVE  /\ Len(arms[n]) = Len(cmd[n].targets)
                       /\ \A passes \in Range(arms[n]) :
                            /\ Cardinality(passes) >= Floor
                            /\ \A id \in Range(Ids(cmd[n])) :
                                 Cardinality(Failing(Ids(cmd[n]), passes, id)) <=
                                   IF compared[n] = 0 THEN 0
                                   ELSE Cardinality(Failing(runs[compared[n]].ids,
                                                            runs[compared[n]].passes, id))
    <3>1. \A m \in Started : ExitCode(m) = 0 => stage[m] = "done" /\ Accepted(m)
      BY DEF ExitCode
    <3>. QED
      BY <3>1 DEF ExitZeroMeansAccepted
  <2>1. /\ CommandInv /\ Len(arms[n]) = Len(cmd[n].targets)
        /\ compared[n] # 0 <=> cmd[n].baseline
    BY DEF VerdictInv, Progress
  <2>2. Ids(cmd[n]) \in Seq(STRING) /\ IsInjective(Ids(cmd[n]))
    BY <2>1, CommandFacts DEF DistinctIds
  <2>. SUFFICES ASSUME NEW passes \in Range(arms[n]), NEW id
                PROVE  /\ Cardinality(passes) >= Floor
                       /\ Cardinality(Failing(Ids(cmd[n]), passes, id)) <=
                            IF compared[n] = 0 THEN 0
                            ELSE Cardinality(Failing(runs[compared[n]].ids,
                                                     runs[compared[n]].passes, id))
    BY <2>1
  <2>3. Contract(n, passes) /\ Cardinality(passes) >= Floor
    BY DEF Accepted, GatesPass
  <2>4. CASE ~cmd[n].baseline
    <3>1. passes = Positions(cmd[n])
      BY <2>3, <2>4 DEF Contract
    <3>2. Failing(Ids(cmd[n]), passes, id) = {}
      BY <3>1 DEF Failing, Positions
    <3>. QED
      BY <2>1, <2>3, <2>4, <3>2, FS_EmptySet
  <2>5. CASE cmd[n].baseline
    <3> DEFINE row == runs[compared[n]]
    <3>1. row.ids \in Seq(STRING) /\ IsInjective(row.ids)
      <4>1. /\ runs \in Seq(UNION {BaselineRows(m) : m \in Started})
            /\ compared[n] \in 0 .. Len(runs)
        BY <2>1 DEF CommandInv, TypeOK
      <4>2. PICK m \in Started : row \in BaselineRows(m)
        BY <2>1, <2>5, <4>1
      <4>3. row.ids = Ids(cmd[m])
        BY <4>2 DEF BaselineRows
      <4>. QED
        BY <2>1, <4>3, CommandFacts DEF DistinctIds
    <3>2. ~DiffFails(row, Ids(cmd[n]), passes)
      BY <2>3, <2>5 DEF Contract
    <3>. HIDE DEF row
    <3>3. Failing(Ids(cmd[n]), passes, id) # {} => Failing(row.ids, row.passes, id) # {}
      <4>. SUFFICES ASSUME NEW k \in Failing(Ids(cmd[n]), passes, id)
                    PROVE  Failing(row.ids, row.passes, id) # {}
        OBVIOUS
      <4>1. ~Regresses(row, id)
        BY <3>2 DEF DiffFails, Failing
      <4>. QED
        BY <3>1, <4>1, AcceptedFailure
    <3>4. Cardinality(Failing(Ids(cmd[n]), passes, id)) <= Cardinality(Failing(row.ids, row.passes, id))
      BY <2>2, <3>1, <3>3, FailingOnce
    <3>. QED
      BY <2>1, <2>3, <2>5, <3>4 DEF row
  <2>. QED
    BY <2>4, <2>5
<1>. QED
  BY <1>1, VerdictInvariant, PTL
==============================================================================
