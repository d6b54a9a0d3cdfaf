----------------------------- MODULE Presentation -----------------------------
(***************************************************************************)
(* What a run writes to stdout and stderr, and how (ui.rs of the CLI, and  *)
(* the writes of run and run_matrix in main.rs): the progress line, the    *)
(* report, the baseline section, the banner with the verdict and hints.    *)
(* RunCommand has what the same stages decide and store.                   *)
(*                                                                         *)
(* A stream is the sequence of what was written to it; a piece is its kind *)
(* and whether it carries colour or glyphs.  The line of the progress      *)
(* display, which is overwritten in place, is kept apart.                  *)
(***************************************************************************)
EXTENDS Integers, Sequences, FiniteSets, SequencesExt

CONSTANTS
  Reporters,     \* of "terminal", "json" and "junit"
  Environments,  \* sets of "NO_COLOR", "dumb" and "CLICOLOR_FORCE"
  NumTicks       \* cases of a suite

ASSUME TicksAssumption == NumTicks \in Nat \ {0}

VARIABLES
  opts,    \* the flags, the environment, and what the streams are
  doing,   \* the stage of the command
  arm,     \* suites begun
  ticked,  \* Progress::done of the suite
  line,    \* the progress line on stderr, or {}
  out, err, file   \* what was written to stdout, stderr and --output

presentationVars == <<opts, doing, arm, ticked, line, out, err, file>>

Options ==
  [reporter : Reporters, file : BOOLEAN, color : {"auto", "always", "never"},
   progress : BOOLEAN, outTty : BOOLEAN, errTty : BOOLEAN, env : Environments,
   shape : {"single", "baseline", "matrix"}]

NumSuites == IF opts.shape = "matrix" THEN 2 ELSE 1

-----------------------------------------------------------------------------
(* ui::resolve. *)

ColorEnabled(tty) ==
  \/ opts.color = "always"
  \/ /\ opts.color = "auto"
     /\ opts.env \cap {"NO_COLOR", "dumb"} = {}
     /\ "CLICOLOR_FORCE" \in opts.env \/ tty

StreamStyle(tty) == [color |-> ColorEnabled(tty), glyphs |-> tty /\ "dumb" \notin opts.env]
OutStyle == StreamStyle(opts.outTty)
ErrStyle == StreamStyle(opts.errTty)
PlainStyle == [color |-> FALSE, glyphs |-> FALSE]
ShowsProgress == opts.progress /\ opts.errTty

(* Painted text has the colour of its style; only the banner has a glyph.  *)
Text(kind, color) == [kind |-> kind, color |-> color, glyphs |-> FALSE]
Banner(style) == [kind |-> "verdict", color |-> style.color, glyphs |-> style.glyphs]

-----------------------------------------------------------------------------

PresentationInit ==
  /\ opts \in Options
  /\ doing = "suite" /\ arm = 1 /\ ticked = 0 /\ line = {}
  /\ out = <<>> /\ err = <<>> /\ file = <<>>

(* Progress::tick: the count, and a frame; the sink is called from the one *)
(* task that polls the cases, so that no frame is ever contended.          *)
TickFrame ==
  /\ doing = "suite" /\ ticked < NumTicks
  /\ ticked' = ticked + 1
  /\ line' = IF ShowsProgress
             THEN {[count |-> ticked + 1, of |-> NumTicks, color |-> ErrStyle.color]} ELSE line
  /\ UNCHANGED <<opts, doing, arm, out, err, file>>

(* Progress::clear, of every arm's own display.                            *)
ClearLine == line' = {}

EndSuite ==
  /\ doing = "suite" /\ ticked = NumTicks
  /\ ClearLine
  /\ doing' = "history"
  /\ UNCHANGED <<opts, arm, ticked, out, err, file>>

(* record_history may warn.                                                *)
WarnOrNot ==
  /\ doing = "history"
  /\ err' \in {err, Append(err, Text("warning", FALSE))}
  /\ IF arm < NumSuites
     THEN doing' = "suite" /\ arm' = arm + 1 /\ ticked' = 0
     ELSE doing' = "report" /\ UNCHANGED <<arm, ticked>>
  /\ UNCHANGED <<opts, line, out, file>>

ReportStyle == IF opts.file THEN PlainStyle ELSE OutStyle

(* Machine reporters ignore the style.                                     *)
TheReport == Text("report", opts.reporter = "terminal" /\ ReportStyle.color)

PrintReport ==
  /\ doing = "report"
  /\ IF opts.file
     THEN /\ file' = <<TheReport>>
          /\ err' = Append(err, Text("written", FALSE))
          /\ UNCHANGED out
     ELSE out' = Append(out, TheReport) /\ UNCHANGED <<err, file>>
  /\ doing' = IF opts.shape = "baseline" THEN "section" ELSE "verdict"
  /\ UNCHANGED <<opts, arm, ticked, line>>

(* Where what accompanies the report goes.                                 *)
JoinsStdoutSlip == ~opts.file
JoinsStdout == opts.reporter = "terminal" /\ ~opts.file

Accompany(piece) ==
  IF JoinsStdout THEN out' = Append(out, piece) /\ UNCHANGED err
  ELSE err' = Append(err, piece) /\ UNCHANGED out
AccompanyingStyle == IF JoinsStdout THEN OutStyle ELSE ErrStyle

PrintSection ==
  /\ doing = "section"
  /\ Accompany(Text("section", AccompanyingStyle.color))
  /\ doing' = "saved"
  /\ UNCHANGED <<opts, arm, ticked, line, file>>

SaveNote ==
  /\ doing = "saved"
  /\ err' \in {err, Append(err, Text("saved", FALSE))}
  /\ doing' = "verdict"
  /\ UNCHANGED <<opts, arm, ticked, line, out, file>>

PrintVerdict ==
  /\ doing = "verdict"
  /\ Accompany(Banner(AccompanyingStyle))
  /\ doing' = IF opts.shape = "matrix" THEN "done" ELSE "hints"
  /\ UNCHANGED <<opts, arm, ticked, line, file>>

(* For cache misses under replay, and for an accepted regression.          *)
PrintHints ==
  /\ doing = "hints"
  /\ LET hint == Text("hint", ErrStyle.color) IN
       err' \in {err, Append(err, hint)}
                \cup (IF opts.shape = "baseline" THEN {Append(Append(err, hint), hint)} ELSE {})
  /\ doing' = "done"
  /\ UNCHANGED <<opts, arm, ticked, line, out, file>>

PresentationNext ==
  \/ TickFrame \/ EndSuite \/ WarnOrNot \/ PrintReport
  \/ PrintSection \/ SaveNote \/ PrintVerdict \/ PrintHints

-----------------------------------------------------------------------------

Kinds(stream) == {stream[k].kind : k \in DOMAIN stream}
Places(stream, kind) == {k \in DOMAIN stream : stream[k].kind = kind}

(* "The report owns stdout, progress and hints own stderr": whatever the   *)
(* flags, what a program reads from stdout is the report and nothing else, *)
(* a file holds it plain, and a finished run has told its verdict once,    *)
(* last of what is on its stream but for hints; nothing is written while a *)
(* line of progress is still on the terminal; and colour reaches only the  *)
(* stream whose own terminal, or an explicit wish, asks for it.            *)
StreamsKeepApart ==
  /\ opts.reporter # "terminal" => Kinds(out) \subseteq {"report"} /\ \A k \in DOMAIN out : ~out[k].color
  /\ opts.file => out = <<>> /\ \A k \in DOMAIN file : file[k] = Text("report", FALSE)
  /\ Kinds(out) \subseteq {"report", "section", "verdict"}
  /\ doing = "done" =>
       /\ Cardinality(Places(out, "verdict")) + Cardinality(Places(err, "verdict")) = 1
       /\ Cardinality(Places(out, "report")) + Cardinality(Places(file, "report")) = 1
       /\ \A k \in Places(out, "verdict") : k = Len(out)
       /\ \A k \in Places(err, "verdict"), n \in DOMAIN err : n > k => err[n].kind = "hint"
  /\ \A l \in line : doing = "suite" /\ l.count = ticked /\ opts.errTty
  /\ \A stream \in {<<out, opts.outTty>>, <<err, opts.errTty>>} :
       (\E k \in DOMAIN stream[1] : stream[1][k].color) =>
         \/ opts.color = "always"
         \/ /\ opts.color = "auto" /\ "NO_COLOR" \notin opts.env
            /\ stream[2] \/ "CLICOLOR_FORCE" \in opts.env
=============================================================================
