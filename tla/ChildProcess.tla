----------------------------- MODULE ChildProcess -----------------------------
(***************************************************************************)
(* One command run for a case: a shell target (target.rs, ShellTarget) or  *)
(* a subprocess scorer (subprocess.rs).  Both spawn `sh -c cmd`, write the *)
(* whole payload into its stdin, close it, and only then wait for the exit *)
(* while draining stdout; they differ in what a broken pipe means.         *)
(*                                                                         *)
(* The pipes hold PipeSize units (of whatever the kernel buffers); sizes   *)
(* are counted in such units.  The command is the user's: it is external   *)
(* and one of three programs,                                              *)
(*   "filter"     copies its input as it comes, like `cat`                 *)
(*   "collector"  reads to the end of its input before it answers          *)
(*   "deaf"       answers without reading                                  *)
(* any of which may also fail at any point.                                *)
(***************************************************************************)
EXTENDS Integers

CONSTANTS
  PipeSize,     \* capacity of a pipe
  PayloadSize,  \* what is written to the command's stdin
  AnswerSize,   \* what a "collector" or a "deaf" command prints
  Programs      \* the commands considered

ASSUME PipeAssumption == PipeSize \in Nat \ {0}
ASSUME SizesAssumption == PayloadSize \in Nat /\ AnswerSize \in Nat
ASSUME ProgramsAssumption == Programs \subseteq {"filter", "collector", "deaf"}

VARIABLES
  caller,    \* "target" or "scorer"
  phase,     \* "spawning", "writing", "waiting" or "done"
  written,   \* units of the payload written
  closed,    \* the write end of stdin is closed: the command sees EOF
  got,       \* units read from stdout
  verdict,   \* "none", "ok", "failed", or "broken" (the write failed)
  program,   \* which command it is
  taken,     \* units the command read
  put,       \* units the command printed
  status     \* "unborn", "running", or how it exited: "success", "failure"

callerVars == <<caller, phase, written, closed, got, verdict>>
childVars == <<program, taken, put, status>>
vars == <<callerVars, childVars>>

InStdin == written - taken
InStdout == put - got
Running == status = "running"
Exited == status \in {"success", "failure"}

Init ==
  /\ caller \in {"target", "scorer"}
  /\ phase = "spawning"
  /\ written = 0
  /\ closed = FALSE
  /\ got = 0
  /\ verdict = "none"
  /\ program \in Programs
  /\ taken = 0
  /\ put = 0
  /\ status = "unborn"

Spawn ==
  /\ phase = "spawning"
  /\ phase' = "writing"
  /\ status' = "running"
  /\ UNCHANGED <<caller, written, closed, got, verdict, program, taken, put>>

SpawnFails ==
  /\ phase = "spawning"
  /\ phase' = "done"
  /\ verdict' = "failed"
  /\ UNCHANGED <<caller, written, closed, got, childVars>>

(* write_all: the next unit goes into the pipe as soon as there is room.   *)
Write ==
  /\ phase = "writing"
  /\ written < PayloadSize
  /\ Running
  /\ InStdin < PipeSize
  /\ written' = written + 1
  /\ UNCHANGED <<caller, phase, closed, got, verdict, childVars>>

BrokenPipeSlip ==
  /\ phase = "writing"
  /\ written < PayloadSize
  /\ Exited
  /\ phase' = "done"
  /\ verdict' = "broken"
  /\ closed' = TRUE
  /\ UNCHANGED <<caller, written, got, childVars>>

(* The command exited with payload left to write: the target goes on to    *)
(* its exit status, the scorer gives up.                                   *)
BrokenPipe ==
  /\ phase = "writing"
  /\ written < PayloadSize
  /\ Exited
  /\ IF caller = "target"
     THEN phase' = "waiting" /\ verdict' = verdict
     ELSE phase' = "done" /\ verdict' = "broken"
  /\ closed' = TRUE
  /\ UNCHANGED <<caller, written, got, childVars>>

CloseStdinSlip ==
  /\ phase = "writing"
  /\ written = PayloadSize
  /\ phase' = "waiting"
  /\ UNCHANGED <<caller, closed, written, got, verdict, childVars>>

(* shutdown, and the drop of the handle at the end of the block.           *)
CloseStdin ==
  /\ phase = "writing"
  /\ written = PayloadSize
  /\ phase' = "waiting"
  /\ closed' = TRUE
  /\ UNCHANGED <<caller, written, got, verdict, childVars>>

(* wait_with_output reads stdout to its end ...                            *)
Drain ==
  /\ phase = "waiting"
  /\ InStdout > 0
  /\ got' = got + 1
  /\ UNCHANGED <<caller, phase, written, closed, verdict, childVars>>

CollectSlip ==
  /\ phase = "waiting"
  /\ Exited
  /\ phase' = "done"
  /\ verdict' = IF status = "success" THEN "ok" ELSE "failed"
  /\ UNCHANGED <<caller, written, closed, got, childVars>>

(* ... and has the exit status.                                            *)
Collect ==
  /\ phase = "waiting"
  /\ Exited
  /\ InStdout = 0
  /\ phase' = "done"
  /\ verdict' = IF status = "success" THEN "ok" ELSE "failed"
  /\ UNCHANGED <<caller, written, closed, got, childVars>>

-----------------------------------------------------------------------------
(* The command. *)

AtEOF == closed /\ InStdin = 0

ChildReads ==
  /\ Running
  /\ InStdin > 0
  /\ \/ program = "collector"
     \/ program = "filter" /\ put = taken
  /\ taken' = taken + 1
  /\ UNCHANGED <<callerVars, program, put, status>>

HasToPrint ==
  \/ program = "filter" /\ put < taken
  \/ program = "collector" /\ AtEOF /\ put < AnswerSize
  \/ program = "deaf" /\ put < AnswerSize

ChildPrints ==
  /\ Running
  /\ HasToPrint
  /\ InStdout < PipeSize
  /\ put' = put + 1
  /\ UNCHANGED <<callerVars, program, taken, status>>

ChildExits ==
  /\ Running
  /\ ~HasToPrint
  /\ program = "deaf" \/ AtEOF
  /\ status' \in {"success", "failure"}
  /\ UNCHANGED <<callerVars, program, taken, put>>

ChildFails ==
  /\ Running
  /\ status' = "failure"
  /\ UNCHANGED <<callerVars, program, taken, put>>

Done == phase = "done" /\ UNCHANGED vars

CallerNext ==
  Spawn \/ SpawnFails \/ Write \/ BrokenPipe \/ CloseStdin \/ Drain \/ Collect

ChildNext == ChildReads \/ ChildPrints \/ ChildExits

Next == CallerNext \/ ChildNext \/ ChildFails \/ Done

(* The caller's task is polled when a pipe is ready; the command does its  *)
(* work while it can and exits when that is done.                          *)
Fairness == WF_vars(CallerNext) /\ WF_vars(ChildNext)

Spec == Init /\ [][Next]_vars /\ Fairness

-----------------------------------------------------------------------------

(* Types, with the capacity of the pipes.                                  *)
TypeOK ==
  /\ caller \in {"target", "scorer"}
  /\ phase \in {"spawning", "writing", "waiting", "done"}
  /\ written \in 0 .. PayloadSize
  /\ closed \in BOOLEAN
  /\ got \in Nat
  /\ verdict \in {"none", "ok", "failed", "broken"}
  /\ program \in Programs
  /\ taken \in Nat /\ put \in Nat
  /\ InStdin \in 0 .. PipeSize
  /\ InStdout \in 0 .. PipeSize
  /\ status \in {"unborn", "running", "success", "failure"}

(* "EPIPE here must not mask the child's real exit status" (target.rs): a  *)
(* target whose command ran gets the verdict of its exit status, however   *)
(* much of its input the command read.                                     *)
VerdictIsStatus ==
  /\ verdict = "ok" => status = "success"
  /\ caller = "target" /\ phase = "done" /\ status = "success" => verdict = "ok"

(* A successful command is graded on all it printed, and a filter on all   *)
(* of the input: neither closing stdin nor the exit cuts the output short. *)
OutputWhole ==
  verdict = "ok" =>
    /\ got = put
    /\ program = "filter" => got = PayloadSize

(* The call comes back: a failing or misbehaving command "becomes a failed *)
(* case", "the run still finishes and reports every other case"            *)
(* (quickstart.md:119), and "one bad scorer never aborts the suite"        *)
(* (subprocess-protocol.md:78).                                            *)
CommandReturns == <>(phase = "done")
=============================================================================
