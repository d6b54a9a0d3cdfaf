-------------------------- MODULE ChildProcessProofs --------------------------
(***************************************************************************)
(* What ChildProcess guarantees for every size of pipe, payload and answer *)
(* and every mixture of commands.  ChildInv is inductive: beyond types and *)
(* the verdict it says in which phase the command may be alive, that the   *)
(* write end of a living command's stdin is closed only behind the whole   *)
(* payload, and that a filter is never more than a unit behind its input.  *)
(* From it follows when caller and command wait for each other for ever.   *)
(***************************************************************************)
EXTENDS ChildProcess, TLAPS

(* Which stages of caller and command go together; the caller reads only   *)
(* behind the close of stdin.                                              *)
Phases ==
  /\ phase = "spawning" => status = "unborn" /\ written = 0
  /\ phase \in {"writing", "waiting"} => status # "unborn"
  /\ phase = "done" => status # "running"
  /\ phase # "done" => verdict = "none"
  /\ phase \in {"spawning", "writing"} => ~closed /\ got = 0
  /\ phase = "waiting" => closed

(* A closed stdin is the whole payload, unless the command has exited.     *)
Delivered == closed /\ Running => written = PayloadSize

(* A filter copies, and succeeds only when it has copied everything.       *)
Copied ==
  program = "filter" =>
    /\ put <= taken /\ taken <= put + 1
    /\ status = "success" => put = PayloadSize

(* The verdict is the exit status; only the scorer has a third one.        *)
Judged ==
  /\ verdict = "ok" => status = "success" /\ got = put
  /\ phase = "done" => verdict # "none"
  /\ verdict = "failed" => status # "success"
  /\ verdict = "broken" => caller = "scorer"

ChildInv == TypeOK /\ Phases /\ Delivered /\ Copied /\ Judged

-----------------------------------------------------------------------------

USE DEF InStdin, InStdout, Running, Exited, AtEOF

LEMMA ChildInit == Init => ChildInv
<1>. SUFFICES ASSUME Init
              PROVE  ChildInv
  OBVIOUS
<1>1. TypeOK
  <2>1. closed \in BOOLEAN /\ program \in Programs
    BY DEF Init
  <2>. QED
    BY <2>1, PipeAssumption, SizesAssumption DEF Init, TypeOK
<1>2. Phases
  BY DEF Init, Phases
<1>3. Delivered
  BY DEF Init, Delivered
<1>4. Copied
  BY DEF Init, Copied
<1>5. Judged
  BY DEF Init, Judged
<1>. QED
  BY <1>1, <1>2, <1>3, <1>4, <1>5 DEF ChildInv

(* The caller's steps.                                                     *)
LEMMA CallerKeepsInv == ChildInv /\ CallerNext => ChildInv'
<1>. SUFFICES ASSUME ChildInv, CallerNext
              PROVE  ChildInv'
  OBVIOUS
<1>. USE PipeAssumption, SizesAssumption
     DEF ChildInv, TypeOK, Phases, Delivered, Copied, Judged, childVars
<1>1. CASE Spawn
  BY <1>1 DEF Spawn
<1>2. CASE SpawnFails
  BY <1>2 DEF SpawnFails
<1>3. CASE Write
  BY <1>3 DEF Write
<1>4. CASE BrokenPipe
  <2>1. CASE caller = "target"
    BY <1>4, <2>1 DEF BrokenPipe
  <2>2. CASE caller = "scorer"
    BY <1>4, <2>2 DEF BrokenPipe
  <2>. QED
    BY <2>1, <2>2
<1>5. CASE CloseStdin
  BY <1>5 DEF CloseStdin
<1>6. CASE Drain
  BY <1>6 DEF Drain
<1>7. CASE Collect
  BY <1>7 DEF Collect
<1>. QED
  BY <1>1, <1>2, <1>3, <1>4, <1>5, <1>6, <1>7 DEF CallerNext

(* The command's steps.                                                    *)
LEMMA CommandKeepsInv == ChildInv /\ (ChildNext \/ ChildFails) => ChildInv'
<1>. SUFFICES ASSUME ChildInv, ChildNext \/ ChildFails
              PROVE  ChildInv'
  OBVIOUS
<1>. USE PipeAssumption, SizesAssumption, ProgramsAssumption
     DEF ChildInv, TypeOK, Phases, Delivered, Copied, Judged, callerVars
<1>1. CASE ChildReads
  BY <1>1 DEF ChildReads
<1>2. CASE ChildPrints
  BY <1>2 DEF ChildPrints, HasToPrint
<1>3. CASE ChildExits
  <2>1. status' = "success" /\ program = "filter" => put = PayloadSize
    BY <1>3 DEF ChildExits, HasToPrint
  <2>. QED
    BY <1>3, <2>1 DEF ChildExits
<1>4. CASE ChildFails
  BY <1>4 DEF ChildFails
<1>. QED
  BY <1>1, <1>2, <1>3, <1>4 DEF ChildNext

LEMMA ChildStep == ChildInv /\ [Next]_vars => ChildInv'
<1>. SUFFICES ASSUME ChildInv, [Next]_vars
              PROVE  ChildInv'
  OBVIOUS
<1>1. CASE UNCHANGED vars
  BY <1>1 DEF ChildInv, TypeOK, Phases, Delivered, Copied, Judged, vars, callerVars, childVars
<1>2. CASE Done
  BY <1>1, <1>2 DEF Done
<1>. QED
  BY <1>1, <1>2, CallerKeepsInv, CommandKeepsInv DEF Next

(* ChildInv holds throughout, whatever the command does.                   *)
THEOREM ChildInvariant == Spec => []ChildInv
<1>. QED
  BY ChildInit, ChildStep, PTL DEF Spec

(* Types, and no pipe ever holds more than it can (TypeOK).                *)
THEOREM ChildTypeCorrect == Spec => []TypeOK
<1>1. ChildInv => TypeOK
  BY DEF ChildInv
<1>. QED
  BY <1>1, ChildInvariant, PTL

(* A target whose command ran gets the verdict of its exit status, and     *)
(* nobody gets an "ok" from a command that failed (VerdictIsStatus).       *)
THEOREM VerdictFollowsStatus == Spec => []VerdictIsStatus
<1>1. ChildInv => VerdictIsStatus
  BY DEF ChildInv, TypeOK, Judged, VerdictIsStatus
<1>. QED
  BY <1>1, ChildInvariant, PTL

(* A successful command is graded on all of its output, a filter's on all  *)
(* of the payload (OutputWhole).                                           *)
THEOREM OutputIsWhole == Spec => []OutputWhole
<1>1. ChildInv => OutputWhole
  BY DEF ChildInv, TypeOK, Copied, Judged, OutputWhole
<1>. QED
  BY <1>1, ChildInvariant, PTL

-----------------------------------------------------------------------------
(* The critical payload.  Caller and command wait for each other when both *)
(* pipes are full, the one still writing and the other wanting to print.   *)

Jammed ==
  /\ phase = "writing"
  /\ written < PayloadSize
  /\ Running
  /\ InStdin = PipeSize
  /\ HasToPrint
  /\ InStdout = PipeSize

(* What fits: a filter's input into both pipes and its hands, and the      *)
(* answer or the input of a command that does not read into one pipe.      *)
Fits ==
  /\ "filter" \in Programs => PayloadSize <= 2 * PipeSize + 1
  /\ "deaf" \in Programs => PayloadSize <= PipeSize \/ AnswerSize <= PipeSize

(* The guards of CallerNext and of ChildNext.                              *)
CallerCanMove ==
  \/ phase = "spawning"
  \/ phase = "writing" /\ (written < PayloadSize => Exited \/ InStdin < PipeSize)
  \/ phase = "waiting" /\ (InStdout > 0 \/ Exited)

CommandCanMove ==
  /\ Running
  /\ \/ HasToPrint /\ InStdout < PipeSize
     \/ InStdin > 0 /\ program = "collector"
     \/ InStdin > 0 /\ program = "filter" /\ put = taken
     \/ ~HasToPrint /\ (program = "deaf" \/ AtEOF)

(* What fits never jams, whatever the sizes and however the two are        *)
(* scheduled: the input may well be larger than its pipe (target.rs:140,   *)
(* subprocess.rs:80).                                                      *)
THEOREM WhatFitsNeverJams ==
  ASSUME Fits
  PROVE  Spec => []~Jammed
<1>1. ASSUME ChildInv, Jammed
      PROVE  FALSE
  <2>. USE <1>1, PipeAssumption, SizesAssumption, ProgramsAssumption
       DEF ChildInv, TypeOK, Phases
  <2>1. got = 0 /\ ~closed
    BY DEF Jammed
  <2>2. CASE program = "filter"
    <3>1. put = PipeSize /\ put < taken /\ taken <= put + 1
      BY <2>1, <2>2 DEF Jammed, HasToPrint, Copied
    <3>2. written = 2 * PipeSize + 1 /\ written < PayloadSize
      BY <3>1 DEF Jammed
    <3>. QED
      BY <2>2, <3>2 DEF Fits
  <2>3. CASE program = "deaf"
    <3>1. put = PipeSize /\ put < AnswerSize
      BY <2>1, <2>3 DEF Jammed, HasToPrint
    <3>2. PipeSize < PayloadSize
      BY DEF Jammed
    <3>. QED
      BY <2>3, <3>1, <3>2 DEF Fits
  <2>4. CASE program = "collector"
    BY <2>1, <2>4 DEF Jammed, HasToPrint
  <2>. QED
    BY <2>2, <2>3, <2>4
<1>. QED
  BY <1>1, ChildInvariant, PTL

(* Whoever jams stays jammed until the command fails of itself: no step of *)
(* the caller ends it, for it has no timeout (target.rs:151).              *)
THEOREM JamsForGood == Spec => [][Jammed => Jammed' \/ ChildFails]_vars
<1>1. ASSUME ChildInv, Jammed, Next
      PROVE  Jammed' \/ ChildFails
  <2>. USE <1>1, PipeAssumption, SizesAssumption DEF ChildInv, TypeOK
  <2>1. ~CallerNext
    BY DEF CallerNext, Spawn, SpawnFails, Write, BrokenPipe, CloseStdin, Drain, Collect, Jammed
  <2>2. ~ChildNext
    <3>1. ~ChildPrints /\ ~ChildExits
      BY DEF ChildPrints, ChildExits, Jammed
    <3>2. ~ChildReads
      BY DEF ChildReads, Jammed, HasToPrint, Phases
    <3>. QED
      BY <3>1, <3>2 DEF ChildNext
  <2>3. ~Done
    BY DEF Done, Jammed
  <2>. QED
    BY <2>1, <2>2, <2>3 DEF Next
<1>. QED
  BY <1>1, ChildInvariant, PTL DEF Spec

(* There is no other way to stand still: a call that is not back and not   *)
(* jammed has a step of the caller or of the command to take.              *)
THEOREM OnlyJamsStandStill ==
  Spec => [](phase = "done" \/ Jammed \/ CallerCanMove \/ CommandCanMove)
<1>1. ASSUME ChildInv, phase # "done", ~Jammed, ~CallerCanMove
      PROVE  CommandCanMove
  <2>. USE <1>1, PipeAssumption, SizesAssumption, ProgramsAssumption
       DEF ChildInv, TypeOK, Phases
  <2>1. Running
    BY DEF CallerCanMove
  <2>2. CASE phase = "writing"
    <3>1. InStdin = PipeSize /\ written < PayloadSize
      BY <2>2 DEF CallerCanMove
    <3>2. CASE HasToPrint
      BY <2>1, <2>2, <3>1, <3>2 DEF CommandCanMove, Jammed
    <3>3. CASE ~HasToPrint
      BY <2>1, <3>1, <3>3 DEF CommandCanMove, HasToPrint, Copied
    <3>. QED
      BY <3>2, <3>3
  <2>3. CASE phase = "waiting"
    <3>1. InStdout = 0
      BY <2>3 DEF CallerCanMove
    <3>2. CASE HasToPrint
      BY <2>1, <3>1, <3>2 DEF CommandCanMove
    <3>3. CASE ~HasToPrint /\ InStdin > 0
      BY <2>1, <3>3 DEF CommandCanMove, HasToPrint, Copied
    <3>4. CASE ~HasToPrint /\ InStdin = 0
      BY <2>1, <2>3, <3>4 DEF CommandCanMove
    <3>. QED
      BY <3>2, <3>3, <3>4
  <2>4. phase \in {"writing", "waiting"}
    BY DEF CallerCanMove
  <2>. QED
    BY <2>2, <2>3, <2>4
<1>2. ChildInv => phase = "done" \/ Jammed \/ CallerCanMove \/ CommandCanMove
  BY <1>1
<1>. QED
  BY <1>2, ChildInvariant, PTL
=============================================================================
