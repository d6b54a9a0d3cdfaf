---------------------------- MODULE TrajectoryRules ----------------------------
(***************************************************************************)
(* The rules over an agent's tool calls: check_rule in                     *)
(* src/crates/evalcore-scorers/src/trajectory.rs.  A call is the tool and  *)
(* whether its input matches the `with` constraints of the rule at hand.   *)
(***************************************************************************)
EXTENDS Integers, Sequences, SequencesExt

CONSTANTS
  Tools,      \* names of tools
  Limits,     \* the values of max_steps
  MaxCalls,   \* bound on the calls of an agent
  NoTool      \* no `after`, no `before`

ASSUME LimitsAssumption == Limits \subseteq Nat
ASSUME NoToolAssumption == NoTool \notin Tools

VARIABLE steps   \* trajectory.steps

RulesInit == steps = <<>>

(* The agent calls a tool.                                                 *)
Call(tool, matches) ==
  /\ Len(steps) < MaxCalls
  /\ steps' = Append(steps, [tool |-> tool, matches |-> matches])

RulesNext == \E tool \in Tools, matches \in BOOLEAN : Call(tool, matches)

-----------------------------------------------------------------------------

MustCalls ==
  [kind : {"must_call"}, tool : Tools, with : BOOLEAN, after : Tools \cup {NoTool}]
MustNotCalls ==
  [kind : {"must_not_call"}, tool : Tools, before : Tools \cup {NoTool}]
MaxStepses == [kind : {"max_steps"}, limit : Limits]

Rules == MustCalls \cup MustNotCalls \cup MaxStepses

(* Index of the first call of the tool; 0 if there is none.                *)
FirstIndex(S, tool) == SelectInSeq(S, LAMBDA s : s.tool = tool)

MustCallHolds(rule, S) ==
  LET start == IF rule.after = NoTool THEN 0 ELSE FirstIndex(S, rule.after)
  IN /\ rule.after # NoTool => start > 0
     /\ \E i \in start + 1 .. Len(S) :
          S[i].tool = rule.tool /\ (rule.with => S[i].matches)

MustNotCallSlip(rule, S) ==
  \A i \in 1 .. (IF rule.before = NoTool THEN Len(S) ELSE FirstIndex(S, rule.before) - 1) :
    S[i].tool # rule.tool

(* A guard that never ran forbids every call.                              *)
MustNotCallHolds(rule, S) ==
  LET guard == IF rule.before = NoTool THEN 0 ELSE FirstIndex(S, rule.before)
      limit == IF guard = 0 THEN Len(S) ELSE guard - 1
  IN \A i \in 1 .. limit : S[i].tool # rule.tool

Holds(rule, S) ==
  \/ rule.kind = "must_call" /\ MustCallHolds(rule, S)
  \/ rule.kind = "must_not_call" /\ MustNotCallHolds(rule, S)
  \/ rule.kind = "max_steps" /\ Len(S) <= rule.limit

-----------------------------------------------------------------------------

(* What an agent does later cannot undo a verdict that its calls so far    *)
(* have decided: a must_call that holds keeps holding, a broken            *)
(* must_not_call or max_steps stays broken, and once its guard has run a   *)
(* must_not_call is decided either way.  Until then only a call of the     *)
(* forbidden tool breaks it, so that its verdict on a guard that never ran *)
(* is the one it would have just after.                                    *)
RulesSettle ==
  [][/\ \A rule \in MustCalls : Holds(rule, steps) => Holds(rule, steps')
     /\ \A rule \in MustNotCalls \cup MaxStepses :
          Holds(rule, steps') => Holds(rule, steps)
     /\ \A rule \in MustNotCalls :
          \/ \E i \in DOMAIN steps : steps[i].tool = rule.before
          \/ steps' # <<>> /\ Last(steps').tool # rule.tool
          => (Holds(rule, steps') <=> Holds(rule, steps))
    ]_steps
=============================================================================
