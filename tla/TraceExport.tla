------------------------------ MODULE TraceExport ------------------------------
(***************************************************************************)
(* What a `trace` target makes of an OTel export: normalize_otel and       *)
(* root_final_output in src/crates/evalcore-core/src/trace.rs.  The spans  *)
(* come in the order of the document, which is the collector's; a span is  *)
(* its id, its parent, two timestamps, the tool it is a call of, the answer*)
(* its output attribute holds and its tokens, each of which may be missing.*)
(***************************************************************************)
EXTENDS Integers, Sequences, FiniteSets, FiniteSetsExt, SequencesExt

CONSTANTS
  Spans,      \* the spans an export may contain
  Missing,    \* the value of what a span does not have
  MaxSpans    \* bound on the spans of an export

(* A start of 0 would be OTel's "unknown": such exports are left out.      *)
ASSUME SpansAssumption ==
  \A s \in Spans :
    /\ s.start \in (Nat \ {0}) \cup {Missing}
    /\ {s.end, s.tokens} \subseteq Nat \cup {Missing}

VARIABLE spans   \* the export

TraceInit == spans = <<>>

Export(s) ==
  /\ Len(spans) < MaxSpans
  /\ spans' = Append(spans, s)

TraceNext == \E s \in Spans : Export(s)

-----------------------------------------------------------------------------

(* sort_by_key: by start, spans without one last.                          *)
Earlier(s, t) ==
  /\ s.start # Missing
  /\ t.start = Missing \/ s.start < t.start

SortedSlip(S) == S

(* The sort is stable: the rank of a span is the number of spans before it.*)
Precedes(S, i, j) == Earlier(S[i], S[j]) \/ (i < j /\ ~Earlier(S[j], S[i]))
Rank(S, i) == Cardinality({j \in DOMAIN S : j = i \/ Precedes(S, j, i)})
Sorted(S) == [r \in DOMAIN S |-> S[CHOOSE i \in DOMAIN S : Rank(S, i) = r]]

Steps(S) ==
  LET calls == SelectSeq(Sorted(S), LAMBDA s : s.tool # Missing)
  IN [k \in DOMAIN calls |-> calls[k].tool]

(* Tokens of all spans, tool calls or not; Missing if no span has any.     *)
Tokens(S) ==
  LET counted == {i \in DOMAIN S : S[i].tokens # Missing}
  IN IF counted = {} THEN Missing
     ELSE SumFunction([i \in counted |-> S[i].tokens])

(* From the first start to the last end, of the spans that have both.      *)
Latency(S) ==
  LET timed == {i \in DOMAIN S : Missing \notin {S[i].start, S[i].end}}
      first == Min({S[i].start : i \in timed})
      last == Max({S[i].end : i \in timed})
  IN IF timed # {} /\ first < last THEN last - first ELSE 0

(* A root has no parent, or one that the export lacks.                     *)
IsRoot(S, s) ==
  s.parent = Missing \/ s.parent \notin {S[i].id : i \in DOMAIN S}

(* The places of the roots that answer.                                    *)
Answering(S) ==
  {i \in DOMAIN S : IsRoot(S, Sorted(S)[i]) /\ Sorted(S)[i].answer # Missing}

Since(s) == IF s.start = Missing THEN 0 ELSE s.start

LastSlip(S) ==
  IF Answering(S) = {} THEN Missing ELSE Sorted(S)[Max(Answering(S))].answer

(* max_by_key: the latest root that answers, the last one of equals;       *)
(* a root without a start counts as the earliest.                          *)
FinalAnswer(S) ==
  LET T == Sorted(S)
      Latest(i) == \A j \in Answering(S) :
                     Since(T[j]) < Since(T[i]) \/ (Since(T[j]) = Since(T[i]) /\ j <= i)
  IN IF Answering(S) = {} THEN Missing
     ELSE T[CHOOSE i \in Answering(S) : Latest(i)].answer

(* What the target returns: the text is the answer, else the steps.        *)
TraceOutput(S) ==
  [text |-> IF FinalAnswer(S) = Missing THEN Steps(S) ELSE <<FinalAnswer(S)>>,
   trajectory |-> Steps(S), tokens |-> Tokens(S), latency |-> Latency(S)]

-----------------------------------------------------------------------------

Distinct(S) ==
  /\ \A i \in DOMAIN S : S[i].start # Missing
  /\ \A i, j \in DOMAIN S : S[i].start = S[j].start => i = j

(* Spans are exported as they end, a child before its parent, and by       *)
(* several batches: where the starts are distinct, nothing that is graded  *)
(* or billed depends on the order in which the spans were written.         *)
WriteOrderIrrelevant ==
  Distinct(spans) =>
    \A p \in Bijection(DOMAIN spans, DOMAIN spans) :
      TraceOutput([i \in DOMAIN spans |-> spans[p[i]]]) = TraceOutput(spans)

(* The answer that is graded is the last thing said at the top of the      *)
(* trace: it is missing only if no root said anything, and no root with a  *)
(* timestamp said something else after it ("a timestamped answer wins").   *)
LastWordIsGraded ==
  LET said == {i \in DOMAIN spans :
                 IsRoot(spans, spans[i]) /\ spans[i].answer # Missing}
      Unbeaten(i) == \A j \in said :
        spans[j].start # Missing =>
          spans[i].start # Missing /\ spans[j].start <= spans[i].start
  IN /\ FinalAnswer(spans) = Missing <=> said = {}
     /\ said # {} => \E i \in said :
          spans[i].answer = FinalAnswer(spans) /\ Unbeaten(i)
=============================================================================
