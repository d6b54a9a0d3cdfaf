---------------------------- MODULE LiveCallProofs ----------------------------
(***************************************************************************)
(* What LiveCall guarantees for every number of retries, every timeout and *)
(* every Retry-After.  CallInv is inductive: beyond the properties it      *)
(* says that a pending timer never promises more than was granted, and how *)
(* far the grants of the attempts made so far can have gone.               *)
(***************************************************************************)
EXTENDS LiveCall, TLAPS

(* The most that can be granted to n attempts with m pauses.               *)
Allowance(n, m) == n * Timeout + m * LongestPause

Counted ==
  /\ sent = retries + 1
  /\ phase = "sleeping" => retries < MaxRetries
  /\ verdict = "exhausted" => retries = MaxRetries
  /\ verdict # "none" => phase = "done"

WithinGrant ==
  /\ now <= granted
  /\ phase # "done" => now + left <= granted

Bounded ==
  /\ phase = "sleeping" => granted <= Allowance(retries + 1, retries + 1)
  /\ phase # "sleeping" => granted <= Allowance(retries + 1, retries)

(* An attempt that is not over has no body yet, and the verdict is due.    *)
Honest ==
  /\ phase \in {"sending", "reading"} => body = "none"
  /\ VerdictIsDue

CallInv == TypeOK /\ Counted /\ WithinGrant /\ Bounded /\ Honest

-----------------------------------------------------------------------------

USE DEF Statuses, Headers, NoResponse

(* Every pause the loop can ask for is a number of ticks within the bound. *)
LEMMA DelayBound ==
  ASSUME NEW r \in Headers, NEW n \in Nat
  PROVE  Delay(r, n) \in Nat /\ Delay(r, n) <= LongestPause
BY MaxRetriesAssumption, RetryAfterAssumption
   DEF Delay, Backoff, LongestPause

LEMMA PauseIsNat == LongestPause \in Nat
BY RetryAfterAssumption DEF LongestPause

(* One more attempt, one more pause.                                       *)
LEMMA AllowanceStep ==
  ASSUME NEW n \in Nat, NEW m \in Nat
  PROVE  /\ Allowance(n, m) \in Nat
         /\ Allowance(n + 1, m) = Allowance(n, m) + Timeout
         /\ Allowance(n, m + 1) = Allowance(n, m) + LongestPause
<1>1. \A a, b \in Nat : a * b \in Nat /\ (a + 1) * b = a * b + b
  OBVIOUS
<1>2. Timeout \in Nat /\ LongestPause \in Nat
  BY TimeoutAssumption, PauseIsNat
<1>. QED
  BY <1>1, <1>2 DEF Allowance

LEMMA TimesMonotone ==
  ASSUME NEW a \in Nat, NEW b \in Nat, NEW c \in Nat, a <= b
  PROVE  a * c <= b * c
<1>1. PICK d \in Nat : b = a + d
  <2>1. b - a \in Nat /\ b = a + (b - a)
    OBVIOUS
  <2>. QED
    BY <2>1
<1>2. b * c = a * c + d * c
  BY <1>1
<1>3. a * c \in Nat /\ d * c \in Nat
  OBVIOUS
<1>. QED
  BY <1>2, <1>3

-----------------------------------------------------------------------------

(* Giving up or going to sleep, the common part of every transient failure.*)
LEMMA RetryKeepsInv ==
  ASSUME CallInv, NEW r \in Headers, Retry(r), phase \in {"sending", "reading"},
         UNCHANGED <<parses, now>>, body' \in {"none", "whole", "unfit", "broken", "stalled"},
         response' = response,
         body' \in {"none", "stalled"} \/ response.status = "busy"
  PROVE  CallInv'
<1>. USE DEF CallInv, TypeOK, Counted, WithinGrant, Honest, VerdictIsDue, Answered
<1>1. retries \in Nat /\ MaxRetries \in Nat /\ granted \in Nat
  BY MaxRetriesAssumption
<1>2. Allowance(retries + 1, retries + 1)
        = Allowance(retries + 1, retries) + LongestPause
  BY <1>1, AllowanceStep
<1>3. Allowance(retries + 1, retries) \in Nat /\ LongestPause \in Nat
  BY <1>1, AllowanceStep, PauseIsNat
<1>4. granted <= Allowance(retries + 1, retries)
  BY DEF Bounded
<1>5. verdict = "none"
  OBVIOUS
<1>6. CASE retries >= MaxRetries
  <2>1. /\ phase' = "done" /\ verdict' = "exhausted"
        /\ UNCHANGED <<retries, left, sent, granted>>
    BY <1>6 DEF Retry, End
  <2>2. retries = MaxRetries
    BY <1>1, <1>6
  <2>3. Bounded'
    BY <1>4, <2>1 DEF Bounded, Allowance, LongestPause
  <2>. QED
    BY <2>1, <2>2, <2>3
<1>7. CASE ~(retries >= MaxRetries)
  <2>. DEFINE d == Delay(r, retries)
  <2>1. /\ phase' = "sleeping" /\ left' = d /\ granted' = granted + d
        /\ UNCHANGED <<retries, verdict, sent>>
    BY <1>7 DEF Retry
  <2>2. d \in Nat /\ d <= LongestPause
    BY <1>1, DelayBound
  <2>. HIDE DEF d
  <2>3. granted + d <= Allowance(retries + 1, retries + 1)
    BY <1>1, <1>2, <1>3, <1>4, <2>2
  <2>4. Bounded'
    BY <2>1, <2>3 DEF Bounded, Allowance, LongestPause
  <2>5. TypeOK' /\ Counted' /\ WithinGrant' /\ Honest'
    BY <1>1, <1>5, <1>7, <2>1, <2>2
  <2>. QED
    BY <2>4, <2>5
<1>. QED
  BY <1>6, <1>7

LEMMA InitEstablishes == Init => CallInv
<1>. SUFFICES ASSUME Init PROVE CallInv
  OBVIOUS
<1>1. Allowance(1, 0) = Timeout /\ Timeout \in Nat
  BY TimeoutAssumption, PauseIsNat DEF Allowance
<1>. QED
  BY <1>1, MaxRetriesAssumption
     DEF Init, CallInv, TypeOK, Counted, WithinGrant, Bounded, Honest, VerdictIsDue, Answered

LEMMA StepPreserves == CallInv /\ [Next]_vars => CallInv'
<1>. SUFFICES ASSUME CallInv, [Next]_vars PROVE CallInv'
  OBVIOUS
<1>. USE DEF CallInv, TypeOK, Counted, WithinGrant, Honest, VerdictIsDue, Answered
<1>a. NoHeader \in Headers
  OBVIOUS
<1>1. CASE SendFails
  BY <1>1, <1>a, RetryKeepsInv DEF SendFails
<1>2. ASSUME NEW s \in Statuses, NEW r \in Headers, HeadersArrive(s, r)
      PROVE  CallInv'
  <2>1. Bounded'
    BY <1>2 DEF HeadersArrive, Bounded, Allowance, LongestPause
  <2>. QED
    BY <1>2, <2>1 DEF HeadersArrive
<1>3. ASSUME NEW b \in {"whole", "unfit", "broken"}, BodyEnds(b)
      PROVE  CallInv'
  <2>. DEFINE class == Classify(response.status, b)
  <2>1. response.status \in Statuses /\ response.retryAfter \in Headers
    OBVIOUS
  <2>2. CASE class = "transient"
    <3>1. response.status = "busy"
      BY <2>2 DEF Classify
    <3>. QED
      BY <1>3, <2>1, <2>2, <3>1, RetryKeepsInv DEF BodyEnds
  <2>3. CASE class # "transient"
    <3>1. /\ phase = "reading" /\ phase' = "done" /\ verdict' = class /\ body' = b
          /\ UNCHANGED <<parses, retries, left, sent, granted, response, now>>
      BY <1>3, <2>3 DEF BodyEnds, End
    <3>2. class \in {"ok", "permanent"}
      BY <2>1, <2>3 DEF Classify
    <3>3. /\ response.status # "busy"
          /\ class = "ok" => response.status = "success" /\ (parses => b = "whole")
      BY <2>1, <2>3 DEF Classify
    <3>4. Bounded'
      BY <3>1 DEF Bounded, Allowance, LongestPause
    <3>. QED
      BY <3>1, <3>2, <3>3, <3>4
  <2>. QED
    BY <2>2, <2>3
<1>4. CASE TimesOut
  BY <1>4, <1>a, RetryKeepsInv DEF TimesOut, Stalled
<1>5. CASE Wake
  <2>1. retries \in Nat /\ MaxRetries \in Nat /\ Timeout \in Nat
    BY MaxRetriesAssumption, TimeoutAssumption
  <2>2. Allowance(retries + 2, retries + 1)
          = Allowance(retries + 1, retries + 1) + Timeout
    BY <2>1, AllowanceStep
  <2>3. Allowance(retries + 1, retries + 1) \in Nat
    BY <2>1, AllowanceStep
  <2>4. granted + Timeout <= Allowance(retries + 2, retries + 1)
    BY <1>5, <2>1, <2>2, <2>3 DEF Wake, Bounded
  <2>5. phase' = "sending" /\ retries' = retries + 1 /\ granted' = granted + Timeout
    BY <1>5 DEF Wake
  <2>6. Bounded'
    BY <2>1, <2>4, <2>5 DEF Bounded, Allowance, LongestPause
  <2>. QED
    BY <1>5, <2>1, <2>6 DEF Wake
<1>6. CASE Tick
  <2>1. Bounded'
    BY <1>6 DEF Tick, Bounded, Allowance, LongestPause
  <2>. QED
    BY <1>6, <2>1 DEF Tick
<1>7. CASE UNCHANGED vars
  BY <1>7 DEF vars, Bounded, Allowance, LongestPause
<1>. QED
  BY <1>1, <1>2, <1>3, <1>4, <1>5, <1>6, <1>7 DEF Next, Done

THEOREM CallInvariant == Spec => []CallInv
BY InitEstablishes, StepPreserves, PTL DEF Spec

(* The types of a live call (TypeOK).                                      *)
THEOREM CallTypeCorrect == Spec => []TypeOK
<1>1. CallInv => TypeOK
  BY DEF CallInv
<1>. QED
  BY <1>1, CallInvariant, PTL

(* No call makes more than max_retries + 1 requests, and the count an      *)
(* exhausted call reports is the true one (AttemptsExact).                 *)
THEOREM AttemptsCounted == Spec => []AttemptsExact
<1>1. CallInv => AttemptsExact
  BY MaxRetriesAssumption DEF CallInv, TypeOK, Counted, AttemptsExact
<1>. QED
  BY <1>1, CallInvariant, PTL

(* Whatever the endpoint does, the time a call takes is bounded by its     *)
(* timeout, its retries and the longest pause (ElapsedBound).              *)
THEOREM ElapsedBounded == Spec => []ElapsedBound
<1>1. ASSUME CallInv PROVE ElapsedBound
  <2>1. retries \in Nat /\ MaxRetries \in Nat /\ Timeout \in Nat /\ retries <= MaxRetries
    BY <1>1, MaxRetriesAssumption, TimeoutAssumption DEF CallInv, TypeOK
  <2>2. LongestPause \in Nat
    BY PauseIsNat
  <2>. DEFINE k == IF phase = "sleeping" THEN retries + 1 ELSE retries
  <2>3. k \in Nat /\ k <= MaxRetries
    BY <1>1, <2>1 DEF CallInv, Counted
  <2>4. granted <= Allowance(retries + 1, k)
    BY <1>1 DEF CallInv, Bounded
  <2>. HIDE DEF k
  <2>5. (retries + 1) * Timeout <= (MaxRetries + 1) * Timeout
    BY <2>1, TimesMonotone
  <2>6. k * LongestPause <= MaxRetries * LongestPause
    BY <2>1, <2>2, <2>3, TimesMonotone
  <2>7. /\ (retries + 1) * Timeout \in Nat /\ (MaxRetries + 1) * Timeout \in Nat
        /\ k * LongestPause \in Nat /\ MaxRetries * LongestPause \in Nat
    BY <2>1, <2>2, <2>3
  <2>8. granted \in Nat /\ now <= granted
    BY <1>1 DEF CallInv, TypeOK, WithinGrant
  <2>. QED
    BY <2>4, <2>5, <2>6, <2>7, <2>8 DEF Allowance, ElapsedBound
<1>. QED
  BY <1>1, CallInvariant, PTL

(* A call ends, asks again or gives up for the right reason, whether its   *)
(* body must parse or not: what stalls or may pass is tried again, what is *)
(* answered for good ends it (VerdictIsDue).  That a raw body is whole does*)
(* not follow: run live_raw.                                               *)
THEOREM VerdictsAreDue == Spec => []VerdictIsDue
<1>1. CallInv => VerdictIsDue
  BY DEF CallInv, Honest
<1>. QED
  BY <1>1, CallInvariant, PTL
=============================================================================
