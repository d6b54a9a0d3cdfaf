------------------------------- MODULE LiveCall -------------------------------
(***************************************************************************)
(* One live call of an HTTP-shaped target: retry_with_backoff around an    *)
(* `attempt` that sends a request, reads the body under one time budget    *)
(* and classifies what came back (src/crates/evalcore-core/src/target.rs;  *)
(* the http and embeddings targets share the loop and have an attempt of   *)
(* the same shape).  The endpoint is the environment: it may refuse the    *)
(* connection, answer any status, break off the body, or stall at any      *)
(* point.  Time passes in ticks of half a second, the unit of the backoff  *)
(* schedule; Retry-After counts seconds, which are two ticks.              *)
(***************************************************************************)
EXTENDS Integers

CONSTANTS
  MaxRetries,    \* max_retries of the target
  Timeout,       \* timeout_seconds of the target, in ticks, per attempt
  MaxRetryAfter, \* bound on the Retry-After (seconds) the endpoint sends
  NoHeader       \* no Retry-After, or one that does not parse

ASSUME MaxRetriesAssumption == MaxRetries \in Nat
ASSUME TimeoutAssumption == Timeout \in Nat \ {0}
ASSUME RetryAfterAssumption == MaxRetryAfter \in Nat /\ NoHeader \notin Nat

VARIABLES
  parses,      \* the body must parse: FALSE for http without response_path
  phase,       \* "sending", "reading" the body, "sleeping" or "done"
  retries,     \* the loop's counter
  left,        \* ticks left of the attempt's budget, or of the sleep
  response,    \* status class and Retry-After of the response being read
  verdict,     \* what the call returned: "ok", "permanent", "exhausted"
  body,        \* the last body: "whole", "unfit" (parse fails), "broken" off
               \* or "stalled"
  sent,        \* requests sent so far
  now,         \* ticks since the call began
  granted      \* ticks the attempts and pauses so far were allowed to take

vars == <<parses, phase, retries, left, response, verdict, body, sent, now, granted>>

Statuses == {"success", "busy", "rejected"}   \* 2xx; 429 and 5xx; any other
Headers == (0 .. MaxRetryAfter) \cup {NoHeader}
NoResponse == [status |-> "rejected", retryAfter |-> NoHeader]

(* 500ms doubled per retry, capped at 10s.                                 *)
Backoff(n) == IF n < 5 THEN <<1, 2, 4, 8, 16>>[n + 1] ELSE 20

Delay(retryAfter, n) ==
  IF retryAfter = NoHeader THEN Backoff(n) ELSE 2 * retryAfter

(* How an attempt that read body b (or failed to: "broken" is read as an   *)
(* empty body) under status s ends.                                        *)
Classify(s, b) ==
  IF s = "busy" THEN "transient"
  ELSE IF s = "rejected" \/ (parses /\ b # "whole") THEN "permanent" ELSE "ok"

Init ==
  /\ parses \in BOOLEAN
  /\ phase = "sending"
  /\ retries = 0
  /\ left = Timeout
  /\ response = NoResponse
  /\ verdict = "none"
  /\ body = "none"
  /\ sent = 1
  /\ now = 0
  /\ granted = Timeout

End(v) ==
  /\ phase' = "done"
  /\ verdict' = v
  /\ UNCHANGED <<retries, left, sent, granted>>

RetrySlip(retryAfter) ==
  IF retries > MaxRetries
  THEN End("exhausted")
  ELSE /\ phase' = "sleeping"
       /\ left' = Delay(retryAfter, retries)
       /\ granted' = granted + Delay(retryAfter, retries)
       /\ UNCHANGED <<retries, verdict, sent>>

(* A transient failure: give up, or sleep before the next attempt.         *)
Retry(retryAfter) ==
  IF retries >= MaxRetries
  THEN End("exhausted")
  ELSE /\ phase' = "sleeping"
       /\ left' = Delay(retryAfter, retries)
       /\ granted' = granted + Delay(retryAfter, retries)
       /\ UNCHANGED <<retries, verdict, sent>>

(* Transport error while sending: transient, without a Retry-After.        *)
SendFails ==
  /\ phase = "sending"
  /\ Retry(NoHeader)
  /\ UNCHANGED <<parses, response, body, now>>

HeadersSlip(s, r) ==
  /\ phase = "sending"
  /\ phase' = "reading"
  /\ response' = [status |-> s, retryAfter |-> r]
  /\ left' = Timeout
  /\ UNCHANGED <<parses, retries, verdict, body, sent, now, granted>>

(* The status line and the headers arrive; the budget keeps running.       *)
HeadersArrive(s, r) ==
  /\ phase = "sending"
  /\ phase' = "reading"
  /\ response' = [status |-> s, retryAfter |-> r]
  /\ UNCHANGED <<parses, retries, left, verdict, body, sent, now, granted>>

(* The body is read to its end, or the read fails other than by timeout.   *)
BodyEnds(b) ==
  /\ phase = "reading"
  /\ body' = b
  /\ LET class == Classify(response.status, b) IN
       IF class = "transient" THEN Retry(response.retryAfter) ELSE End(class)
  /\ UNCHANGED <<parses, response, now>>

(* The body that the timeout finds: none yet, or one that has stalled.     *)
Stalled == IF phase = "reading" THEN "stalled" ELSE body

TimesOutSlip ==
  /\ phase \in {"sending", "reading"}
  /\ left = 0
  /\ body' = Stalled
  /\ LET class == Classify(response.status, "broken") IN
       IF phase = "reading" /\ class # "transient" THEN End(class) ELSE Retry(NoHeader)
  /\ UNCHANGED <<parses, response, now>>

TimesOutSlip2 ==
  /\ phase = "sending"
  /\ left = 0
  /\ Retry(NoHeader)
  /\ UNCHANGED <<parses, response, body, now>>

(* The budget is used up while sending or while reading: transient.        *)
TimesOut ==
  /\ phase \in {"sending", "reading"}
  /\ left = 0
  /\ body' = Stalled
  /\ Retry(NoHeader)
  /\ UNCHANGED <<parses, response, now>>

(* The sleep is over: next attempt, with a budget of its own.              *)
Wake ==
  /\ phase = "sleeping"
  /\ left = 0
  /\ phase' = "sending"
  /\ retries' = retries + 1
  /\ left' = Timeout
  /\ response' = NoResponse
  /\ body' = "none"
  /\ sent' = sent + 1
  /\ granted' = granted + Timeout
  /\ UNCHANGED <<parses, verdict, now>>

Tick ==
  /\ phase # "done"
  /\ left > 0
  /\ left' = left - 1
  /\ now' = now + 1
  /\ UNCHANGED <<parses, phase, retries, response, verdict, body, sent, granted>>

Done == phase = "done" /\ UNCHANGED vars

Next ==
  \/ SendFails
  \/ \E s \in Statuses, r \in Headers : HeadersArrive(s, r)
  \/ \E b \in {"whole", "unfit", "broken"} : BodyEnds(b)
  \/ TimesOut
  \/ Wake
  \/ Tick
  \/ Done

(* Time passes and timers fire.  Nothing is assumed of the endpoint.       *)
Fairness == WF_vars(Tick) /\ WF_vars(TimesOut) /\ WF_vars(Wake)

Spec == Init /\ [][Next]_vars /\ Fairness

-----------------------------------------------------------------------------

(* The longest pause between two attempts.                                 *)
LongestPause == IF 2 * MaxRetryAfter > 20 THEN 2 * MaxRetryAfter ELSE 20

TypeOK ==
  /\ parses \in BOOLEAN
  /\ phase \in {"sending", "reading", "sleeping", "done"}
  /\ retries \in 0 .. MaxRetries
  /\ left \in Nat
  /\ response \in [status : Statuses, retryAfter : Headers]
  /\ verdict \in {"none", "ok", "permanent", "exhausted"}
  /\ body \in {"none", "whole", "unfit", "broken", "stalled"}
  /\ sent \in Nat
  /\ now \in Nat
  /\ granted \in Nat

(* The endpoint sees at most max_retries + 1 requests, and a call that gave*)
(* up made exactly as many as its message says ("after N attempts", with   *)
(* N = retries + 1).                                                       *)
AttemptsExact ==
  /\ sent = retries + 1
  /\ sent <= MaxRetries + 1
  /\ verdict = "exhausted" => sent = MaxRetries + 1

(* A wedged or stalling endpoint costs a bounded time: every attempt, from *)
(* the connection to the end of its body, stays within one timeout, every  *)
(* pause within the delay that was asked for, and all of them together     *)
(* within a bound known in advance.                                        *)
ElapsedBound ==
  /\ now <= granted
  /\ granted <= (MaxRetries + 1) * Timeout + MaxRetries * LongestPause

(* The endpoint has answered for good in the current attempt: a body came  *)
(* to its end, or broke off, under a status that another try will not mend.*)
Answered == body \in {"whole", "unfit", "broken"} /\ response.status # "busy"

(* A call ends or goes on for the right reason.  It stops early only for   *)
(* what the endpoint has answered for good: a refused connection, a busy   *)
(* endpoint and a body that stalls until the timeout are tried again, also *)
(* where any text would do as an answer (a stalled body must not become a  *)
(* "false-successful empty answer", comment in http_target.rs).  It asks   *)
(* again, or gives up as exhausted, only while it has no such answer; and  *)
(* it succeeds only under 2xx, with a body that fits if it must parse.     *)
VerdictIsDue ==
  /\ verdict \in {"ok", "permanent"} => Answered
  /\ phase = "sleeping" \/ verdict = "exhausted" => ~Answered
  /\ verdict = "ok" => response.status = "success" /\ (parses => body = "whole")

(* A successful call carries a whole answer of the endpoint: neither a     *)
(* stalled nor a broken body becomes a "false-successful empty answer"     *)
(* (comment in http_target.rs).                                            *)
OkIsWhole == verdict = "ok" => body = "whole" \/ (~parses /\ body = "unfit")

(* The call returns, whatever the endpoint does or fails to do: this is the*)
(* assumption the engine makes of run_case.                                *)
CallReturns == <>(phase = "done")
=============================================================================
