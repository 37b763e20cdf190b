------------------------------ MODULE ApiClient ------------------------------
(***************************************************************************)
(* One call of the API client: doWithRetry in internal/api/client.go with  *)
(* what its two callers, doJSONWithRetry and UploadTestResults, make of    *)
(* the response.                                                           *)
(*                                                                         *)
(* Time is counted in ticks.  A call has a budget for all its attempts     *)
(* (retryTimeout), which is looked at between attempts only, and every     *)
(* attempt, the reading of the response's body included, has a time-out    *)
(* of its own.  External: the network and the server, and the loop of      *)
(* roko.DoFunc, which calls back until there is no error or Break was      *)
(* called, and between calls waits for a timer or the end of the budget.   *)
(***************************************************************************)
EXTENDS Integers

CONSTANTS
  Calls,      \* the calls made: who makes them, and their two limits
  Intervals,  \* the intervals the exponential strategy, with jitter, may choose
  Resets      \* what a server may send as RateLimit-Reset

Call == [caller : {"json", "upload"}, budget : Nat \ {0}, attemptTimeout : Nat \ {0}]

ASSUME ApiClientAssumption ==
  /\ Calls \subseteq Call
  /\ Intervals \subseteq Nat \ {0} /\ Intervals # {}
  /\ Resets \subseteq Nat

\* Statuses that decide the call: 200, any other 2xx, the errors doJSONWithRetry has types
\* for (403 twice: its message may begin with "Billing Error"), and all the rest.
Deciding == {"ok", "accepted", "auth", "forbidden", "billing", "notFound", "badRequest",
             "unprocessable", "otherStatus"}

None == "none"

VARIABLES
  call,       \* the limits of this call
  pc,         \* where in doWithRetry, or after it, the call is
  left,       \* ticks until the deadline of retryContext
  flight,     \* ticks since the attempt was sent
  wait,       \* ticks until the timer of the interval fires
  lastError,  \* lastRetryError
  answer,     \* the status of the response that was not retried
  outcome,    \* what the caller of the client gets
  overrun,    \* history: ticks spent after the deadline, one more than a time-out at most
  hurried,    \* history: the server has asked for a retry at once after the deadline
  embargo,    \* history: ticks until the server's rate limit resets
  bodyLost    \* history: the network failed while the body was read

vars == <<call, pc, left, flight, wait, lastError, answer, outcome, overrun, hurried,
          embargo, bodyLost>>

clocks  == <<left, overrun, embargo>>
results == <<answer, outcome, bodyLost>>

Init ==
  /\ call \in Calls
  /\ pc = "build"
  /\ left = call.budget
  /\ flight = 0 /\ wait = 0
  /\ lastError = None
  /\ answer = None /\ outcome = None
  /\ overrun = 0 /\ hurried = FALSE /\ embargo = 0 /\ bodyLost = FALSE

-----------------------------------------------------------------------------
\* Building and sending a request.

\* Fault: Break is forgotten, and the failure is retried.
BuildFailureRetried ==
  /\ pc = "build"
  /\ lastError = None
  /\ wait' \in Intervals
  /\ pc' = "sleep"
  /\ UNCHANGED <<call, flight, lastError, hurried, clocks, results>>

\* The body or the URL is no good.  The same for every attempt, so only the first can fail.
NewRequestFails ==
  /\ pc = "build"
  /\ lastError = None
  /\ outcome' = "unexpected"
  /\ pc' = "done"
  /\ UNCHANGED <<call, flight, wait, lastError, hurried, clocks, answer, bodyLost>>

SendRequest ==
  /\ pc = "build"
  /\ flight' = 0
  /\ pc' = "inflight"
  /\ UNCHANGED <<call, wait, lastError, hurried, clocks, results>>

-----------------------------------------------------------------------------
\* How an attempt ends.  It takes time: no answer comes in the tick it is sent in.

\* Fault: the jitter may take all of an interval away.
IntervalsFromZero == Intervals \cup {0}

retryIntervals == Intervals

RetryAfter(error, interval) ==
  /\ lastError' = error
  /\ wait' = interval
  /\ pc' = "sleep"
  /\ UNCHANGED <<call, flight, left, overrun, results>>

NetworkError ==
  /\ pc = "inflight"
  /\ \E i \in retryIntervals : RetryAfter("network", i)
  /\ UNCHANGED <<hurried, embargo>>

\* Client.Timeout.
AttemptTimesOut ==
  /\ pc = "inflight"
  /\ flight = call.attemptTimeout
  /\ \E i \in retryIntervals : RetryAfter("network", i)
  /\ UNCHANGED <<hurried, embargo>>

\* 409: another client is creating the plan; or any 5xx.
RetryableAnswer ==
  /\ pc = "inflight" /\ flight > 0
  /\ \E error \in {"conflict", "serverError"}, i \in retryIntervals : RetryAfter(error, i)
  /\ UNCHANGED <<hurried, embargo>>

\* Fault: the header is not looked at.
RateLimitedBlindly ==
  /\ pc = "inflight" /\ flight > 0
  /\ \E reset \in Resets, i \in retryIntervals :
       /\ RetryAfter("rateLimit", i)
       /\ embargo' = reset
       /\ hurried' = (hurried \/ (reset = 0 /\ left = 0))

\* 429, with a readable RateLimit-Reset header or without.
RateLimited ==
  /\ pc = "inflight" /\ flight > 0
  /\ \/ \E reset \in Resets :
          /\ RetryAfter("rateLimit", reset)
          /\ embargo' = reset
          /\ hurried' = (hurried \/ (reset = 0 /\ left = 0))
     \/ \E i \in retryIntervals :
          /\ RetryAfter("rateLimit", i)
          /\ UNCHANGED <<hurried, embargo>>

\* Fault: a client error is remembered but retried like one of the server's.
ClientErrorsRetried ==
  /\ pc = "inflight" /\ flight > 0
  /\ \E a \in Deciding :
       /\ answer' = a
       /\ pc' = IF a \in {"ok", "accepted"} THEN "body" ELSE "sleep"
       /\ lastError' = IF a \in {"ok", "accepted"} THEN lastError ELSE "serverError"
  /\ \E i \in retryIntervals : wait' = i
  /\ UNCHANGED <<call, flight, hurried, clocks, outcome, bodyLost>>

\* Every other status ends the loop, whatever is left of the budget.
DecidingAnswer ==
  /\ pc = "inflight" /\ flight > 0
  /\ \E a \in Deciding : answer' = a
  /\ pc' = "body"
  /\ UNCHANGED <<call, flight, wait, lastError, hurried, clocks, outcome, bodyLost>>

-----------------------------------------------------------------------------
\* Between attempts: sleepOrDone.  With both ready, Go's select takes either.

TimerFires ==
  /\ pc = "sleep"
  /\ wait = 0
  /\ pc' = "build"
  /\ UNCHANGED <<call, flight, wait, lastError, hurried, clocks, results>>

\* Fault: the loop runs under the caller's context, which has no deadline.
NoDeadline ==
  /\ pc = "sleep"
  /\ left < 0
  /\ outcome' = "timeout"
  /\ pc' = "done"
  /\ UNCHANGED <<call, flight, wait, lastError, hurried, clocks, answer, bodyLost>>

BudgetSpent ==
  /\ pc = "sleep"
  /\ left = 0
  /\ outcome' = "timeout"
  /\ pc' = "done"
  /\ UNCHANGED <<call, flight, wait, lastError, hurried, clocks, answer, bodyLost>>

-----------------------------------------------------------------------------
\* The response, read under the attempt's time-out.  To doJSONWithRetry every status but
\* 200 is an error, and every body must be JSON, or empty with status 200.

\* The status is one the callers of doJSONWithRetry can tell from an unexpected error.
Told(a) == a \notin {"accepted", "otherStatus"}

ReadBody ==
  /\ pc = "body"
  /\ outcome' \in IF call.caller = "upload" THEN {answer}
                  ELSE IF Told(answer) THEN {answer, "unexpected"}
                  ELSE {"unexpected"}
  /\ pc' = "done"
  /\ UNCHANGED <<call, flight, wait, lastError, hurried, clocks, answer, bodyLost>>

\* The connection breaks, or the attempt's time-out strikes, in the middle of the body: an
\* upload ignores it.
BodyBreaksOff ==
  /\ pc = "body"
  /\ outcome' = IF call.caller = "upload" THEN answer ELSE "unexpected"
  /\ bodyLost' = TRUE
  /\ pc' = "done"
  /\ UNCHANGED <<call, flight, wait, lastError, hurried, clocks, answer>>

-----------------------------------------------------------------------------
Less(n) == IF n = 0 THEN 0 ELSE n - 1

\* Whatever is due happens before more time passes.
Tick ==
  /\ \/ /\ pc \in {"inflight", "body"}
        /\ flight < call.attemptTimeout
        /\ flight' = flight + 1
        /\ UNCHANGED wait
     \/ /\ pc = "sleep"
        /\ wait > 0 /\ left > 0
        /\ wait' = wait - 1
        /\ UNCHANGED flight
  /\ left' = Less(left)
  /\ embargo' = Less(embargo)
  /\ overrun' = IF left = 0 /\ overrun <= call.attemptTimeout THEN overrun + 1 ELSE overrun
  /\ UNCHANGED <<call, pc, lastError, hurried, results>>

ClientNext ==
  \/ NewRequestFails \/ SendRequest \/ AttemptTimesOut \/ TimerFires
  \/ ReadBody \/ BodyBreaksOff

NetworkNext == NetworkError \/ RetryableAnswer \/ RateLimited \/ DecidingAnswer

Next == ClientNext \/ NetworkNext \/ BudgetSpent \/ Tick

Spec == Init /\ [][Next]_vars

\* Time passes, the client does what it has to, and a select that finds both the timer and
\* the deadline ready again and again does not always take the timer (Go chooses at
\* random).  Nothing is assumed of the network or the server.
FairSpec == Spec /\ WF_vars(Tick) /\ WF_vars(ClientNext) /\ SF_vars(BudgetSpent)

-----------------------------------------------------------------------------
(***************************************************************************)
(* Properties.                                                             *)
(***************************************************************************)

Steps == {"build", "inflight", "sleep", "body", "done"}
RetryErrors == {"network", "conflict", "serverError", "rateLimit"}
Outcomes == Deciding \cup {"timeout", "unexpected"}

TypeOK ==
  /\ call \in Call
  /\ pc \in Steps
  /\ left \in Nat /\ left <= call.budget
  /\ flight \in Nat /\ flight <= call.attemptTimeout
  /\ wait \in Nat
  /\ lastError \in RetryErrors \cup {None}
  /\ answer \in Deciding \cup {None}
  /\ outcome \in Outcomes \cup {None}
  /\ overrun \in Nat /\ overrun <= call.attemptTimeout + 1
  /\ hurried \in BOOLEAN
  /\ embargo \in Nat
  /\ bodyLost \in BOOLEAN

\* A time-out is reported, and the caller may fall back, only when the budget is spent and
\* the last failure is known: it always comes as a RetryTimeoutError (handleError prints its
\* LastError), and never for a request that an answer had decided.
TimeoutIsHonest ==
  outcome = "timeout" => left = 0 /\ lastError # None /\ answer = None

\* The budget may be overrun by the attempt under way at the deadline and by nothing else,
\* unless the server asks, after the deadline, for a retry at once: then the select may
\* take the timer and start another attempt.
OverrunIsOneAttempt == overrun <= call.attemptTimeout \/ hurried

\* Why: past the deadline an attempt has used no more than its own time, and once it has
\* ended there is a timer still to wait for, while the deadline is due at once.
OverrunInv ==
  ~hurried => /\ overrun > 0 => left = 0
              /\ pc \in {"inflight", "body"} => overrun <= flight
              /\ pc = "sleep" /\ wait = 0 => overrun = 0
              /\ pc = "build" => overrun = 0
              /\ overrun <= call.attemptTimeout

\* Why: the timer never fires before the reset the server told.
EmbargoInv ==
  IF pc = "sleep" THEN embargo <= wait ELSE pc \in {"build", "inflight"} => embargo = 0

\* What is inductive about a call.
CallInv == TypeOK /\ OverrunInv /\ EmbargoInv

\* A client that is rate-limited sends nothing until the reset it was told.
RateLimitRespected == [][pc = "sleep" /\ pc' = "build" => embargo = 0]_vars

\* "The request is retried when ... there is a network error" (doWithRetry): then a failure
\* of the network never ends a call as an unexpected error, which is fatal to a job.
NetworkErrorsAreRetried == bodyLost => outcome # "unexpected"

\* The call seen from outside (ApiCall).
Seen == [build |-> "idle", sleep |-> "idle", inflight |-> "sent", body |-> "decided", done |-> "over"]

Outside == INSTANCE ApiCall WITH Deciding <- Deciding, state <- Seen[pc]

\* The first deciding answer ends the call, and nothing is sent after the caller was told.
ImplementsCall == Outside!Spec

\* Every call ends, whatever the server does.
EveryCallEnds == <>(pc = "done")

=============================================================================
