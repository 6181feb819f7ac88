------------------------------- MODULE LLMClient -------------------------------
(***************************************************************************)
(* The upstream client of internal/llmclient: concurrent logical requests  *)
(* (DoRaw, DoStream, DoPassthrough), each a goroutine with its retry loop, *)
(* sharing one circuit breaker.                                            *)
(*                                                                         *)
(* The three entry points have one control structure.  They differ in the  *)
(* number of upstream attempts: "retried" is DoRaw and a DoPassthrough     *)
(* that canRetryPassthrough lets through, "oneShot" is DoStream, a body    *)
(* that can be read once, and any other passthrough.                       *)
(*                                                                         *)
(* The upstream is external.  A response is two facts about its status:    *)
(* whether it is in retryStatuses and whether it is in failureStatuses.    *)
(***************************************************************************)
EXTENDS CircuitBreaker, FiniteSets

CONSTANTS Requests,    \* goroutines that issue logical requests, one at a time
          MaxAttempts  \* Client.maxAttempts(): retries + 1, at least 1

ASSUME AttemptsAssumption == MaxAttempts \in Nat \ {0}
ASSUME RequestsFinite == IsFiniteSet(Requests)

VARIABLES cb,        \* the provider's breaker (or the breaker of one model)
          req,       \* what each goroutine is doing
          inFlight,  \* the gauge fed by OnRequestStart and OnRequestEnd
          healthy    \* environment: from now on the provider answers every
                     \* attempt with success, within the caller's deadline

vars == <<cb, req, inFlight, healthy>>

Kinds == {"retried", "oneShot"}

\* How the caller's context stands: live, cancelled by the caller, or past
\* its deadline.
Contexts == {"live", "canceled", "expired"}

Request == [phase   : {"idle", "sent", "backoff"},
            kind    : Kinds,
            attempt : 0..(MaxAttempts - 1),
            probe   : BOOLEAN,
            ctx     : Contexts]

Idle == [phase |-> "idle", kind |-> "oneShot", attempt |-> 0,
         probe |-> FALSE, ctx |-> "live"]

AttemptsOf(kind) == IF kind = "retried" THEN MaxAttempts ELSE 1

InFlight == {r \in Requests : req[r].phase # "idle"}
Probes   == {r \in Requests : req[r].probe}

Init == /\ cb = NewBreaker
        /\ req = [r \in Requests |-> Idle]
        /\ inFlight = 0
        /\ healthy = FALSE

-------------------------------------------------------------------------------
(* beginRequest *)

Begin(r, kind) ==
  /\ req[r].phase = "idle"
  /\ Allowed(cb)
  /\ cb' = Acquire(cb)
  /\ req' = [req EXCEPT ![r] = [phase |-> "sent", kind |-> kind, attempt |-> 0,
                                probe |-> IsProbe(cb), ctx |-> "live"]]
  /\ inFlight' = inFlight + 1
  /\ UNCHANGED healthy

\* A rejected request is finished before beginRequest returns: its hooks cancel
\* out and, as acquire only changes a breaker it admits to, nothing is left.
Reject(r) ==
  /\ req[r].phase = "idle"
  /\ ~Allowed(cb)
  /\ UNCHANGED vars

-------------------------------------------------------------------------------
(* How a request ends *)

\* finishRequest: the request is over and OnRequestEnd has run.
Finish(r) == /\ req' = [req EXCEPT ![r] = Idle]
             /\ inFlight' = inFlight - 1

\* Mutant: a probe that ends without a verdict keeps the slot.
KeepHalfOpenProbe(r) == cb

\* releaseHalfOpenProbe
ReleaseHalfOpenProbe(r) == IF req[r].probe THEN ReleaseProbe(cb) ELSE cb

\* Mutant: a cancellation is recorded like any other transport error.
CompletionWithoutCancelCheck(r, verdict) ==
  IF verdict = "success" THEN RecordSuccess(cb) ELSE RecordFailure(cb)

\* recordCircuitBreakerCompletion, where the verdict is "canceled" when the
\* error wraps context.Canceled.
RecordCompletion(r, verdict) ==
  CASE verdict = "canceled" -> ReleaseHalfOpenProbe(r)
    [] verdict = "failure"  -> RecordFailure(cb)
    [] verdict = "success"  -> RecordSuccess(cb)

\* completeScope
Complete(r, verdict) == /\ cb' = RecordCompletion(r, verdict)
                        /\ Finish(r)

Trips(trips) == IF trips THEN "failure" ELSE "success"

\* Mutant: the loop does not look at halfOpenProbe or at the kind of error.
NextAttemptAlways(r, final, verdict) ==
  IF req[r].attempt + 1 >= AttemptsOf(req[r].kind)
  THEN Complete(r, verdict)
  ELSE /\ req' = [req EXCEPT ![r].phase = "backoff", ![r].attempt = @ + 1]
       /\ UNCHANGED <<cb, inFlight>>

\* An attempt that may be repeated failed: the loop takes the next attempt, or
\* ends with the verdict when there is none or the request may not retry.
NextAttempt(r, final, verdict) ==
  IF final \/ req[r].attempt + 1 >= AttemptsOf(req[r].kind)
  THEN Complete(r, verdict)
  ELSE /\ req' = [req EXCEPT ![r].phase = "backoff", ![r].attempt = @ + 1]
       /\ UNCHANGED <<cb, inFlight>>

-------------------------------------------------------------------------------
(* What an attempt can come to *)

\* buildRequest refuses the request: it never reaches the upstream.
BuildError(r) ==
  /\ req[r].phase = "sent" /\ req[r].attempt = 0
  /\ cb' = ReleaseHalfOpenProbe(r)
  /\ Finish(r)
  /\ UNCHANGED healthy

\* The transport fails before a response is read.
TransportError(r) ==
  /\ req[r].phase = "sent" /\ ~healthy
  /\ NextAttempt(r, req[r].probe, "failure")
  /\ UNCHANGED healthy

\* A client timeout, the caller's deadline included, is never retried.
ClientTimeout(r) ==
  /\ req[r].phase = "sent" /\ (healthy => req[r].ctx = "expired")
  /\ NextAttempt(r, TRUE, "failure")
  /\ UNCHANGED healthy

\* The transport is aborted by the caller's cancellation.
CanceledAttempt(r) ==
  /\ req[r].phase = "sent" /\ req[r].ctx = "canceled"
  /\ NextAttempt(r, req[r].probe, "canceled")
  /\ UNCHANGED healthy

\* A status (or an error embedded in a 200) that is in retryStatuses.
RetryableStatus(r, trips) ==
  /\ req[r].phase = "sent" /\ ~healthy
  /\ NextAttempt(r, req[r].probe, Trips(trips))
  /\ UNCHANGED healthy

\* A status that is not retryable, whether the breaker counts it or not.
FinalStatus(r, trips) ==
  /\ req[r].phase = "sent" /\ ~healthy
  /\ Complete(r, Trips(trips))
  /\ UNCHANGED healthy

Succeed(r) ==
  /\ req[r].phase = "sent"
  /\ Complete(r, "success")
  /\ UNCHANGED healthy

-------------------------------------------------------------------------------
(* waitForRetryAttempt.  When the timer and the context are both ready the   *)
(* select may take either.                                                   *)

BackoffElapsed(r) ==
  /\ req[r].phase = "backoff"
  /\ req' = [req EXCEPT ![r].phase = "sent"]
  /\ UNCHANGED <<cb, inFlight, healthy>>

\* Mutant: the early return forgets finishRequest's OnRequestEnd.
BackoffAbortedUnfinished(r) ==
  /\ req[r].phase = "backoff" /\ req[r].ctx # "live"
  /\ req' = [req EXCEPT ![r] = Idle]
  /\ UNCHANGED <<cb, inFlight, healthy>>

BackoffAborted(r) ==
  /\ req[r].phase = "backoff" /\ req[r].ctx # "live"
  /\ Finish(r)
  /\ UNCHANGED <<cb, healthy>>

-------------------------------------------------------------------------------
(* Environment: the caller's context, the clock, the provider *)

CtxDone(r, ctx) ==
  /\ req[r].phase # "idle" /\ req[r].ctx = "live"
  /\ ctx = "expired" => ~healthy
  /\ req' = [req EXCEPT ![r].ctx = ctx]
  /\ UNCHANGED <<cb, inFlight, healthy>>

\* Only the open state reads the clock, and it is entered with a new failure.
CoolDown == /\ cb.state = "open" /\ ~cb.cooled
            /\ cb' = Cool(cb)
            /\ UNCHANGED <<req, inFlight, healthy>>

Heal == /\ ~healthy
        /\ healthy' = TRUE
        /\ UNCHANGED <<cb, req, inFlight>>

-------------------------------------------------------------------------------

\* The attempt on the wire ends one way or another.
Conclude(r) == \/ BuildError(r)
               \/ TransportError(r)
               \/ ClientTimeout(r)
               \/ CanceledAttempt(r)
               \/ \E trips \in BOOLEAN : RetryableStatus(r, trips) \/ FinalStatus(r, trips)
               \/ Succeed(r)

Issue(r) == \E kind \in Kinds : Begin(r, kind)

Next == \/ \E r \in Requests : \/ Issue(r)
                               \/ Reject(r)
                               \/ Conclude(r)
                               \/ BackoffElapsed(r)
                               \/ BackoffAborted(r)
                               \/ \E ctx \in {"canceled", "expired"} : CtxDone(r, ctx)
        \/ CoolDown
        \/ Heal

Spec == Init /\ [][Next]_vars

\* Every attempt ends (http.Client has a timeout), backoff timers fire, and
\* time passes.
Fairness == /\ \A r \in Requests : /\ WF_vars(Conclude(r))
                                   /\ WF_vars(BackoffElapsed(r))
            /\ WF_vars(CoolDown)

FairSpec == Spec /\ Fairness

\* Traffic goes on, and callers do not abandon every request of a goroutine.
Traffic == \A r \in Requests : WF_vars(Issue(r)) /\ SF_vars(Succeed(r))

-------------------------------------------------------------------------------
(* Properties *)

TypeOK == /\ cb \in Breaker
          /\ req \in [Requests -> Request]
          /\ inFlight \in Nat
          /\ healthy \in BOOLEAN

\* The half-open slot is never lost: while it is taken, some request still in
\* flight is a probe and will return it.  Otherwise the breaker would reject
\* every request until the process restarts (releaseProbe's comment).
SlotHeldByProbe ==
  cb.state = "half-open" /\ ~cb.halfOpenAllowed => Probes # {}

\* A probe makes one upstream attempt: it never waits for, or makes, a retry.
ProbeSendsOnce ==
  \A r \in Probes : req[r].phase = "sent" /\ req[r].attempt = 0

\* A breaker that has counted FailureThreshold failures is not closed, in
\* whatever order concurrent requests report their outcomes.
ClosedBelowThreshold == cb.state = "closed" => cb.failures < FailureThreshold

\* The in-flight gauge is the number of logical requests in flight: each return
\* of the entry points runs OnRequestEnd once, retried attempts add nothing.
GaugeExact == inFlight = Cardinality(InFlight)

\* An open breaker leaves that state in one way: its timeout has passed and the
\* step starts a probe.  A late success of an older request does not close it.
OpenEndsWithProbe ==
  [][cb.state = "open" /\ cb'.state # "open" =>
       /\ cb.cooled
       /\ cb'.state = "half-open"
       /\ \E r \in Requests \ Probes : req'[r].probe]_vars

\* A caller that gives up says nothing about the provider: its cancelled attempt
\* leaves the state and both counters of the breaker as they were.
CancelIsNoVerdict ==
  [][\A r \in Requests : CanceledAttempt(r) =>
       UNCHANGED <<cb.state, cb.failures, cb.successes>>]_vars

\* A taken half-open slot is given back, or the half-open state ends.
SlotReturns ==
  (cb.state = "half-open" /\ ~cb.halfOpenAllowed) ~>
    (cb.state # "half-open" \/ cb.halfOpenAllowed)

\* Once the provider answers, traffic, if there is any, brings the breaker back to
\* closed.
Recovers == Traffic => (healthy ~> cb.state = "closed")
===============================================================================
