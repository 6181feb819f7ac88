---------------------------- MODULE LLMClientProofs ----------------------------
(***************************************************************************)
(* Proofs about LLMClient, for any finite set of requests, any number of   *)
(* attempts and any thresholds: type correctness, the half-open slot, the  *)
(* single attempt of a probe, the failure threshold and the gauge.         *)
(***************************************************************************)
EXTENDS LLMClient, FiniteSetTheorems, TLAPS

\* The inductive invariant: each property needs the others.  GaugeExact keeps
\* the gauge in Nat when a request finishes, ProbeSendsOnce keeps a probe out of
\* the backoff, whose abort does not return the slot.
IInv == TypeOK /\ SlotHeldByProbe /\ ProbeSendsOnce /\ ClosedBelowThreshold /\ GaugeExact

-------------------------------------------------------------------------------
(* The methods of the breaker *)

\* The slot of this breaker is taken.
Taken(b) == b.state = "half-open" /\ ~b.halfOpenAllowed

\* This breaker is not closed at the failure threshold.
Below(b) == b.state = "closed" => b.failures < FailureThreshold

\* acquire leaves a breaker, below the threshold if it is closed, and takes the
\* slot only for a caller it tells to be the probe.
LEMMA AcquireLemma ==
  ASSUME NEW b \in Breaker, Below(b), Allowed(b)
  PROVE  /\ Acquire(b) \in Breaker /\ Below(Acquire(b))
         /\ IsProbe(b) \in BOOLEAN
         /\ Taken(Acquire(b)) => IsProbe(b) \/ Taken(b)
  BY DEF Breaker, States, Below, Allowed, Acquire, IsProbe, Ready, ToHalfOpen, Taken

\* No method that ends a request leaves the slot taken.
LEMMA ReleaseProbeLemma ==
  ASSUME NEW b \in Breaker, Below(b)
  PROVE  ReleaseProbe(b) \in Breaker /\ Below(ReleaseProbe(b)) /\ ~Taken(ReleaseProbe(b))
  BY DEF Breaker, States, Below, ReleaseProbe, Taken

\* RecordSuccess gives the slot back, and closes only with the failures reset.
LEMMA RecordSuccessLemma ==
  ASSUME NEW b \in Breaker, Below(b)
  PROVE  RecordSuccess(b) \in Breaker /\ Below(RecordSuccess(b)) /\ ~Taken(RecordSuccess(b))
<1> DEFINE c == CountSuccess(b)
<1>1. c \in Breaker /\ c.state = b.state /\ c.halfOpenAllowed
  <2>1. b.successes + 1 \in Nat
    BY DEF Breaker
  <2> QED  BY <2>1 DEF Breaker, CountSuccess
<1>2. RecordSuccess(b) \in {c, [c EXCEPT !.state = "closed", !.failures = 0],
                            [b EXCEPT !.failures = 0], b}
  BY DEF RecordSuccess
<1>3. RecordSuccess(b) \in Breaker
  <2>1. 0 \in 0..FailureThreshold
    BY ThresholdAssumption
  <2> HIDE DEF c
  <2> QED  BY <1>1, <1>2, <2>1 DEF Breaker, States
<1>4. Below(RecordSuccess(b)) /\ ~Taken(RecordSuccess(b))
  <2>1. CASE b.state = "half-open"
    BY <1>1, <2>1, ThresholdAssumption DEF Breaker, States, Below, Taken, RecordSuccess
  <2>2. CASE b.state # "half-open"
    BY <2>2, ThresholdAssumption DEF Breaker, States, Below, Taken, RecordSuccess
  <2> QED  BY <2>1, <2>2
<1> QED  BY <1>3, <1>4

\* RecordFailure opens a breaker that reaches the threshold.
LEMMA RecordFailureLemma ==
  ASSUME NEW b \in Breaker, Below(b)
  PROVE  RecordFailure(b) \in Breaker /\ Below(RecordFailure(b)) /\ ~Taken(RecordFailure(b))
<1> DEFINE c == CountFailure(b)
<1>1. c \in Breaker /\ c.state = b.state
  <2> DEFINE n == IF b.failures < FailureThreshold THEN b.failures + 1 ELSE b.failures
  <2>1. n \in 0..FailureThreshold
    BY ThresholdAssumption DEF Breaker
  <2> QED  BY <2>1 DEF Breaker, CountFailure
<1> HIDE DEF c
<1>2. CASE b.state = "half-open"
  BY <1>1, <1>2, ThresholdAssumption DEF Breaker, States, Below, RecordFailure, Taken, c
<1>3. CASE b.state # "half-open"
  BY <1>1, <1>3, ThresholdAssumption DEF Breaker, States, Below, RecordFailure, Taken, c
<1> QED  BY <1>2, <1>3

-------------------------------------------------------------------------------
(* How requests begin and end *)

\* Whatever the verdict, a completed request leaves a breaker below its threshold
\* and the slot free, unless it was no probe and the caller cancelled it.
LEMMA CompletionLemma ==
  ASSUME TypeOK, ClosedBelowThreshold, NEW r \in Requests,
         NEW verdict \in {"canceled", "failure", "success"}
  PROVE  /\ RecordCompletion(r, verdict) \in Breaker
         /\ Below(RecordCompletion(r, verdict))
         /\ Taken(RecordCompletion(r, verdict)) =>
              ~req[r].probe /\ RecordCompletion(r, verdict) = cb
<1>1. cb \in Breaker /\ Below(cb)
  BY DEF TypeOK, ClosedBelowThreshold, Below
<1> QED
  BY <1>1, ReleaseProbeLemma, RecordSuccessLemma, RecordFailureLemma
  DEF RecordCompletion, ReleaseHalfOpenProbe

LEMMA InFlightFinite == IsFiniteSet(InFlight) /\ Cardinality(InFlight) \in Nat
  BY RequestsFinite, FS_Subset, FS_CardinalityType DEF InFlight

\* finishRequest takes the request out of the gauge, and out of the probes.
LEMMA FinishLemma ==
  ASSUME IInv, NEW r \in Requests, req[r].phase # "idle", Finish(r), healthy' \in BOOLEAN
  PROVE  /\ req' \in [Requests -> Request] /\ inFlight' \in Nat
         /\ GaugeExact' /\ ProbeSendsOnce'
         /\ Probes' = Probes \ {r}
<1>1. Idle \in Request /\ Idle.phase = "idle" /\ ~Idle.probe
  BY AttemptsAssumption DEF Idle, Request, Kinds, Contexts
<1>2. req' = [req EXCEPT ![r] = Idle] /\ inFlight' = inFlight - 1
  BY DEF Finish
<1> HIDE DEF Idle
<1>3. req' \in [Requests -> Request]
  BY <1>1, <1>2 DEF IInv, TypeOK
<1>4. InFlight' = InFlight \ {r} /\ r \in InFlight
  BY <1>1, <1>2 DEF InFlight, IInv, TypeOK
<1>5. Cardinality(InFlight') = Cardinality(InFlight) - 1 /\ Cardinality(InFlight) >= 1
  BY <1>4, InFlightFinite, FS_RemoveElement, FS_EmptySet
<1>6. GaugeExact' /\ inFlight' \in Nat
  BY <1>2, <1>5, InFlightFinite DEF GaugeExact, IInv
<1>7. Probes' = Probes \ {r}
  BY <1>1, <1>2 DEF Probes, IInv, TypeOK
<1>8. ProbeSendsOnce'
  BY <1>2, <1>7 DEF ProbeSendsOnce, Probes, IInv, TypeOK
<1> QED  BY <1>3, <1>6, <1>7, <1>8

\* completeScope preserves the invariant, whatever the verdict.
LEMMA CompleteLemma ==
  ASSUME IInv, NEW r \in Requests, req[r].phase # "idle", healthy' \in BOOLEAN,
         NEW verdict \in {"canceled", "failure", "success"}, Complete(r, verdict)
  PROVE  IInv'
<1>1. /\ cb' \in Breaker /\ Below(cb')
      /\ Taken(cb') => ~req[r].probe /\ cb' = cb
  BY CompletionLemma DEF IInv, Complete
<1>2. /\ req' \in [Requests -> Request] /\ inFlight' \in Nat
      /\ GaugeExact' /\ ProbeSendsOnce'
      /\ Probes' = Probes \ {r}
  BY FinishLemma DEF Complete
<1>3. SlotHeldByProbe'
  BY <1>1, <1>2 DEF SlotHeldByProbe, IInv, Taken, Probes
<1> QED  BY <1>1, <1>2, <1>3 DEF IInv, TypeOK, ClosedBelowThreshold, Below

\* The end of a failed attempt: a probe must not go on to another one.
LEMMA NextAttemptLemma ==
  ASSUME IInv, NEW r \in Requests, req[r].phase = "sent", healthy' \in BOOLEAN,
         NEW final \in BOOLEAN, req[r].probe => final,
         NEW verdict \in {"canceled", "failure", "success"},
         NextAttempt(r, final, verdict)
  PROVE  IInv'
<1>1. CASE final \/ req[r].attempt + 1 >= AttemptsOf(req[r].kind)
  BY <1>1, CompleteLemma DEF NextAttempt
<1>2. CASE ~(final \/ req[r].attempt + 1 >= AttemptsOf(req[r].kind))
  <2>1. /\ req' = [req EXCEPT ![r].phase = "backoff", ![r].attempt = @ + 1]
        /\ UNCHANGED <<cb, inFlight>>
    BY <1>2 DEF NextAttempt
  <2>2. req[r].attempt + 1 \in 0..(MaxAttempts - 1) /\ req[r] \in Request
    BY <1>2, AttemptsAssumption DEF IInv, TypeOK, Request, AttemptsOf, Kinds
  <2>3. req' \in [Requests -> Request]
    <3>1. [req[r] EXCEPT !.phase = "backoff", !.attempt = @ + 1] \in Request
      BY <2>2 DEF Request
    <3> QED  BY <2>1, <3>1 DEF IInv, TypeOK
  <2>4. Probes' = Probes /\ InFlight' = InFlight
    BY <2>1, <2>2 DEF Probes, InFlight, IInv, TypeOK, Request
  <2>5. ProbeSendsOnce'
    BY <1>2, <2>1, <2>4 DEF ProbeSendsOnce, Probes, IInv, TypeOK
  <2>6. SlotHeldByProbe' /\ ClosedBelowThreshold' /\ GaugeExact'
    BY <2>1, <2>4 DEF SlotHeldByProbe, ClosedBelowThreshold, GaugeExact, IInv
  <2> QED  BY <2>1, <2>3, <2>5, <2>6 DEF IInv, TypeOK
<1> QED  BY <1>1, <1>2

-------------------------------------------------------------------------------
(* The steps *)

LEMMA InitLemma == Init => IInv
<1> SUFFICES ASSUME Init PROVE IInv
  OBVIOUS
<1>1. Idle \in Request /\ Idle.phase = "idle" /\ ~Idle.probe
  BY AttemptsAssumption DEF Idle, Request, Kinds, Contexts
<1>2. InFlight = {} /\ Probes = {}
  BY <1>1 DEF Init, InFlight, Probes
<1>3. NewBreaker \in Breaker
  BY ThresholdAssumption DEF NewBreaker, Breaker, States
<1>4. TypeOK
  BY <1>1, <1>3 DEF Init, TypeOK
<1>5. SlotHeldByProbe /\ ClosedBelowThreshold
  BY ThresholdAssumption DEF Init, NewBreaker, SlotHeldByProbe, ClosedBelowThreshold
<1>6. ProbeSendsOnce /\ GaugeExact
  BY <1>2, FS_EmptySet DEF ProbeSendsOnce, GaugeExact, Init
<1> QED  BY <1>4, <1>5, <1>6 DEF IInv

LEMMA BeginLemma ==
  ASSUME IInv, NEW r \in Requests, NEW kind \in Kinds, Begin(r, kind)
  PROVE  IInv'
<1> DEFINE new == [phase |-> "sent", kind |-> kind, attempt |-> 0,
                   probe |-> IsProbe(cb), ctx |-> "live"]
<1>1. /\ cb' \in Breaker /\ Below(cb') /\ IsProbe(cb) \in BOOLEAN
      /\ Taken(cb') => IsProbe(cb) \/ Taken(cb)
  BY AcquireLemma DEF IInv, TypeOK, ClosedBelowThreshold, Below, Begin
<1>2. new \in Request
  BY <1>1, AttemptsAssumption DEF Request, Kinds, Contexts
<1>3. req' = [req EXCEPT ![r] = new] /\ inFlight' = inFlight + 1
  BY DEF Begin
<1>4. new.phase = "sent" /\ new.attempt = 0 /\ new.probe = IsProbe(cb)
  OBVIOUS
<1> HIDE DEF new
<1>5. req' \in [Requests -> Request]
  BY <1>2, <1>3 DEF IInv, TypeOK
<1>6. InFlight' = InFlight \union {r} /\ r \notin InFlight
  BY <1>3, <1>4 DEF Begin, InFlight, IInv, TypeOK
<1>7. GaugeExact' /\ inFlight' \in Nat
  <2>1. Cardinality(InFlight') = Cardinality(InFlight) + 1
    BY <1>6, InFlightFinite, FS_AddElement
  <2> QED  BY <1>3, <2>1, InFlightFinite DEF GaugeExact, IInv
<1>8. ProbeSendsOnce'
  BY <1>3, <1>4 DEF ProbeSendsOnce, Probes, IInv, TypeOK
<1>9. Probes \subseteq Probes' /\ (IsProbe(cb) => r \in Probes')
  <2>1. r \notin Probes
    BY DEF Begin, ProbeSendsOnce, IInv
  <2> QED  BY <1>3, <1>4, <2>1 DEF Probes, IInv, TypeOK
<1>10. SlotHeldByProbe'
  BY <1>1, <1>9 DEF SlotHeldByProbe, IInv, Taken
<1> QED  BY <1>1, <1>5, <1>7, <1>8, <1>10 DEF IInv, TypeOK, ClosedBelowThreshold, Below, Begin

\* Only a probe that still has its slot to return is finished without a verdict.
LEMMA BuildErrorLemma ==
  ASSUME IInv, NEW r \in Requests, BuildError(r)
  PROVE  IInv'
<1>1. Complete(r, "canceled")
  BY DEF BuildError, Complete, RecordCompletion
<1>2. healthy' \in BOOLEAN /\ req[r].phase # "idle"
  BY DEF BuildError, IInv, TypeOK
<1> QED  BY <1>1, <1>2, CompleteLemma

LEMMA ConcludeLemma ==
  ASSUME IInv, NEW r \in Requests, Conclude(r)
  PROVE  IInv'
<1>1. CASE BuildError(r)
  BY <1>1, BuildErrorLemma
<1>2. CASE TransportError(r)
  BY <1>2, NextAttemptLemma DEF TransportError, IInv, TypeOK, Request
<1>3. CASE ClientTimeout(r)
  BY <1>3, NextAttemptLemma DEF ClientTimeout, IInv, TypeOK, Request
<1>4. CASE CanceledAttempt(r)
  BY <1>4, NextAttemptLemma DEF CanceledAttempt, IInv, TypeOK, Request
<1>5. ASSUME NEW trips \in BOOLEAN, RetryableStatus(r, trips) PROVE IInv'
  BY <1>5, NextAttemptLemma DEF RetryableStatus, Trips, IInv, TypeOK, Request
<1>6. ASSUME NEW trips \in BOOLEAN, FinalStatus(r, trips) PROVE IInv'
  BY <1>6, CompleteLemma DEF FinalStatus, Trips, IInv, TypeOK
<1>7. CASE Succeed(r)
  BY <1>7, CompleteLemma DEF Succeed, IInv, TypeOK
<1> QED  BY <1>1, <1>2, <1>3, <1>4, <1>5, <1>6, <1>7 DEF Conclude

LEMMA BackoffElapsedLemma ==
  ASSUME IInv, NEW r \in Requests, BackoffElapsed(r)
  PROVE  IInv'
<1>1. req' = [req EXCEPT ![r].phase = "sent"] /\ UNCHANGED <<cb, inFlight, healthy>>
  BY DEF BackoffElapsed
<1>2. req' \in [Requests -> Request]
  BY <1>1 DEF IInv, TypeOK, Request
<1>3. Probes' = Probes /\ InFlight' = InFlight
  BY <1>1 DEF BackoffElapsed, Probes, InFlight, IInv, TypeOK, Request
<1>4. ProbeSendsOnce'
  BY <1>1, <1>3 DEF ProbeSendsOnce, Probes, IInv, TypeOK, Request
<1> QED
  BY <1>1, <1>2, <1>3, <1>4
  DEF IInv, TypeOK, SlotHeldByProbe, ClosedBelowThreshold, GaugeExact

\* The early return from the backoff releases no slot: a probe is never there.
LEMMA BackoffAbortedLemma ==
  ASSUME IInv, NEW r \in Requests, BackoffAborted(r)
  PROVE  IInv'
<1>1. req[r].phase = "backoff" /\ Finish(r) /\ UNCHANGED <<cb, healthy>>
  BY DEF BackoffAborted
<1>2. r \notin Probes
  BY <1>1 DEF IInv, ProbeSendsOnce
<1>3. /\ req' \in [Requests -> Request] /\ inFlight' \in Nat
      /\ GaugeExact' /\ ProbeSendsOnce'
      /\ Probes' = Probes \ {r}
  BY <1>1, FinishLemma DEF IInv, TypeOK
<1> QED
  BY <1>1, <1>2, <1>3 DEF IInv, TypeOK, SlotHeldByProbe, ClosedBelowThreshold

LEMMA CtxDoneLemma ==
  ASSUME IInv, NEW r \in Requests, NEW ctx \in {"canceled", "expired"}, CtxDone(r, ctx)
  PROVE  IInv'
<1>1. req' = [req EXCEPT ![r].ctx = ctx] /\ UNCHANGED <<cb, inFlight, healthy>>
  BY DEF CtxDone
<1>2. req' \in [Requests -> Request]
  BY <1>1 DEF IInv, TypeOK, Request, Contexts
<1>3. Probes' = Probes /\ InFlight' = InFlight
  BY <1>1 DEF Probes, InFlight, IInv, TypeOK, Request
<1>4. ProbeSendsOnce'
  BY <1>1, <1>3 DEF ProbeSendsOnce, Probes, IInv, TypeOK, Request
<1> QED
  BY <1>1, <1>2, <1>3, <1>4
  DEF IInv, TypeOK, SlotHeldByProbe, ClosedBelowThreshold, GaugeExact

LEMMA CoolDownLemma == ASSUME IInv, CoolDown PROVE IInv'
<1>1. cb' \in Breaker /\ cb'.state = "open"
  BY DEF CoolDown, Cool, IInv, TypeOK, Breaker
<1>2. UNCHANGED <<req, inFlight, healthy, Probes, InFlight>>
  BY DEF CoolDown, Probes, InFlight
<1> QED
  BY <1>1, <1>2
  DEF IInv, TypeOK, SlotHeldByProbe, ClosedBelowThreshold, GaugeExact, ProbeSendsOnce

LEMMA NextLemma == IInv /\ [Next]_vars => IInv'
<1> SUFFICES ASSUME IInv, [Next]_vars PROVE IInv'
  OBVIOUS
<1>1. ASSUME NEW r \in Requests, Issue(r) PROVE IInv'
  BY <1>1, BeginLemma DEF Issue
<1>2. ASSUME NEW r \in Requests, Conclude(r) PROVE IInv'
  BY <1>2, ConcludeLemma
<1>3. ASSUME NEW r \in Requests, BackoffElapsed(r) PROVE IInv'
  BY <1>3, BackoffElapsedLemma
<1>4. ASSUME NEW r \in Requests, BackoffAborted(r) PROVE IInv'
  BY <1>4, BackoffAbortedLemma
<1>5. ASSUME NEW r \in Requests, NEW ctx \in {"canceled", "expired"}, CtxDone(r, ctx)
      PROVE IInv'
  BY <1>5, CtxDoneLemma
<1>6. CASE CoolDown
  BY <1>6, CoolDownLemma
<1>7. CASE Heal
  BY <1>7 DEF Heal, IInv, TypeOK, SlotHeldByProbe, ClosedBelowThreshold, GaugeExact,
              ProbeSendsOnce, Probes, InFlight
<1>8. CASE UNCHANGED vars
  BY <1>8 DEF vars, IInv, TypeOK, SlotHeldByProbe, ClosedBelowThreshold, GaugeExact,
              ProbeSendsOnce, Probes, InFlight
<1> QED  BY <1>1, <1>2, <1>3, <1>4, <1>5, <1>6, <1>7, <1>8 DEF Next, Reject

-------------------------------------------------------------------------------

\* The inductive invariant holds in every reachable state.
THEOREM Invariance == Spec => []IInv
  BY InitLemma, NextLemma, PTL DEF Spec

\* The variables keep their types: the gauge never goes below zero.
THEOREM TypeCorrect == Spec => []TypeOK
<1>1. IInv => TypeOK  BY DEF IInv
<1> QED  BY <1>1, Invariance, PTL

\* The half-open slot is never lost: while it is taken a probe is in flight.
THEOREM SlotNeverLost == Spec => []SlotHeldByProbe
<1>1. IInv => SlotHeldByProbe  BY DEF IInv
<1> QED  BY <1>1, Invariance, PTL

\* A probe makes exactly one upstream attempt.
THEOREM ProbesDoNotRetry == Spec => []ProbeSendsOnce
<1>1. IInv => ProbeSendsOnce  BY DEF IInv
<1> QED  BY <1>1, Invariance, PTL

\* The breaker is never closed with FailureThreshold failures counted.
THEOREM TripsAtThreshold == Spec => []ClosedBelowThreshold
<1>1. IInv => ClosedBelowThreshold  BY DEF IInv
<1> QED  BY <1>1, Invariance, PTL

\* The in-flight gauge counts the logical requests in flight.
THEOREM GaugeCorrect == Spec => []GaugeExact
<1>1. IInv => GaugeExact  BY DEF IInv
<1> QED  BY <1>1, Invariance, PTL

-------------------------------------------------------------------------------
(* Action properties *)

\* Only acquire moves a breaker out of the open state.
LEMMA OpenStaysOpen ==
  ASSUME cb.state = "open", cb \in Breaker, NEW r \in Requests,
         NEW verdict \in {"canceled", "failure", "success"}
  PROVE  RecordCompletion(r, verdict).state = "open"
<1>1. ReleaseHalfOpenProbe(r).state = "open"
  BY DEF ReleaseHalfOpenProbe, ReleaseProbe
<1>2. RecordFailure(cb).state = "open"
  BY DEF RecordFailure, CountFailure, Breaker
<1>3. RecordSuccess(cb).state = "open"
  BY DEF RecordSuccess
<1> QED  BY <1>1, <1>2, <1>3 DEF RecordCompletion

\* Hence every action but Begin leaves an open breaker open.
LEMMA ConcludeKeepsOpen ==
  ASSUME TypeOK, cb.state = "open", NEW r \in Requests, Conclude(r)
  PROVE  cb'.state = "open"
<1>1. ASSUME NEW verdict \in {"canceled", "failure", "success"}, Complete(r, verdict)
      PROVE  cb'.state = "open"
  BY <1>1, OpenStaysOpen DEF Complete, TypeOK
<1>2. ASSUME NEW verdict \in {"canceled", "failure", "success"}, NEW final \in BOOLEAN,
             NextAttempt(r, final, verdict)
      PROVE  cb'.state = "open"
  BY <1>1, <1>2 DEF NextAttempt
<1>3. CASE BuildError(r)
  BY <1>3 DEF BuildError, ReleaseHalfOpenProbe, ReleaseProbe
<1>4. CASE TransportError(r) \/ CanceledAttempt(r)
  <2>1. req[r].probe \in BOOLEAN
    BY DEF TypeOK, Request
  <2> QED  BY <1>2, <1>4, <2>1 DEF TransportError, CanceledAttempt
<1>5. CASE ClientTimeout(r)
  BY <1>2, <1>5 DEF ClientTimeout
<1>6. ASSUME NEW trips \in BOOLEAN, RetryableStatus(r, trips) \/ FinalStatus(r, trips)
      PROVE  cb'.state = "open"
  <2>1. Trips(trips) \in {"canceled", "failure", "success"}
    BY DEF Trips
  <2> QED  BY <1>1, <1>6, <2>1 DEF RetryableStatus, FinalStatus, NextAttempt
<1>7. CASE Succeed(r)
  BY <1>1, <1>7 DEF Succeed
<1> QED  BY <1>3, <1>4, <1>5, <1>6, <1>7 DEF Conclude

\* An open breaker leaves that state only after its timeout, with a probe.
THEOREM OpenOnlyEndsWithProbe == Spec => OpenEndsWithProbe
<1> DEFINE P == cb.state = "open" /\ cb'.state # "open" =>
                  /\ cb.cooled
                  /\ cb'.state = "half-open"
                  /\ \E r \in Requests \ Probes : req'[r].probe
<1>1. IInv /\ [Next]_vars => P
  <2> SUFFICES ASSUME IInv, [Next]_vars, cb.state = "open", cb'.state # "open"
               PROVE  P
    OBVIOUS
  <2>1. PICK r \in Requests, kind \in Kinds : Begin(r, kind)
    BY ConcludeKeepsOpen
    DEF Next, vars, Issue, Reject, BackoffElapsed, BackoffAborted, CtxDone, CoolDown,
        Cool, Heal, IInv, TypeOK, Breaker
  <2>2. cb.cooled /\ cb'.state = "half-open" /\ IsProbe(cb)
    BY <2>1 DEF Begin, Allowed, Acquire, IsProbe, Ready, ToHalfOpen, IInv, TypeOK, Breaker
  <2>3. req'[r].probe /\ r \notin Probes
    BY <2>1, <2>2 DEF Begin, Probes, IInv, TypeOK, ProbeSendsOnce
  <2> QED  BY <2>2, <2>3
<1>2. IInv /\ [Next]_vars => [P]_vars
  BY <1>1
<1> QED  BY <1>2, Invariance, PTL DEF Spec, OpenEndsWithProbe

\* A caller's cancellation changes neither the state nor the counters.
THEOREM CancellationIsNoVerdict == Spec => CancelIsNoVerdict
<1> DEFINE P == \A r \in Requests : CanceledAttempt(r) =>
                  UNCHANGED <<cb.state, cb.failures, cb.successes>>
<1>1. IInv /\ [Next]_vars => P
  <2> SUFFICES ASSUME IInv, NEW r \in Requests, CanceledAttempt(r)
               PROVE  UNCHANGED <<cb.state, cb.failures, cb.successes>>
    OBVIOUS
  <2>1. cb' \in {cb, ReleaseProbe(cb)}
    BY DEF CanceledAttempt, NextAttempt, Complete, RecordCompletion, ReleaseHalfOpenProbe
  <2> QED  BY <2>1 DEF ReleaseProbe, IInv, TypeOK, Breaker
<1>2. IInv /\ [Next]_vars => [P]_vars
  BY <1>1
<1> QED  BY <1>2, Invariance, PTL DEF Spec, CancelIsNoVerdict
===============================================================================
