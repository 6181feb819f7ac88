---------------------------- MODULE CircuitBreaker ----------------------------
(***************************************************************************)
(* The circuit breaker of internal/llmclient as a data type: a breaker is  *)
(* a record, each method run under circuitBreaker.mu is one operator that  *)
(* returns the breaker after the call.                                     *)
(*                                                                         *)
(* Time is abstracted to what acquire tests: cooled says whether more than *)
(* `timeout' has passed since lastFailure.  failures is only compared with *)
(* FailureThreshold, so it is saturated there (the bound of the counter).  *)
(***************************************************************************)
EXTENDS Integers

CONSTANTS FailureThreshold,  \* failures that open a closed breaker
          SuccessThreshold   \* successes that close a half-open one

\* New builds a breaker only for a positive failure threshold; the success
\* threshold is used as configured, zero and negative values included.
ASSUME ThresholdAssumption == /\ FailureThreshold \in Nat \ {0}
                              /\ SuccessThreshold \in Int

States == {"closed", "open", "half-open"}

Breaker == [state           : States,
            failures        : 0..FailureThreshold,
            successes       : Nat,
            halfOpenAllowed : BOOLEAN,
            cooled          : BOOLEAN]

NewBreaker == [state |-> "closed", failures |-> 0, successes |-> 0,
               halfOpenAllowed |-> TRUE, cooled |-> TRUE]

-------------------------------------------------------------------------------

\* What acquire makes of an open breaker whose timeout has passed.
ToHalfOpen(cb) == [cb EXCEPT !.state = "half-open", !.successes = 0,
                             !.halfOpenAllowed = TRUE]

\* The breaker on which acquire decides.
Ready(cb) == IF cb.state = "open" /\ cb.cooled THEN ToHalfOpen(cb) ELSE cb

\* acquire's two results and the breaker it leaves behind.
Allowed(cb) == \/ cb.state = "closed"
               \/ Ready(cb).state = "half-open" /\ Ready(cb).halfOpenAllowed

IsProbe(cb) == Ready(cb).state = "half-open"

Acquire(cb) == IF IsProbe(cb) THEN [Ready(cb) EXCEPT !.halfOpenAllowed = FALSE]
                              ELSE cb

ReleaseProbe(cb) ==
  IF cb.state = "half-open" THEN [cb EXCEPT !.halfOpenAllowed = TRUE] ELSE cb

\* Mutant: a success closes the breaker from any state.
RecordSuccessFromAnyState(cb) ==
  [cb EXCEPT !.state = "closed", !.failures = 0, !.halfOpenAllowed = TRUE]

\* Mutant: a success short of the threshold does not give the slot back.
CountSuccessKeepingSlot(cb) == [cb EXCEPT !.successes = @ + 1]

\* One more success in the half-open state, which admits the next probe.
CountSuccess(cb) == [cb EXCEPT !.successes = @ + 1, !.halfOpenAllowed = TRUE]

RecordSuccess(cb) ==
  IF cb.state = "half-open"
  THEN IF CountSuccess(cb).successes >= SuccessThreshold
       THEN [CountSuccess(cb) EXCEPT !.state = "closed", !.failures = 0]
       ELSE CountSuccess(cb)
  ELSE IF cb.state = "closed" THEN [cb EXCEPT !.failures = 0] ELSE cb

\* One more failure, recorded now: the open period starts again.
CountFailure(cb) ==
  [cb EXCEPT !.failures = IF @ < FailureThreshold THEN @ + 1 ELSE @,
             !.cooled   = FALSE]

RecordFailure(cb) ==
  IF cb.state = "half-open"
  THEN [CountFailure(cb) EXCEPT !.state = "open", !.successes = 0, !.halfOpenAllowed = TRUE]
  ELSE IF cb.state = "closed" /\ CountFailure(cb).failures >= FailureThreshold
       THEN [CountFailure(cb) EXCEPT !.state = "open"]
       ELSE CountFailure(cb)

\* More than `timeout' has passed since lastFailure.
Cool(cb) == [cb EXCEPT !.cooled = TRUE]
===============================================================================
