----------------------------- MODULE WindowCounter -----------------------------
(***************************************************************************)
(* One window counter of the limiter under calls whose timestamps never go *)
(* back: checks, admissions and token charges roll it lazily, if and when  *)
(* they come.  RateLimiter adds the concurrency of the callers.            *)
(***************************************************************************)
EXTENDS SlidingWindow

CONSTANTS Period, Limit, Charges, LastTime, MaxCharged

ASSUME WindowAssumption == /\ Period \in Nat \ {0}
                           /\ Limit \in Nat \ {0}
                           /\ Charges \subseteq Nat
                           /\ LastTime \in Nat /\ MaxCharged \in Nat

VARIABLES counts,   \* what the counter counts
          time,     \* the clock
          counter   \* the counter

counterVars == <<counts, time, counter>>

CounterInit == counts \in {"requests", "tokens"} /\ time = 0 /\ counter = NewWindow

\* The counter as a call at this moment sees it.
Rolled == Advance(counter, time, Period)
Used   == Estimate(Rolled, time, Period)

\* admit, when the rule does not reject: a token counter is rolled and read.
CounterAdmit ==
  /\ Used < Limit
  /\ counter' = [Rolled EXCEPT !.current = IF counts = "requests" THEN @ + 1 ELSE @]
  /\ UNCHANGED <<counts, time>>

\* breach, available and status roll the counter and change nothing else.
CounterLook ==
  /\ counter' = Rolled
  /\ UNCHANGED <<counts, time>>

\* recordTokens
CounterCharge ==
  /\ counts = "tokens"
  /\ \E n \in Charges : /\ Rolled.current + n <= MaxCharged
                        /\ counter' = [Rolled EXCEPT !.current = @ + n]
  /\ UNCHANGED <<counts, time>>

CounterTick ==
  /\ time < LastTime
  /\ time' = time + 1
  /\ UNCHANGED <<counts, counter>>

CounterNext == CounterAdmit \/ CounterLook \/ CounterCharge \/ CounterTick

CounterSpec == CounterInit /\ [][CounterNext]_counterVars

-------------------------------------------------------------------------------
(* Properties *)

\* The lazy counter admits and charges as a counter that rolls at every boundary
\* would, however long it is left alone between two calls.
Reference == INSTANCE WindowReference WITH kind <- counts, now <- time,
               MaxTime <- LastTime, MaxCount <- MaxCharged,
               cur <- Rolled.current, prev <- Rolled.previous
CountsWhatHappened == Reference!Spec

\* Retry-After is the least wait after which a retry would be admitted.
RetryIsLeast ==
  Used >= Limit =>
    LET wait == RetryAfter(counter, time, Period, Limit) IN
    /\ UsageAt(counter, time + wait, Period) < Limit
    /\ \A d \in 1..(wait - 1) : UsageAt(counter, time + d, Period) >= Limit

\* No double burst at a boundary: with requests counted on admission, a window
\* admits at most the limit, and what two adjacent windows have admitted exceeds
\* it by no more than the share of the elapsed time.
NoDoubleBurst ==
  counts = "requests" =>
    /\ Rolled.current <= Limit
    /\ (Rolled.previous + Rolled.current - Limit) * Period
         < Rolled.previous * (time % Period) + Period
===============================================================================
