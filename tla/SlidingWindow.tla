----------------------------- MODULE SlidingWindow -----------------------------
(***************************************************************************)
(* windowCounter of internal/ratelimit: a sliding-window count kept as two *)
(* adjacent fixed windows.  Times are unix seconds.                        *)
(*                                                                         *)
(* estimate weighs the previous window in float64 and truncates; here the  *)
(* weight is the exact fraction.  Both are non-increasing in the elapsed   *)
(* time and agree at the two ends of the window; in between the float can  *)
(* be lower by one where the exact product is a whole number.              *)
(***************************************************************************)
EXTENDS Integers

Window == [start : Nat, current : Nat, previous : Nat]

NewWindow == [start |-> 0, current |-> 0, previous |-> 0]

AlignedStart(now, period) == now - (now % period)

\* Mutant: a counter left alone for several periods keeps its count.
AdvanceKeepingOld(w, now, period) ==
  LET start == AlignedStart(now, period) IN
  IF w.start = start THEN w
  ELSE [start |-> start, current |-> 0, previous |-> w.current]

\* The counter rolled so that its window covers now.  A counter that is more
\* than one period old, or ahead of now, starts again from nothing.
Advance(w, now, period) ==
  LET start == AlignedStart(now, period) IN
  CASE w.start = start          -> w
    [] w.start = start - period -> [start |-> start, current |-> 0, previous |-> w.current]
    [] OTHER                    -> [start |-> start, current |-> 0, previous |-> 0]

\* Seconds of the current window that have passed at now, within the window.
Elapsed(w, now, period) ==
  CASE now < w.start          -> 0
    [] now > w.start + period -> period
    [] OTHER                  -> now - w.start

\* Mutant: a fixed window, which forgets the one before it.
EstimateFixed(w, now, period) == w.current

\* The weighted usage at now of a counter that has been advanced to now.
Estimate(w, now, period) ==
  (w.previous * (period - Elapsed(w, now, period))) \div period + w.current

\* The usage a check at time now sees.
UsageAt(w, now, period) == Estimate(Advance(w, now, period), now, period)

\* Mutant: the search takes the next window boundary for the answer.
RetryAtBoundary(w, now, period, limit) == AlignedStart(now, period) + period - now

\* The binary search for the earliest wait after which usage is below limit.
RetryAfter(w, now, period, limit) ==
  LET Below(wait) == UsageAt(w, now + wait, period) < limit
      search[range \in (1..(2 * period)) \X (1..(2 * period))] ==
        LET lo  == range[1]
            hi  == range[2]
            mid == (lo + hi) \div 2
        IN  IF lo >= hi THEN lo
            ELSE IF Below(mid) THEN search[<<lo, mid>>] ELSE search[<<mid + 1, hi>>]
  IN  search[<<1, 2 * period>>]
===============================================================================
