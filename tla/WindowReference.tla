---------------------------- MODULE WindowReference ----------------------------
(***************************************************************************)
(* What a sliding-window limit promises, without the laziness of the code: *)
(* the admissions of the aligned window that covers now and of the one     *)
(* before it are counted as time passes.                                   *)
(***************************************************************************)
EXTENDS Integers

CONSTANTS Period, Limit,  \* of the rule
          Charges,        \* token amounts a response can report
          MaxTime,        \* bound of the clock
          MaxCount        \* bound of what a window is charged

VARIABLES kind, now, cur, prev

vars == <<kind, now, cur, prev>>

Used == (prev * (Period - (now % Period))) \div Period + cur

Init == kind \in {"requests", "tokens"} /\ now = 0 /\ cur = 0 /\ prev = 0

\* A request counts when it is admitted; tokens are charged later, unchecked.
Admit == /\ kind = "requests" /\ Used < Limit
         /\ cur' = cur + 1
         /\ UNCHANGED <<kind, now, prev>>

Charge == /\ kind = "tokens"
          /\ \E n \in Charges : cur + n <= MaxCount /\ cur' = cur + n
          /\ UNCHANGED <<kind, now, prev>>

\* At a boundary the window that ends becomes the previous one.
Tick == /\ now < MaxTime
        /\ now' = now + 1
        /\ IF now' % Period = 0 THEN cur' = 0 /\ prev' = cur
                                ELSE UNCHANGED <<cur, prev>>
        /\ UNCHANGED kind

Next == Admit \/ Charge \/ Tick

Spec == Init /\ [][Next]_vars
===============================================================================
