------------------------------ MODULE EntryLedger ------------------------------
(* What a buffered logger promises for the entries it accepts: each is stored  *)
(* or reported as failed, once, and the store is closed only after the last of *)
(* them.  Entries it does not accept stay new.                                 *)
CONSTANT Entries

VARIABLES status, open

States == {"new", "pending", "stored", "failed"}

Pending == {e \in Entries : status[e] = "pending"}

Init == status = [e \in Entries |-> "new"] /\ open = TRUE

Accept(e) == /\ open /\ status[e] = "new"
             /\ status' = [status EXCEPT ![e] = "pending"]
             /\ UNCHANGED open

\* A batch is written as a whole.
Settle(batch, outcome) ==
  /\ open /\ batch \subseteq Pending
  /\ status' = [e \in Entries |-> IF e \in batch THEN outcome ELSE status[e]]
  /\ UNCHANGED open

Close == /\ open /\ Pending = {}
         /\ open' = FALSE
         /\ UNCHANGED status

Next == \/ \E e \in Entries : Accept(e)
        \/ \E batch \in SUBSET Entries, outcome \in {"stored", "failed"} : Settle(batch, outcome)
        \/ Close

Spec == Init /\ [][Next]_<<status, open>>
===============================================================================
