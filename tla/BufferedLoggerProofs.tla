-------------------------- MODULE BufferedLoggerProofs --------------------------
(* Proofs about BufferedLogger, for any set of entries, buffer and threshold: the *)
(* logger implements EntryLedger, so an accepted entry is settled once and before *)
(* the store is closed, and no snapshot of a completed entry is left behind.      *)
EXTENDS BufferedLogger, TLAPS

\* The writers that are past the second look at the flag.
Sending == {"publishing", "sending", "full"}

\* Close has set the flag, and once it has waited nobody sends any more.
Shut == /\ closer # "idle" => closed
        /\ Stopping => \A e \in Entries : writer[e] \notin Sending

\* The loop ends after that, with an empty channel, and Close returns after it.
Ending == /\ flusher \in {"drain", "lastWrite", "lastPublish", "exited"} => Stopping
          /\ flusher \in {"lastWrite", "lastPublish", "exited"} => buffer = {}
          /\ flusher = "exited" => batch = {}
          /\ closer = "returned" => flusher = "exited"

\* An entry is in one place: with its writer, in the channel, in the batch, or
\* settled; the batch of a flush that publishes is settled already.
Placed == /\ \A e \in Entries : writer[e] \notin {"leaving", "done"} =>
                                e \notin buffer \cup batch \cup stored \cup failed
          /\ buffer \cap (batch \cup stored \cup failed) = {}
          /\ stored \cap failed = {}
          /\ IF flusher \in {"publish", "lastPublish"}
             THEN batch \subseteq stored \cup failed
             ELSE batch \cap (stored \cup failed) = {}

\* The inductive invariant.
IInv == TypeOK /\ Shut /\ Ending /\ Placed /\ SnapshotsArePending

-------------------------------------------------------------------------------

LEMMA InitInvariant == Init => IInv
BY DEF Init, IInv, TypeOK, Shut, Ending, Placed, SnapshotsArePending, Stopping, Sending,
       WriterStates, FlusherStates, CloserStates

\* One step of one writer.
LEMMA WriteInvariant ==
  ASSUME IInv, NEW e \in Entries, Running, Write(e)
  PROVE  IInv'
<1> USE DEF Running, At
<1>1. TypeOK'
  BY DEF IInv, TypeOK, Write, FirstCheck, Register, Recheck, PublishCompleted, Send, Drop,
         Done, WriterStates, CloserStates
<1>2. Shut'
  BY DEF IInv, TypeOK, Shut, Write, FirstCheck, Register, Recheck, PublishCompleted, Send,
         Drop, Done, WriterStates, CloserStates, Stopping, Sending
<1>3. Ending'
  BY DEF IInv, TypeOK, Shut, Ending, Write, FirstCheck, Register, Recheck, PublishCompleted,
         Send, Drop, Done, WriterStates, CloserStates, Stopping, Sending
<1>4. Placed'
  BY DEF IInv, TypeOK, Placed, Write, FirstCheck, Register, Recheck, PublishCompleted, Send,
         Drop, Done, WriterStates
<1>5. SnapshotsArePending'
  BY DEF IInv, TypeOK, SnapshotsArePending, Write, FirstCheck, Register, Recheck,
         PublishCompleted, Send, Drop, Done, WriterStates
<1> QED
  BY <1>1, <1>2, <1>3, <1>4, <1>5 DEF IInv

\* One step of the flush loop.
LEMMA LoopInvariant ==
  ASSUME IInv, Running, Loop
  PROVE  IInv'
<1> USE DEF Running
<1>1. TypeOK'
  BY DEF IInv, TypeOK, Loop, Receive, Drain, PublishOutcome, Tick, SeeDone, Drained,
         WriteBatch, FlusherStates
<1>2. Shut'
  BY DEF IInv, Shut, Loop, Receive, Drain, PublishOutcome, Tick, SeeDone, Drained,
         WriteBatch, Stopping
<1>3. Ending'
  BY DEF IInv, TypeOK, Ending, Loop, Receive, Drain, PublishOutcome, Tick, SeeDone, Drained,
         WriteBatch, Stopping, FlusherStates
<1>4. Placed'
  BY DEF IInv, TypeOK, Placed, Loop, Receive, Drain, PublishOutcome, Tick, SeeDone, Drained,
         WriteBatch, FlusherStates
<1>5. SnapshotsArePending'
  BY DEF IInv, TypeOK, Placed, SnapshotsArePending, Loop, Receive, Drain, PublishOutcome,
         Tick, SeeDone, Drained, WriteBatch
<1> QED
  BY <1>1, <1>2, <1>3, <1>4, <1>5 DEF IInv

\* One step of Close.
LEMMA CloseInvariant ==
  ASSUME IInv, Running, CloseStep
  PROVE  IInv'
<1> USE DEF Running
<1>1. TypeOK' /\ Placed' /\ SnapshotsArePending'
  BY DEF IInv, TypeOK, Placed, SnapshotsArePending, CloseStep, Swap, Wait, Resume,
         CloseStore, CloserStates
<1>2. Shut'
  BY DEF IInv, TypeOK, Shut, CloseStep, Swap, Wait, Resume, CloseStore, Stopping, Sending,
         Writing
<1>3. Ending'
  BY DEF IInv, Ending, CloseStep, Swap, Wait, Resume, CloseStore, Stopping
<1> QED
  BY <1>1, <1>2, <1>3 DEF IInv

LEMMA StepInvariant == IInv /\ [Next]_vars => IInv'
<1> SUFFICES ASSUME IInv, [Next]_vars PROVE IInv'
  OBVIOUS
<1>1. CASE Running /\ \E e \in Entries : Write(e)
  BY <1>1, WriteInvariant
<1>2. CASE Running /\ Loop
  BY <1>2, LoopInvariant
<1>3. CASE Running /\ CloseStep
  BY <1>3, CloseInvariant
<1>4. CASE Panic \/ UNCHANGED vars
  BY <1>4 DEF Panic, vars, IInv, TypeOK, Shut, Ending, Placed, SnapshotsArePending, Stopping
<1> QED
  BY <1>1, <1>2, <1>3, <1>4 DEF Next

LEMMA Invariant == Spec => []IInv
<1>1. Init => IInv
  BY InitInvariant
<1>2. IInv /\ [Next]_vars => IInv'
  BY StepInvariant
<1> QED
  BY <1>1, <1>2, PTL DEF Spec

\* Every variable of the logger keeps its type (usage/logger.go, auditlog/logger.go).
THEOREM TypeCorrect == Spec => []TypeOK
<1>1. IInv => TypeOK
  BY DEF IInv
<1> QED
  BY <1>1, Invariant, PTL

\* A snapshot of a completed entry does not outlive the work on the entry
\* (Write's drop path and flushBatch both publish its end).
THEOREM NothingLeftInFlight == Spec => []SnapshotsArePending
<1>1. IInv => SnapshotsArePending
  BY DEF IInv
<1> QED
  BY <1>1, Invariant, PTL

-------------------------------------------------------------------------------
(* The ledger *)

LEMMA InitRefines == Init => Ledger!Init
BY DEF Init, Ledger!Init, Status

\* Only the send into the channel is seen in the ledger: it accepts the entry.
LEMMA WriteRefines ==
  ASSUME IInv, NEW e \in Entries, Running, Write(e)
  PROVE  [Ledger!Next]_<<Status, closer # "returned">>
<1>1. (closer # "returned")' = (closer # "returned")
  BY DEF Running, Write, FirstCheck, Register, Recheck, PublishCompleted, Send, Drop, Done, At
<1>2. CASE buffer' = buffer
  <2>1. batch' = batch /\ stored' = stored /\ failed' = failed
    BY DEF Write, FirstCheck, Register, Recheck, PublishCompleted, Send, Drop, Done
  <2>2. Status' = Status
    BY <1>2, <2>1 DEF Status
  <2> QED
    BY <1>1, <2>2
<1>3. CASE buffer' # buffer
  <2>1. /\ writer[e] = "sending" /\ buffer' = buffer \cup {e}
        /\ batch' = batch /\ stored' = stored /\ failed' = failed
    BY <1>3 DEF Write, FirstCheck, Register, Recheck, PublishCompleted, Send, Drop, Done, At
  <2>2. closer # "returned"
    BY <2>1 DEF IInv, Shut, Stopping, Sending
  <2>3. e \notin buffer \cup batch \cup stored \cup failed
    BY <2>1 DEF IInv, Placed
  <2>4. Status[e] = "new"
    BY <2>3 DEF Status
  <2>5. Status' = [Status EXCEPT ![e] = "pending"]
    BY <2>1, <2>3 DEF Status
  <2>6. Ledger!Accept(e)
    BY <1>1, <2>2, <2>4, <2>5 DEF Ledger!Accept
  <2> QED
    BY <2>6 DEF Ledger!Next
<1> QED
  BY <1>2, <1>3

\* The loop settles a batch with WriteBatch; its other steps move pending entries,
\* or publish about settled ones.
LEMMA LoopRefines ==
  ASSUME IInv, Running, Loop
  PROVE  [Ledger!Next]_<<Status, closer # "returned">>
<1>1. (closer # "returned")' = (closer # "returned")
  BY DEF Running, Loop, Receive, Drain, PublishOutcome, Tick, SeeDone, Drained, WriteBatch
<1>2. CASE \E e \in Entries : Receive(e) \/ Drain(e)
  <2>1. stored' = stored /\ failed' = failed /\ buffer' \cup batch' = buffer \cup batch
    BY <1>2 DEF Receive, Drain
  <2>2. Status' = Status
    BY <2>1 DEF Status
  <2> QED
    BY <1>1, <2>2
<1>3. CASE Tick \/ SeeDone \/ Drained
  <2>1. stored' = stored /\ failed' = failed /\ buffer' = buffer /\ batch' = batch
    BY <1>3 DEF Tick, SeeDone, Drained
  <2>2. Status' = Status
    BY <2>1 DEF Status
  <2> QED
    BY <1>1, <2>2
<1>4. ASSUME NEW e \in Entries, PublishOutcome(e)
      PROVE  Status' = Status
  <2>1. /\ stored' = stored /\ failed' = failed /\ buffer' = buffer
        /\ batch' = batch \ {e} /\ e \in stored \cup failed
    BY <1>4 DEF PublishOutcome, IInv, Placed
  <2> QED
    BY <2>1 DEF Status
<1>5. ASSUME NEW succeeds \in BOOLEAN, WriteBatch(succeeds)
      PROVE  Ledger!Next
  <2> DEFINE outcome == IF succeeds THEN "stored" ELSE "failed"
  <2>1. /\ buffer' = buffer /\ batch' = batch
        /\ stored' = IF succeeds THEN stored \cup batch ELSE stored
        /\ failed' = IF succeeds THEN failed ELSE failed \cup batch
        /\ flusher \in {"write", "lastWrite"} /\ closer' = closer
    BY <1>5 DEF WriteBatch
  <2>2. batch \subseteq Entries /\ batch \cap (stored \cup failed) = {}
    BY <2>1 DEF IInv, TypeOK, Placed
  <2>3. closer # "returned"
    BY <2>1 DEF IInv, Ending
  <2>4. batch \subseteq Ledger!Pending
    BY <2>2 DEF Ledger!Pending, Status
  <2>5. Status' = [e \in Entries |-> IF e \in batch THEN outcome ELSE Status[e]]
    <3>1. CASE succeeds
      BY <2>1, <2>2, <3>1 DEF Status
    <3>2. CASE ~succeeds
      BY <2>1, <2>2, <3>2 DEF Status
    <3> QED
      BY <3>1, <3>2
  <2>6. Ledger!Settle(batch, outcome)
    BY <1>1, <2>3, <2>4, <2>5 DEF Ledger!Settle
  <2>7. batch \in SUBSET Entries /\ outcome \in {"stored", "failed"}
    BY <2>2
  <2> QED
    BY <2>6, <2>7 DEF Ledger!Next
<1> QED
  BY <1>1, <1>2, <1>3, <1>4, <1>5 DEF Loop

\* Close returns when the loop has left nothing pending.
LEMMA CloseRefines ==
  ASSUME IInv, Running, CloseStep
  PROVE  [Ledger!Next]_<<Status, closer # "returned">>
<1>1. stored' = stored /\ failed' = failed /\ buffer' = buffer /\ batch' = batch
  BY DEF CloseStep, Swap, Wait, Resume, CloseStore
<1>2. Status' = Status
  BY <1>1 DEF Status
<1>3. CASE Swap \/ Wait \/ Resume
  BY <1>2, <1>3 DEF Swap, Wait, Resume
<1>4. CASE CloseStore
  <2>1. closer = "stopping" /\ closer' = "returned" /\ flusher = "exited"
    BY <1>4 DEF CloseStore
  <2>2. buffer = {} /\ batch = {}
    BY <2>1 DEF IInv, Ending
  <2>3. Ledger!Pending = {}
    BY <2>2 DEF Ledger!Pending, Status
  <2>4. Ledger!Close
    BY <1>2, <2>1, <2>3 DEF Ledger!Close
  <2> QED
    BY <2>4 DEF Ledger!Next
<1> QED
  BY <1>3, <1>4 DEF CloseStep

LEMMA StepRefines == IInv /\ [Next]_vars => [Ledger!Next]_<<Status, closer # "returned">>
<1> SUFFICES ASSUME IInv, [Next]_vars
             PROVE  [Ledger!Next]_<<Status, closer # "returned">>
  OBVIOUS
<1>1. CASE Running /\ \E e \in Entries : Write(e)
  BY <1>1, WriteRefines
<1>2. CASE Running /\ Loop
  BY <1>2, LoopRefines
<1>3. CASE Running /\ CloseStep
  BY <1>3, CloseRefines
<1>4. CASE Panic \/ UNCHANGED vars
  <2>1. UNCHANGED <<stored, failed, buffer, batch, closer>>
    BY <1>4 DEF Panic, vars
  <2>2. Status' = Status
    BY <2>1 DEF Status
  <2> QED
    BY <2>1, <2>2
<1> QED
  BY <1>1, <1>2, <1>3, <1>4 DEF Next

\* The loggers implement the ledger: what Write has accepted is stored or reported
\* as failed once, and Close closes the store after the last of it.
THEOREM ImplementsLedger == Spec => AcceptedOnce
<1>1. Init => Ledger!Init
  BY InitRefines
<1>2. IInv /\ [Next]_vars => [Ledger!Next]_<<Status, closer # "returned">>
  BY StepRefines
<1> QED
  BY <1>1, <1>2, Invariant, PTL DEF Spec, AcceptedOnce, Ledger!Spec
===============================================================================
