----------------------------- MODULE BufferedLogger -----------------------------
(* The asynchronous loggers of usage and audit entries (internal/usage/logger.go, *)
(* internal/auditlog/logger.go: one structure, twice): callers of Write, the      *)
(* flush loop and Close, over a bounded channel and a store that may fail.        *)
(*                                                                                *)
(* Each entry is written by one goroutine, so writers are named by their entries. *)
(* No property tells the order of the entries apart: the channel and the batch    *)
(* are sets.                                                                      *)
EXTENDS Naturals, FiniteSets

CONSTANTS Entries,
          BufferSize,
          BatchFlushThreshold

ASSUME EntriesFinite == IsFiniteSet(Entries)
ASSUME LoggerAssumption == /\ BufferSize \in Nat \ {0}
                           /\ BatchFlushThreshold \in Nat \ {0}

VARIABLES
  closed,      \* the atomic flag
  writer,      \* entry -> where its call of Write is
  buffer,      \* the channel
  flusher,     \* where the flush loop is
  batch,       \* its batch; while it publishes, the part not published yet
  stored, failed,   \* entries a WriteBatch took, or refused
  live,        \* entry -> the last event published about it
  closer,      \* where Close is
  panicked     \* the process died of a WaitGroup misuse

vars == <<closed, writer, buffer, flusher, batch, stored, failed, live, closer, panicked>>

WriterStates == {"idle", "checked", "registered", "publishing", "sending", "full",
                 "leaving", "done"}
FlusherStates == {"select", "write", "publish", "drain", "lastWrite", "lastPublish", "exited"}
CloserStates == {"idle", "swapped", "waiting", "woken", "stopping", "returned"}

\* The WaitGroup's counter is the size of this set: Add(1) and the deferred Done.
Writing == {e \in Entries : writer[e] \in {"registered", "publishing", "sending", "full", "leaving"}}

\* The done channel is closed.
Stopping == closer \in {"stopping", "returned"}

Init == /\ closed = FALSE
        /\ writer = [e \in Entries |-> "idle"]
        /\ buffer = {} /\ batch = {}
        /\ flusher = "select"
        /\ stored = {} /\ failed = {}
        /\ live = [e \in Entries |-> "none"]
        /\ closer = "idle"
        /\ panicked = FALSE

At(e, from, to) == writer[e] = from /\ writer' = [writer EXCEPT ![e] = to]

-------------------------------------------------------------------------------
(* Write *)

FirstCheck(e) ==
  /\ At(e, "idle", IF closed THEN "done" ELSE "checked")
  /\ UNCHANGED <<closed, buffer, flusher, batch, stored, failed, live, closer>>

Register(e) ==
  /\ At(e, "checked", "registered")
  /\ UNCHANGED <<closed, buffer, flusher, batch, stored, failed, live, closer>>

\* Mutant: the flag is not read again after Add(1).
NoRecheck(e) ==
  /\ At(e, "registered", "publishing")
  /\ UNCHANGED <<closed, buffer, flusher, batch, stored, failed, live, closer>>

Recheck(e) ==
  /\ At(e, "registered", IF closed THEN "leaving" ELSE "publishing")
  /\ UNCHANGED <<closed, buffer, flusher, batch, stored, failed, live, closer>>

PublishCompleted(e) ==
  /\ At(e, "publishing", "sending")
  /\ live' = [live EXCEPT ![e] = "completed"]
  /\ UNCHANGED <<closed, buffer, flusher, batch, stored, failed, closer>>

Send(e) ==
  /\ IF Cardinality(buffer) < BufferSize
     THEN At(e, "sending", "leaving") /\ buffer' = buffer \cup {e}
     ELSE At(e, "sending", "full") /\ UNCHANGED buffer
  /\ UNCHANGED <<closed, flusher, batch, stored, failed, live, closer>>

\* Mutant: the entry is dropped without an event.
DropSilently(e) ==
  /\ At(e, "full", "leaving")
  /\ UNCHANGED <<closed, buffer, flusher, batch, stored, failed, live, closer>>

\* The buffer is full: usage.failed or audit.removed takes the snapshot back.
Drop(e) ==
  /\ At(e, "full", "leaving")
  /\ live' = [live EXCEPT ![e] = "removed"]
  /\ UNCHANGED <<closed, buffer, flusher, batch, stored, failed, closer>>

\* The deferred Done; the one that brings the counter to zero releases Wait.
Done(e) ==
  /\ At(e, "leaving", "done")
  /\ closer' = IF closer = "waiting" /\ Writing = {e} THEN "woken" ELSE closer
  /\ UNCHANGED <<closed, buffer, flusher, batch, stored, failed, live>>

Write(e) == \/ FirstCheck(e) \/ Register(e) \/ Recheck(e) \/ PublishCompleted(e)
            \/ Send(e) \/ Drop(e) \/ Done(e)

-------------------------------------------------------------------------------
(* The flush loop *)

Receive(e) ==
  /\ flusher = "select" /\ e \in buffer
  /\ buffer' = buffer \ {e}
  /\ batch' = batch \cup {e}
  /\ flusher' = IF Cardinality(batch') >= BatchFlushThreshold THEN "write" ELSE "select"
  /\ UNCHANGED <<closed, writer, stored, failed, live, closer>>

\* Mutant: the ticker flushes full batches only.
TickWhenFull ==
  /\ flusher = "select" /\ Cardinality(batch) >= BatchFlushThreshold
  /\ flusher' = "write"
  /\ UNCHANGED <<closed, writer, buffer, batch, stored, failed, live, closer>>

Tick ==
  /\ flusher = "select" /\ batch # {}
  /\ flusher' = "write"
  /\ UNCHANGED <<closed, writer, buffer, batch, stored, failed, live, closer>>

SeeDone ==
  /\ flusher = "select" /\ Stopping
  /\ flusher' = "drain"
  /\ UNCHANGED <<closed, writer, buffer, batch, stored, failed, live, closer>>

Drain(e) ==
  /\ flusher = "drain" /\ e \in buffer
  /\ buffer' = buffer \ {e}
  /\ batch' = batch \cup {e}
  /\ UNCHANGED <<closed, writer, flusher, stored, failed, live, closer>>

\* Mutant: the last flush does not wait for the channel to be empty.
StopDraining ==
  /\ flusher = "drain"
  /\ flusher' = IF batch = {} THEN "exited" ELSE "lastWrite"
  /\ UNCHANGED <<closed, writer, buffer, batch, stored, failed, live, closer>>

\* The loop leaves with the store's Flush, whose error is only logged.
Drained ==
  /\ flusher = "drain" /\ buffer = {}
  /\ flusher' = IF batch = {} THEN "exited" ELSE "lastWrite"
  /\ UNCHANGED <<closed, writer, buffer, batch, stored, failed, live, closer>>

\* flushBatch, first half: one WriteBatch, which fails as a whole.
WriteBatch(succeeds) ==
  /\ flusher \in {"write", "lastWrite"}
  /\ stored' = IF succeeds THEN stored \cup batch ELSE stored
  /\ failed' = IF succeeds THEN failed ELSE failed \cup batch
  /\ flusher' = IF flusher = "write" THEN "publish" ELSE "lastPublish"
  /\ UNCHANGED <<closed, writer, buffer, batch, live, closer>>

\* flushBatch, second half: an event for each entry.
PublishOutcome(e) ==
  /\ flusher \in {"publish", "lastPublish"} /\ e \in batch
  /\ live' = [live EXCEPT ![e] = IF e \in stored THEN "flushed" ELSE "failed"]
  /\ batch' = batch \ {e}
  /\ flusher' = IF batch' # {} THEN flusher
                ELSE IF flusher = "publish" THEN "select" ELSE "exited"
  /\ UNCHANGED <<closed, writer, buffer, stored, failed, closer>>

Loop == \/ \E e \in Entries : Receive(e) \/ Drain(e) \/ PublishOutcome(e)
        \/ Tick \/ SeeDone \/ Drained
        \/ \E succeeds \in BOOLEAN : WriteBatch(succeeds)

-------------------------------------------------------------------------------
(* Close; a second call returns at once and changes nothing *)

Swap ==
  /\ closer = "idle"
  /\ closed' = TRUE
  /\ closer' = "swapped"
  /\ UNCHANGED <<writer, buffer, flusher, batch, stored, failed, live>>

Wait ==
  /\ closer = "swapped"
  /\ closer' = IF Writing = {} THEN "stopping" ELSE "waiting"
  /\ UNCHANGED <<closed, writer, buffer, flusher, batch, stored, failed, live>>

\* The released waiter looks at the counter: an Add that came in before it ran is
\* "reused before previous Wait has returned", a panic.
Resume ==
  /\ closer = "woken" /\ Writing = {}
  /\ closer' = "stopping"
  /\ UNCHANGED <<closed, writer, buffer, flusher, batch, stored, failed, live>>

Panic ==
  /\ closer = "woken" /\ Writing # {}
  /\ ~panicked
  /\ panicked' = TRUE
  /\ UNCHANGED <<closed, writer, buffer, flusher, batch, stored, failed, live, closer>>

\* wg.Wait, then the store is closed.
CloseStore ==
  /\ closer = "stopping" /\ flusher = "exited"
  /\ closer' = "returned"
  /\ UNCHANGED <<closed, writer, buffer, flusher, batch, stored, failed, live>>

CloseStep == Swap \/ Wait \/ Resume \/ CloseStore

-------------------------------------------------------------------------------
Running == ~panicked /\ UNCHANGED panicked

Next == \/ Running /\ \E e \in Entries : Write(e)
        \/ Running /\ Loop
        \/ Running /\ CloseStep
        \/ Panic

Spec == Init /\ [][Next]_vars

\* A call of Write runs on, the loop's select serves what is ready, WriteBatch
\* has a timeout of 30 s; whether Close is called is up to the process.
Fairness == /\ \A e \in Entries : WF_vars(Running /\ Register(e))
                                  /\ WF_vars(Running /\ (Recheck(e) \/ PublishCompleted(e)))
                                  /\ WF_vars(Running /\ (Send(e) \/ Drop(e) \/ Done(e)))
            /\ WF_vars(Running /\ Loop)
            /\ WF_vars(Running /\ (Wait \/ Resume \/ CloseStore))
            /\ WF_vars(Panic)

FairSpec == Spec /\ Fairness

-------------------------------------------------------------------------------
(* Properties *)

TypeOK == /\ closed \in BOOLEAN /\ panicked \in BOOLEAN
          /\ writer \in [Entries -> WriterStates]
          /\ buffer \subseteq Entries /\ batch \subseteq Entries
          /\ stored \subseteq Entries /\ failed \subseteq Entries
          /\ flusher \in FlusherStates
          /\ closer \in CloserStates
          /\ live \in [Entries -> {"none", "completed", "removed", "flushed", "failed"}]

\* Where the ledger has an entry.
Status == [e \in Entries |->
             IF e \in stored THEN "stored"
             ELSE IF e \in failed THEN "failed"
             ELSE IF e \in buffer \cup batch THEN "pending"
             ELSE "new"]

Ledger == INSTANCE EntryLedger WITH status <- Status, open <- closer # "returned"

\* An entry that Write has put into the channel is stored or reported as failed,
\* once, and before Close closes the store, whichever way Write, the loop and
\* Close interleave.
AcceptedOnce == Ledger!Spec

\* A dashboard shows a completed entry as in flight only while a Write or the
\* loop still has to deal with it: no snapshot stays in the live broker for good.
SnapshotsArePending ==
  \A e \in Entries : live[e] = "completed" =>
    e \in buffer \cup batch \/ writer[e] \in {"sending", "full"}

\* Without a crash an accepted entry is settled, and Close returns.
Settles == /\ \A e \in Entries : e \in buffer ~> e \in stored \cup failed \/ panicked
           /\ closed ~> closer = "returned" \/ panicked
===============================================================================
