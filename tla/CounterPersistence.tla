--------------------------- MODULE CounterPersistence ---------------------------
(***************************************************************************)
(* Persistence of the rate limiter's windows across reloads and crashes:   *)
(* Service.Start, the flush loop, ResetRule and Close of each generation   *)
(* of the application, and the counter's row in the shared store.          *)
(*                                                                         *)
(* One rule with one long window.  A counter is the set of the hits it     *)
(* counts, so that a wrong count shows which hits are lost or came back.   *)
(* A replacement is built while its predecessor serves, and started when   *)
(* the predecessor's shutdown has returned or has used up its budget.      *)
(***************************************************************************)
EXTENDS Integers

CONSTANTS MaxGenerations, \* bound of reloads and restarts
          MaxHits         \* bound of what is counted

ASSUME PersistenceAssumption == MaxGenerations \in Nat \ {0} /\ MaxHits \in Nat

Generations == 1..MaxGenerations
Hits        == 1..MaxHits

VARIABLES gen,     \* the generations
          row,     \* the rule's row in rate_limit_counters, {} when there is none
          hits,    \* number of hits so far
          durable, \* history: hits that a save has written and no reset has cleared
          voided,  \* history: hits that a successful reset covers
          overrun  \* history: a drain or shutdown has used up its budget

vars == <<gen, row, hits, durable, voided, overrun>>

PersistStates == {"idle", "starting", "active", "closed"}
NoFlush       == [held |-> FALSE, snap |-> {}]
NoReset       == [step |-> "none", covers |-> {}]

\* start and close are the threads of App.startServer and App.Shutdown; flush
\* holds persistMu from the snapshot to the end of the write.
Generation ==
  [start  : {"unbuilt", "built", "load", "restore", "up", "dead"},
   close  : {"none", "drain", "closing", "final", "saved", "unsaved"},
   life   : PersistStates,
   late   : BOOLEAN,
   active : BOOLEAN,
   counter : SUBSET Hits,
   drained : SUBSET Hits, \* history: the counter when the drain ended
   loaded : SUBSET Hits,
   flush  : [held : BOOLEAN, snap : SUBSET Hits],
   reset  : [step : {"none", "cleared"}, covers : SUBSET Hits]]

Unbuilt == [start |-> "unbuilt", close |-> "none", life |-> "idle", late |-> FALSE,
            active |-> FALSE, counter |-> {}, drained |-> {}, loaded |-> {},
            flush |-> NoFlush, reset |-> NoReset]

Init == /\ gen = [g \in Generations |-> Unbuilt]
        /\ row = {} /\ hits = 0 /\ durable = {} /\ voided = {} /\ overrun = FALSE

Ended(g) == gen[g].start = "dead" \/ gen[g].close \in {"saved", "unsaved"}
\* The generations before g have ended, or are no longer waited for.
Turn(g) == \A p \in 1..(g - 1) : Ended(p) \/ (overrun /\ gen[p].close # "none")
\* The server accepts requests, or cut-off handlers still run.
Handling(g) == gen[g].start = "up" /\ (gen[g].close \in {"none", "drain"} \/ gen[g].late)

-------------------------------------------------------------------------------
(* Building and starting *)

\* NewService reads no counters.  A replacement is built beside the serving
\* generation, the first one of a process when nothing is left of the last.
Build(g) ==
  /\ gen[g].start = "unbuilt"
  /\ \A p \in 1..(g - 1) : Ended(p) \/ (p = g - 1 /\ gen[p].start = "up" /\ gen[p].close = "none")
  /\ gen' = [gen EXCEPT ![g].start = "built"]
  /\ UNCHANGED <<row, hits, durable, voided, overrun>>

\* Start runs once the predecessor's shutdown returned, or overran.
BeginStart(g) ==
  /\ gen[g].start = "built" /\ gen[g].close = "none"
  /\ Turn(g)
  /\ gen' = [gen EXCEPT ![g].start = IF gen[g].life = "idle" THEN "load" ELSE "up",
                        ![g].life  = IF @ = "idle" THEN "starting" ELSE @]
  /\ UNCHANGED <<row, hits, durable, voided, overrun>>

Load(g) ==
  /\ gen[g].start = "load"
  /\ gen' = [gen EXCEPT ![g].start = "restore", ![g].loaded = row]
  /\ UNCHANGED <<row, hits, durable, voided, overrun>>

\* Mutant: a generation whose load failed persists from a blank slate.
LoadFailsActive(g) ==
  /\ gen[g].start = "load"
  /\ gen' = [gen EXCEPT ![g].start = "up",
                        ![g].life  = IF @ = "starting" THEN "active" ELSE @]
  /\ UNCHANGED <<row, hits, durable, voided, overrun>>

\* A failed load leaves the generation idle: it serves and persists nothing.
LoadFails(g) ==
  /\ gen[g].start = "load"
  /\ gen' = [gen EXCEPT ![g].start = "up",
                        ![g].life  = IF @ = "starting" THEN "idle" ELSE @]
  /\ UNCHANGED <<row, hits, durable, voided, overrun>>

\* limiter.restore: a row with nothing in it leaves the counter alone.
Restored(g) == IF gen[g].loaded = {} THEN gen[g].counter ELSE gen[g].loaded

\* Mutant: the state is not looked at again after the load.
RestoreUnchecked(g) ==
  /\ gen[g].start = "restore"
  /\ gen' = [gen EXCEPT ![g].start = "up", ![g].life = "active",
                        ![g].counter = Restored(g),
                        ![g].loaded = {}]
  /\ UNCHANGED <<row, hits, durable, voided, overrun>>

\* restore and startFlushLoop, unless Close came first.
Restore(g) ==
  /\ gen[g].start = "restore"
  /\ gen' = IF gen[g].life = "starting"
            THEN [gen EXCEPT ![g].start = "up", ![g].life = "active",
                             ![g].counter = Restored(g),
                             ![g].loaded = {}]
            ELSE [gen EXCEPT ![g].start = "up", ![g].loaded = {}]
  /\ UNCHANGED <<row, hits, durable, voided, overrun>>

-------------------------------------------------------------------------------
(* Serving *)

\* A request is admitted or tokens are recorded.  Realtime sessions are hijacked
\* connections, and call observers have a context of their own: no drain waits for
\* them, and they record tokens with a generation that has been shut down.
Hit(g) ==
  /\ gen[g].start = "up" /\ hits < MaxHits
  /\ hits' = hits + 1
  /\ gen' = [gen EXCEPT ![g].counter = @ \union {hits'}]
  /\ UNCHANGED <<row, durable, voided, overrun>>

\* A tick of the flush loop, which may come before it sees that Close has told it
\* to stop: it takes persistMu and copies the counters.
Snapshot(g) ==
  /\ gen[g].life = "active" \/ (gen[g].close = "closing" /\ gen[g].active)
  /\ ~gen[g].flush.held
  /\ gen' = [gen EXCEPT ![g].flush = [held |-> TRUE, snap |-> gen[g].counter]]
  /\ UNCHANGED <<row, hits, durable, voided, overrun>>

\* Where Close is after its write, if the write was its own.
Written(g, outcome) == IF gen[g].close = "final" THEN outcome ELSE gen[g].close

\* SaveCounters upserts the counters there are: a row without one stays.
Save(g) ==
  /\ gen[g].flush.held
  /\ gen' = [gen EXCEPT ![g].flush = NoFlush, ![g].close = Written(g, "saved")]
  /\ IF gen[g].flush.snap = {}
     THEN UNCHANGED <<row, durable>>
     ELSE /\ row' = gen[g].flush.snap
          /\ durable' = durable \union (gen[g].flush.snap \ gen[g].reset.covers)
  /\ UNCHANGED <<hits, voided, overrun>>

SaveFails(g) ==
  /\ gen[g].flush.held
  /\ gen' = [gen EXCEPT ![g].flush = NoFlush, ![g].close = Written(g, "unsaved")]
  /\ UNCHANGED <<row, hits, durable, voided, overrun>>

\* ResetRule clears the memory first.
ClearMemory(g) ==
  /\ Handling(g) /\ gen[g].reset.step = "none"
  /\ gen' = [gen EXCEPT ![g].counter = {},
                        ![g].reset = [step |-> "cleared", covers |-> 1..hits]]
  /\ durable' = {}
  /\ UNCHANGED <<row, hits, voided, overrun>>

\* Mutant: persistDelete does not wait for a flush.
DeleteRowUnlocked(g) ==
  /\ gen[g].reset.step = "cleared"
  /\ gen' = [gen EXCEPT ![g].reset = NoReset]
  /\ row' = {} /\ durable' = {}
  /\ voided' = voided \union gen[g].reset.covers
  /\ UNCHANGED <<hits, overrun>>

\* Then it deletes the row under persistMu, and returns no error.
DeleteRow(g) ==
  /\ gen[g].reset.step = "cleared" /\ ~gen[g].flush.held
  /\ gen' = [gen EXCEPT ![g].reset = NoReset]
  /\ row' = {} /\ durable' = {}
  /\ voided' = voided \union gen[g].reset.covers
  /\ UNCHANGED <<hits, overrun>>

\* The caller learns that the row may come back.
DeleteFails(g) ==
  /\ gen[g].reset.step = "cleared" /\ ~gen[g].flush.held
  /\ gen' = [gen EXCEPT ![g].reset = NoReset]
  /\ UNCHANGED <<row, hits, durable, voided, overrun>>

-------------------------------------------------------------------------------
(* Shutting down *)

\* The serving generation ends for a stop or for its replacement, and a
\* replacement that will not serve is discarded.
BeginShutdown(g) ==
  /\ gen[g].start \in {"built", "load", "restore", "up"} /\ gen[g].close = "none"
  /\ Turn(g)
  /\ gen' = [gen EXCEPT ![g].close = "drain"]
  /\ UNCHANGED <<row, hits, durable, voided, overrun>>

\* The drain waits for the start and for the handlers of requests, within limits.
Drained(g) ==
  /\ gen[g].close = "drain"
  /\ \E late \in BOOLEAN :
       /\ gen[g].start \in {"load", "restore"} \/ gen[g].reset.step # "none" => late
       /\ gen' = [gen EXCEPT ![g].close = "closing", ![g].late = late,
                             ![g].life = "closed", ![g].active = (gen[g].life = "active"),
                             ![g].drained = gen[g].counter]
       /\ overrun' = (overrun \/ late)
  /\ UNCHANGED <<row, hits, durable, voided>>

\* Mutant: Close waits for a flush loop that was never started.
FinalSnapshotNeverStarted(g) ==
  /\ gen[g].close = "closing" /\ ~gen[g].flush.held /\ gen[g].active
  /\ gen' = [gen EXCEPT ![g].close = "final",
                        ![g].flush = [held |-> TRUE, snap |-> gen[g].counter]]
  /\ UNCHANGED <<row, hits, durable, voided, overrun>>

\* Mutant: Close leaves out the last write.
FinalSnapshotSkipped(g) ==
  /\ gen[g].close = "closing" /\ ~gen[g].flush.held
  /\ gen' = [gen EXCEPT ![g].close = "saved"]
  /\ UNCHANGED <<row, hits, durable, voided, overrun>>

\* Close waits for the flush loop; a generation that was active writes once more.
FinalSnapshot(g) ==
  /\ gen[g].close = "closing" /\ ~gen[g].flush.held
  /\ gen' = IF gen[g].active
            THEN [gen EXCEPT ![g].close = "final",
                             ![g].flush = [held |-> TRUE, snap |-> gen[g].counter]]
            ELSE [gen EXCEPT ![g].close = "unsaved"]
  /\ UNCHANGED <<row, hits, durable, voided, overrun>>

\* shutdownTimeout passes; the shutdown goes on, but nobody waits for it.
Overrun(g) ==
  /\ gen[g].close \in {"drain", "closing", "final"}
  /\ overrun' = TRUE
  /\ UNCHANGED <<gen, row, hits, durable, voided>>

\* The process dies: every generation that it had built.
Crash ==
  /\ \E g \in Generations : gen[g].start # "unbuilt" /\ ~Ended(g)
  /\ gen' = [g \in Generations |->
               IF gen[g].start = "unbuilt" THEN gen[g] ELSE [Unbuilt EXCEPT !.start = "dead"]]
  /\ UNCHANGED <<row, hits, durable, voided, overrun>>

Next == \/ \E g \in Generations :
             \/ Build(g) \/ BeginStart(g) \/ Load(g) \/ LoadFails(g) \/ Restore(g)
             \/ Hit(g) \/ Snapshot(g) \/ Save(g) \/ SaveFails(g)
             \/ ClearMemory(g) \/ DeleteRow(g) \/ DeleteFails(g)
             \/ BeginShutdown(g) \/ Drained(g) \/ FinalSnapshot(g) \/ Overrun(g)
        \/ Crash

Spec == Init /\ [][Next]_vars

\* Store calls end (persistTimeout), and so do drains; a flush loop that is told to
\* stop does not go on choosing its ticker.
FairSpec == Spec /\ \A g \in Generations :
                      /\ WF_vars(Drained(g)) /\ SF_vars(FinalSnapshot(g))
                      /\ WF_vars(Save(g) \/ SaveFails(g))

-------------------------------------------------------------------------------
(* Properties *)

\* A reset that reported success holds: no flush, reload or restart brings back a
\* hit that it covers, as long as no shutdown overran.
ResetHolds ==
  ~overrun => /\ row \intersect voided = {}
              /\ \A g \in Generations : Ended(g) \/ gen[g].counter \intersect voided = {}

\* What has once been written stays in the row until a reset deletes it: a
\* generation that never served, or whose load failed, writes nothing over it.
DurableStays == ~overrun => durable \subseteq row

\* A reload hands the windows over: a generation that starts after an orderly
\* shutdown counts every hit that its predecessor had counted when its drain ended.
\* Of what realtime sessions record after that nothing is promised.
DrainedIsHandedOver ==
  [][\A g \in Generations :
       /\ g > 1 /\ gen[g - 1].close = "saved" /\ ~overrun
       /\ gen[g].life = "starting" /\ gen'[g].life = "active"
       => gen[g - 1].drained \subseteq gen'[g].counter]_vars

\* A generation that has been closed does not become active again: an overtaken
\* Start restores nothing.
ClosedStaysClosed ==
  [][\A g \in Generations :
       gen[g].life = "closed" /\ gen[g].start # "dead" /\ gen'[g].start # "dead" =>
         /\ gen'[g].life = "closed"
         /\ Restore(g) => UNCHANGED gen[g].counter]_vars

\* A shutdown that has begun ends, or the process dies.
ShutdownEnds == \A g \in Generations : gen[g].close = "drain" ~> Ended(g)
===============================================================================
