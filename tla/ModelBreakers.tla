----------------------------- MODULE ModelBreakers -----------------------------
(***************************************************************************)
(* The table of per-model breakers of a client whose breaker scope is      *)
(* "model": requests pin the breaker of their model under modelBreakersMu, *)
(* use it under the breaker's own mutex, and unpin it when they finish.    *)
(*                                                                         *)
(* A breaker is a heap object named by an identity: the table and the      *)
(* requests hold references.  lastUsed is abstracted to the entry's age in *)
(* ticks, saturated at IdleTTL.  A request is its use of the breaker; the  *)
(* attempts between acquire and the verdict are those of LLMClient.        *)
(***************************************************************************)
EXTENDS CircuitBreaker, FiniteSets

CONSTANTS Requests,          \* goroutines that issue requests
          Models,            \* model names callers ask for
          Breakers,          \* identities of heap-allocated breakers
          NoBreaker,         \* a nil reference
          MaxModelBreakers,  \* maxModelBreakers
          IdleTTL            \* modelBreakerIdleTTL, in ticks

ASSUME TableAssumption == /\ MaxModelBreakers \in Nat \ {0}
                          /\ IdleTTL \in Nat \ {0}
                          /\ NoBreaker \notin Breakers
                          /\ IsFiniteSet(Requests) /\ IsFiniteSet(Models)

VARIABLES table,  \* modelBreakers
          heap,   \* the breaker behind each identity
          req     \* what each goroutine is doing

vars == <<table, heap, req>>

Entry   == [breaker : Breakers, active : Nat, age : 0..IdleTTL]
NoEntry == [breaker |-> NoBreaker, active |-> 0, age |-> 0]

\* "found": breakerForModel has returned; "sent": acquire has admitted the
\* request; "ending": its outcome is recorded, finishRequest is to run.
Phases == {"idle", "found", "sent", "ending"}

Request == [phase : Phases, model : Models, breaker : Breakers, probe : BOOLEAN]
Idle    == [phase |-> "idle"]

Held == {m \in Models : table[m] # NoEntry}

Init == /\ table = [m \in Models |-> NoEntry]
        /\ heap = [b \in Breakers |-> NewBreaker]
        /\ req = [r \in Requests |-> Idle]

-------------------------------------------------------------------------------
(* breakerForModel *)

\* Requests that hold a reference to the breaker of model m.
Using(m) == {r \in Requests : req[r] # Idle /\ req[r].model = m}

\* Identities that nothing refers to.
Fresh == Breakers \ ({table[m].breaker : m \in Models}
                       \union {req[r].breaker : r \in {s \in Requests : req[s] # Idle}})

\* Mutant: the scan does not look at the pins.
EvictableThoughPinned(m) == m \in Held /\ heap[table[m].breaker].state = "closed"

\* Mutant: the scan does not look at the state of the breaker.
EvictableInAnyState(m) == m \in Held /\ table[m].active = 0

\* An idle, closed entry.
Evictable(m) == /\ m \in Held
                /\ table[m].active = 0
                /\ heap[table[m].breaker].state = "closed"

Expired == {m \in Models : Evictable(m) /\ table[m].age >= IdleTTL}

\* The evictable entries that were used longest ago, after the expired ones.
Oldest == LET candidates == {m \in Models : Evictable(m)} \ Expired
          IN  {m \in candidates : \A k \in candidates : table[k].age <= table[m].age}

\* The table without the models of gone, and with a new breaker for model m.
Insert(r, m, gone) ==
  \E b \in Fresh :
    /\ table' = [k \in Models |->
                   IF k = m THEN [breaker |-> b, active |-> 1, age |-> 0]
                   ELSE IF k \in gone THEN NoEntry ELSE table[k]]
    /\ heap' = [heap EXCEPT ![b] = NewBreaker]
    /\ req' = [req EXCEPT ![r] = [phase |-> "found", model |-> m, breaker |-> b,
                                  probe |-> FALSE]]

Find(r, m) ==
  /\ req[r] = Idle /\ m \in Held
  /\ table' = [table EXCEPT ![m].active = @ + 1]
  /\ req' = [req EXCEPT ![r] = [phase |-> "found", model |-> m,
                                breaker |-> table[m].breaker, probe |-> FALSE]]
  /\ UNCHANGED heap

Add(r, m) ==
  /\ req[r] = Idle /\ m \notin Held
  /\ Cardinality(Held \ Expired) < MaxModelBreakers
  /\ Insert(r, m, Expired)

\* Mutant: the new breaker goes in before the oldest goes out.
ReplaceKeeping(r, m) ==
  /\ req[r] = Idle /\ m \notin Held
  /\ Cardinality(Held \ Expired) >= MaxModelBreakers
  /\ Oldest # {}
  /\ Insert(r, m, Expired)

Replace(r, m) ==
  /\ req[r] = Idle /\ m \notin Held
  /\ Cardinality(Held \ Expired) >= MaxModelBreakers
  /\ \E oldest \in Oldest : Insert(r, m, Expired \union {oldest})

\* Every entry is protected: the request fails with 503 and is finished, which
\* releases nothing.
Refuse(r, m) ==
  /\ req[r] = Idle /\ m \notin Held
  /\ Cardinality(Held \ Expired) >= MaxModelBreakers
  /\ Oldest = {}
  /\ table' = [k \in Models |-> IF k \in Expired THEN NoEntry ELSE table[k]]
  /\ UNCHANGED <<heap, req>>

-------------------------------------------------------------------------------
(* The request's use of the breaker it holds *)

Admit(r) ==
  /\ req[r] # Idle /\ req[r].phase = "found"
  /\ Allowed(heap[req[r].breaker])
  /\ heap' = [heap EXCEPT ![req[r].breaker] = Acquire(@)]
  /\ req' = [req EXCEPT ![r].phase = "sent", ![r].probe = IsProbe(heap[req[r].breaker])]
  /\ UNCHANGED table

\* Mutant: a rejected request is not finished.
RejectOpenUnreleased(r) ==
  /\ req[r] # Idle /\ req[r].phase = "found"
  /\ ~Allowed(heap[req[r].breaker])
  /\ req' = [req EXCEPT ![r] = Idle]
  /\ UNCHANGED <<table, heap>>

RejectOpen(r) ==
  /\ req[r] # Idle /\ req[r].phase = "found"
  /\ ~Allowed(heap[req[r].breaker])
  /\ req' = [req EXCEPT ![r].phase = "ending"]
  /\ UNCHANGED <<table, heap>>

\* completeScope's first half; a request that ends without a verdict returns the
\* slot if it is a probe.
Record(r, verdict) ==
  /\ req[r] # Idle /\ req[r].phase = "sent"
  /\ heap' = [heap EXCEPT ![req[r].breaker] =
                CASE verdict = "success" -> RecordSuccess(@)
                  [] verdict = "failure" -> RecordFailure(@)
                  [] verdict = "none"    -> IF req[r].probe THEN ReleaseProbe(@) ELSE @]
  /\ req' = [req EXCEPT ![r].phase = "ending", ![r].probe = FALSE]
  /\ UNCHANGED table

\* releaseModelBreaker, from finishRequest
Release(r) ==
  /\ req[r] # Idle /\ req[r].phase = "ending"
  /\ LET m == req[r].model IN
     IF table[m].breaker = req[r].breaker
     THEN table' = [table EXCEPT ![m].active = @ - 1, ![m].age = 0]
     ELSE UNCHANGED table
  /\ req' = [req EXCEPT ![r] = Idle]
  /\ UNCHANGED heap

-------------------------------------------------------------------------------
(* Time *)

Tick == /\ \E m \in Held : table[m].age < IdleTTL
        /\ table' = [m \in Models |->
                       IF m \in Held /\ table[m].age < IdleTTL
                       THEN [table[m] EXCEPT !.age = @ + 1] ELSE table[m]]
        /\ UNCHANGED <<heap, req>>

CoolDown(m) == /\ m \in Held
               /\ heap[table[m].breaker].state = "open" /\ ~heap[table[m].breaker].cooled
               /\ heap' = [heap EXCEPT ![table[m].breaker] = Cool(@)]
               /\ UNCHANGED <<table, req>>

Lookup(r, m) == Find(r, m) \/ Add(r, m) \/ Replace(r, m) \/ Refuse(r, m)

Step(r) == \/ Admit(r)
           \/ RejectOpen(r)
           \/ \E verdict \in {"success", "failure", "none"} : Record(r, verdict)
           \/ Release(r)

Next == \/ \E r \in Requests : Step(r) \/ \E m \in Models : Lookup(r, m)
        \/ \E m \in Models : CoolDown(m)
        \/ Tick

Spec == Init /\ [][Next]_vars

-------------------------------------------------------------------------------
(* Properties *)

TypeOK == /\ table \in [Models -> Entry \union {NoEntry}]
          /\ heap \in [Breakers -> Breaker]
          /\ req \in [Requests -> Request \union {Idle}]

\* All requests of a model in flight hold the breaker the table has for it, so
\* no outcome goes to a breaker nobody reads: an entry in use is not evicted.
PinnedStays == \A m \in Models : \A r \in Using(m) : table[m].breaker = req[r].breaker

\* An entry's pin count is the number of its requests in flight, so it becomes
\* evictable when they have finished, and not before.
PinsExact == \A m \in Held : table[m].active = Cardinality(Using(m))

\* The table is bounded, whatever names the callers send.
Bounded == Cardinality(Held) <= MaxModelBreakers

\* An open or half-open breaker is never forgotten: an entry that leaves the
\* table was closed.
ProtectsOpen ==
  [][\A m \in Held : table'[m].breaker # table[m].breaker =>
       heap[table[m].breaker].state = "closed"]_vars
===============================================================================
