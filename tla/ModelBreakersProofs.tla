-------------------------- MODULE ModelBreakersProofs --------------------------
(* Proofs about ModelBreakers, for any finite set of requests and models, any   *)
(* supply of breakers and any limits: a breaker in use stays in the table, its  *)
(* pins are counted exactly, the table is bounded and forgets closed breakers   *)
(* only.                                                                        *)
EXTENDS ModelBreakers, FiniteSetTheorems, TLAPS

\* The inductive invariant.  PinsExact makes an entry without pins one without
\* requests, PinnedStays makes the breaker of a request the one in the table.
IInv == TypeOK /\ PinnedStays /\ PinsExact /\ Bounded

-------------------------------------------------------------------------------
(* The table *)

\* An entry is in the table iff its breaker is one.
LEMMA HeldLemma ==
  ASSUME TypeOK, NEW m \in Models
  PROVE  /\ m \in Held <=> table[m] \in Entry
         /\ m \in Held <=> table[m].breaker \in Breakers
         /\ m \notin Held <=> table[m] = NoEntry
         /\ m \notin Held => table[m].breaker = NoBreaker
<1>1. NoEntry.breaker = NoBreaker
  BY DEF NoEntry
<1>2. NoEntry.breaker \notin Breakers /\ NoEntry \notin Entry
  BY <1>1, TableAssumption DEF Entry
<1>3. table[m] \in Entry \union {NoEntry}
  BY DEF TypeOK
<1>4. table[m] \in Entry => table[m].breaker \in Breakers
  BY DEF Entry
<1> QED
  BY <1>1, <1>2, <1>3, <1>4 DEF Held

LEMMA UsingFinite ==
  ASSUME NEW m \in Models
  PROVE  IsFiniteSet(Using(m)) /\ Cardinality(Using(m)) \in Nat
  BY TableAssumption, FS_Subset, FS_CardinalityType DEF Using

LEMMA HeldFinite == IsFiniteSet(Held) /\ Cardinality(Held) \in Nat
  BY TableAssumption, FS_Subset, FS_CardinalityType DEF Held

\* A request in flight is a Request, whose breaker is one.
LEMMA BusyLemma ==
  ASSUME TypeOK, NEW r \in Requests, req[r] # Idle
  PROVE  /\ req[r] \in Request
         /\ req[r].model \in Models /\ req[r].breaker \in Breakers
<1>1. req[r] \in Request
  BY DEF TypeOK
<1> QED
  BY <1>1 DEF Request

\* A model without a pinned entry has no requests.
LEMMA Unpinned ==
  ASSUME IInv, NEW m \in Models, m \notin Held \/ table[m].active = 0
  PROVE  Using(m) = {}
<1>1. CASE m \notin Held
  <2>1. table[m].breaker \notin Breakers
    BY <1>1, HeldLemma DEF IInv
  <2>2. ASSUME NEW r \in Using(m) PROVE FALSE
    <3>1. r \in Requests /\ req[r] # Idle
      BY <2>2 DEF Using
    <3>2. req[r].breaker \in Breakers
      BY <3>1, BusyLemma DEF IInv
    <3>3. table[m].breaker = req[r].breaker
      BY <2>2 DEF IInv, PinnedStays
    <3> QED  BY <2>1, <3>2, <3>3
  <2> QED  BY <2>2
<1>2. CASE m \in Held /\ table[m].active = 0
  <2>1. Cardinality(Using(m)) = 0
    BY <1>2 DEF IInv, PinsExact
  <2> QED  BY <2>1, UsingFinite, FS_EmptySet
<1> QED
  BY <1>1, <1>2

\* A request in state s is one of its model's.
LEMMA RequestType ==
  ASSUME NEW r \in Requests, NEW s \in Request \union {Idle}, TypeOK,
         req' = [req EXCEPT ![r] = s]
  PROVE  req' \in [Requests -> Request \union {Idle}]
  BY Zenon DEF TypeOK

\* Every method of a breaker leaves a breaker.
LEMMA MethodsType ==
  ASSUME NEW b \in Breaker
  PROVE  /\ Acquire(b) \in Breaker /\ IsProbe(b) \in BOOLEAN
         /\ ReleaseProbe(b) \in Breaker /\ RecordSuccess(b) \in Breaker
         /\ RecordFailure(b) \in Breaker /\ Cool(b) \in Breaker
<1>1. /\ Acquire(b) \in Breaker /\ IsProbe(b) \in BOOLEAN
      /\ ReleaseProbe(b) \in Breaker /\ Cool(b) \in Breaker
  BY DEF Breaker, States, Acquire, IsProbe, Ready, ToHalfOpen, ReleaseProbe, Cool
<1>2. RecordSuccess(b) \in Breaker
  <2>1. b.successes + 1 \in Nat /\ 0 \in 0..FailureThreshold
    BY ThresholdAssumption DEF Breaker
  <2> QED  BY <2>1 DEF Breaker, States, RecordSuccess, CountSuccess
<1>3. RecordFailure(b) \in Breaker
  <2>1. (IF b.failures < FailureThreshold THEN b.failures + 1 ELSE b.failures) \in 0..FailureThreshold
    BY ThresholdAssumption DEF Breaker
  <2> QED  BY <2>1 DEF Breaker, States, RecordFailure, CountFailure
<1> QED
  BY <1>1, <1>2, <1>3

LEMMA HeapType ==
  ASSUME NEW b \in Breakers, NEW c \in Breaker, TypeOK,
         heap' = [heap EXCEPT ![b] = c]
  PROVE  heap' \in [Breakers -> Breaker]
  BY Zenon DEF TypeOK

LEMMA NewBreakerType == NewBreaker \in Breaker
  BY ThresholdAssumption DEF Breaker, States, NewBreaker

\* A request that keeps its model and its breaker, in another phase.
LEMMA SamePins ==
  ASSUME IInv, NEW r \in Requests, req[r] # Idle, NEW s \in Request, s # Idle,
         s.model = req[r].model, s.breaker = req[r].breaker,
         req' = [req EXCEPT ![r] = s], table' = table
  PROVE  PinnedStays' /\ PinsExact' /\ Bounded' /\ req' \in [Requests -> Request \union {Idle}]
<1>1. req' \in [Requests -> Request \union {Idle}]
  BY RequestType DEF IInv
<1>2. ASSUME NEW q \in Requests
      PROVE  /\ req'[q] # Idle <=> req[q] # Idle
             /\ req[q] # Idle => req'[q].model = req[q].model /\ req'[q].breaker = req[q].breaker
  BY DEF IInv, TypeOK
<1>3. \A m \in Models : Using(m)' = Using(m)
  BY <1>2 DEF Using
<1>4. Held' = Held
  BY DEF Held
<1>5. PinnedStays'
  BY <1>2, <1>3 DEF IInv, PinnedStays, Using
<1>6. PinsExact'
  <2> SUFFICES ASSUME NEW m \in Held'
               PROVE  table'[m].active = Cardinality(Using(m)')
    BY DEF PinsExact
  <2>1. m \in Held /\ m \in Models
    BY <1>4 DEF Held
  <2> QED  BY <1>3, <2>1 DEF IInv, PinsExact
<1>7. Bounded'
  BY <1>4 DEF IInv, Bounded
<1> QED
  BY <1>1, <1>5, <1>6, <1>7

-------------------------------------------------------------------------------
(* breakerForModel *)

\* A new entry, for a model that has none, in place of entries nobody uses.
LEMMA InsertInvariant ==
  ASSUME IInv, NEW r \in Requests, NEW m \in Models, req[r] = Idle, m \notin Held,
         NEW gone \in SUBSET Models, \A k \in gone : Evictable(k),
         Cardinality(Held \ gone) < MaxModelBreakers,
         Insert(r, m, gone)
  PROVE  IInv'
<1> DEFINE s(b) == [phase |-> "found", model |-> m, breaker |-> b, probe |-> FALSE]
<1>1. PICK b \in Fresh :
        /\ table' = [k \in Models |->
                       IF k = m THEN [breaker |-> b, active |-> 1, age |-> 0]
                       ELSE IF k \in gone THEN NoEntry ELSE table[k]]
        /\ heap' = [heap EXCEPT ![b] = NewBreaker]
        /\ req' = [req EXCEPT ![r] = s(b)]
  BY DEF Insert
<1>2. b \in Breakers
  BY DEF Fresh
<1>3. s(b) \in Request /\ s(b) # Idle /\ s(b).model = m /\ s(b).breaker = b
  BY <1>2 DEF Request, Phases, Idle
<1>4. [breaker |-> b, active |-> 1, age |-> 0] \in Entry
  BY <1>2, TableAssumption DEF Entry
<1>5. \A k \in Models : table'[k] = IF k = m THEN [breaker |-> b, active |-> 1, age |-> 0]
                                    ELSE IF k \in gone THEN NoEntry ELSE table[k]
  BY <1>1
<1> HIDE DEF s
<1>6. TypeOK'
  <2>1. table' \in [Models -> Entry \union {NoEntry}]
    <3>1. \A k \in Models : table'[k] \in Entry \union {NoEntry}
      BY <1>4, <1>5 DEF IInv, TypeOK
    <3> QED  BY <1>1, <3>1
  <2>2. req' \in [Requests -> Request \union {Idle}]
    BY <1>1, <1>3, RequestType DEF IInv
  <2>3. heap' \in [Breakers -> Breaker]
    BY <1>1, <1>2, NewBreakerType, HeapType DEF IInv
  <2> QED  BY <2>1, <2>2, <2>3 DEF TypeOK
<1>7. \A q \in Requests : req'[q] = IF q = r THEN s(b) ELSE req[q]
  BY <1>1 DEF IInv, TypeOK
<1>8. Using(m) = {} /\ Using(m)' = {r}
  <2>1. Using(m) = {}
    BY Unpinned
  <2>2. r \in Using(m)'
    BY <1>3, <1>7 DEF Using
  <2>3. \A q \in Using(m)' : q = r
    BY <1>7, <2>1 DEF Using
  <2> QED  BY <2>1, <2>2, <2>3
<1>9. \A k \in Models \ {m} : Using(k)' = Using(k)
  BY <1>3, <1>7 DEF Using
<1>10. \A k \in gone : Using(k) = {}
  BY Unpinned DEF Evictable
<1>11. PinnedStays'
  <2> SUFFICES ASSUME NEW k \in Models, NEW q \in Using(k)'
               PROVE  table'[k].breaker = req'[q].breaker
    BY DEF PinnedStays
  <2>1. CASE k = m
    BY <1>3, <1>5, <1>7, <1>8, <2>1
  <2>2. CASE k # m
    <3>1. q \in Using(k) /\ q # r /\ q \in Requests
      BY <1>9, <2>2 DEF Using
    <3>2. k \notin gone
      BY <1>10, <3>1
    <3>3. table[k].breaker = req[q].breaker
      BY <3>1 DEF IInv, PinnedStays
    <3> QED  BY <1>5, <1>7, <2>2, <3>1, <3>2, <3>3
  <2> QED  BY <2>1, <2>2
<1>12. Held' = (Held \ gone) \union {m}
  <2>1. NoEntry \notin Entry
    BY TableAssumption DEF Entry, NoEntry
  <2> QED  BY <1>4, <1>5, <2>1 DEF Held
<1>13. PinsExact'
  <2> SUFFICES ASSUME NEW k \in Held'
               PROVE  table'[k].active = Cardinality(Using(k)')
    BY DEF PinsExact
  <2>1. CASE k = m
    BY <1>5, <1>8, <2>1, FS_Singleton
  <2>2. CASE k # m
    <3>1. k \in Held /\ k \notin gone /\ k \in Models
      BY <1>12, <2>2 DEF Held
    <3>2. table[k].active = Cardinality(Using(k))
      BY <3>1 DEF IInv, PinsExact
    <3> QED  BY <1>5, <1>9, <2>2, <3>1, <3>2
  <2> QED  BY <2>1, <2>2
<1>14. Bounded'
  <2>1. IsFiniteSet(Held \ gone) /\ Cardinality(Held \ gone) \in Nat
    BY HeldFinite, FS_Subset, FS_CardinalityType
  <2>2. Cardinality(Held') = Cardinality(Held \ gone) + 1
    BY <1>12, <2>1, FS_AddElement
  <2> QED  BY <2>1, <2>2, TableAssumption DEF Bounded
<1> QED
  BY <1>6, <1>11, <1>13, <1>14 DEF IInv

\* A request that finds its entry pins it once more.
LEMMA FindInvariant ==
  ASSUME IInv, NEW r \in Requests, NEW m \in Models, Find(r, m)
  PROVE  IInv'
<1> DEFINE s == [phase |-> "found", model |-> m, breaker |-> table[m].breaker,
                 probe |-> FALSE]
           e == [table[m] EXCEPT !.active = @ + 1]
<1>1. /\ req[r] = Idle /\ m \in Held /\ heap' = heap
      /\ table' = [table EXCEPT ![m] = e] /\ req' = [req EXCEPT ![r] = s]
  BY DEF Find
<1>2. table[m] \in Entry /\ table[m].breaker \in Breakers
  BY <1>1, HeldLemma DEF IInv
<1>3. s \in Request /\ s # Idle /\ s.model = m /\ s.breaker = table[m].breaker
  BY <1>2 DEF Request, Phases, Idle
<1>4. e \in Entry /\ e.breaker = table[m].breaker /\ e.active = table[m].active + 1
  BY <1>2 DEF Entry
<1> HIDE DEF s, e
<1>5. \A k \in Models : table'[k] = IF k = m THEN e ELSE table[k]
  BY <1>1 DEF IInv, TypeOK
<1>6. \A q \in Requests : req'[q] = IF q = r THEN s ELSE req[q]
  BY <1>1 DEF IInv, TypeOK
<1>7. TypeOK'
  <2>1. table' \in [Models -> Entry \union {NoEntry}]
    BY <1>1, <1>4, Zenon DEF IInv, TypeOK
  <2>2. req' \in [Requests -> Request \union {Idle}]
    BY <1>1, <1>3, RequestType DEF IInv
  <2> QED  BY <1>1, <2>1, <2>2 DEF IInv, TypeOK
<1>8. Using(m)' = Using(m) \union {r} /\ r \notin Using(m)
  BY <1>1, <1>3, <1>6 DEF Using
<1>9. \A k \in Models \ {m} : Using(k)' = Using(k)
  BY <1>1, <1>3, <1>6 DEF Using
<1>10. Held' = Held
  <2>1. e # NoEntry
    BY <1>4, TableAssumption DEF Entry, NoEntry
  <2> QED  BY <1>1, <1>5, <2>1 DEF Held
<1>11. PinnedStays'
  <2> SUFFICES ASSUME NEW k \in Models, NEW q \in Using(k)'
               PROVE  table'[k].breaker = req'[q].breaker
    BY DEF PinnedStays
  <2>1. q \in Requests
    BY DEF Using
  <2>2. CASE q = r
    <3>1. k = m
      BY <1>1, <1>9, <2>2 DEF Using
    <3> QED  BY <1>3, <1>4, <1>5, <1>6, <2>1, <2>2, <3>1
  <2>3. CASE q # r
    <3>1. q \in Using(k)
      BY <1>6, <2>1, <2>3 DEF Using
    <3>2. table[k].breaker = req[q].breaker
      BY <3>1 DEF IInv, PinnedStays
    <3> QED  BY <1>4, <1>5, <1>6, <2>1, <2>3, <3>2
  <2> QED  BY <2>2, <2>3
<1>12. PinsExact'
  <2> SUFFICES ASSUME NEW k \in Held'
               PROVE  table'[k].active = Cardinality(Using(k)')
    BY DEF PinsExact
  <2>1. k \in Held /\ k \in Models
    BY <1>10 DEF Held
  <2>2. table[k].active = Cardinality(Using(k))
    BY <2>1 DEF IInv, PinsExact
  <2>3. CASE k = m
    <3>1. Cardinality(Using(k)') = Cardinality(Using(k)) + 1
      BY <1>8, <2>1, <2>3, UsingFinite, FS_AddElement
    <3> QED  BY <1>4, <1>5, <2>1, <2>2, <2>3, <3>1
  <2>4. CASE k # m
    BY <1>5, <1>9, <2>1, <2>2, <2>4
  <2> QED  BY <2>3, <2>4
<1>13. Bounded'
  BY <1>10 DEF IInv, Bounded
<1> QED
  BY <1>7, <1>11, <1>12, <1>13 DEF IInv

LEMMA AddInvariant ==
  ASSUME IInv, NEW r \in Requests, NEW m \in Models, Add(r, m)
  PROVE  IInv'
<1>1. Expired \in SUBSET Models /\ \A k \in Expired : Evictable(k)
  BY DEF Expired
<1> QED
  BY <1>1, InsertInvariant DEF Add

LEMMA ReplaceInvariant ==
  ASSUME IInv, NEW r \in Requests, NEW m \in Models, Replace(r, m)
  PROVE  IInv'
<1>1. PICK oldest \in Oldest : Insert(r, m, Expired \union {oldest})
  BY DEF Replace
<1>2. /\ Expired \union {oldest} \in SUBSET Models
      /\ \A k \in Expired \union {oldest} : Evictable(k)
      /\ oldest \in Held \ Expired
  BY DEF Expired, Oldest, Evictable
<1>3. Cardinality(Held \ (Expired \union {oldest})) < MaxModelBreakers
  <2>1. IsFiniteSet(Held \ Expired) /\ Cardinality(Held \ Expired) <= Cardinality(Held)
    BY HeldFinite, FS_Subset
  <2>2. /\ Held \ (Expired \union {oldest}) = (Held \ Expired) \ {oldest}
        /\ Cardinality((Held \ Expired) \ {oldest}) = Cardinality(Held \ Expired) - 1
    BY <1>2, <2>1, FS_RemoveElement
  <2>3. Cardinality(Held \ Expired) \in Nat
    BY <2>1, FS_CardinalityType
  <2> QED  BY <2>1, <2>2, <2>3, HeldFinite, TableAssumption DEF IInv, Bounded
<1> QED
  BY <1>1, <1>2, <1>3, InsertInvariant DEF Replace

\* A refused request has removed the expired entries only.
LEMMA RefuseInvariant ==
  ASSUME IInv, NEW r \in Requests, NEW m \in Models, Refuse(r, m)
  PROVE  IInv'
<1>1. /\ table' = [k \in Models |-> IF k \in Expired THEN NoEntry ELSE table[k]]
      /\ heap' = heap /\ req' = req
  BY DEF Refuse
<1>2. TypeOK'
  <2>1. \A k \in Models : table'[k] \in Entry \union {NoEntry}
    BY <1>1 DEF IInv, TypeOK
  <2>2. table' \in [Models -> Entry \union {NoEntry}]
    BY <1>1, <2>1
  <2> QED  BY <1>1, <2>2 DEF IInv, TypeOK
<1>3. \A k \in Models : Using(k)' = Using(k)
  BY <1>1 DEF Using
<1>4. \A k \in Expired : Using(k) = {}
  BY Unpinned DEF Expired, Evictable
<1>5. PinnedStays'
  BY <1>1, <1>3, <1>4 DEF IInv, PinnedStays
<1>6. Held' = Held \ Expired
  BY <1>1 DEF Held
<1>7. PinsExact'
  <2> SUFFICES ASSUME NEW k \in Held'
               PROVE  table'[k].active = Cardinality(Using(k)')
    BY DEF PinsExact
  <2>1. k \in Held /\ k \in Models /\ k \notin Expired
    BY <1>6 DEF Held
  <2> QED  BY <1>1, <1>3, <2>1 DEF IInv, PinsExact
<1>8. Bounded'
  <2>1. Cardinality(Held \ Expired) <= Cardinality(Held)
    BY HeldFinite, FS_Subset
  <2>2. Cardinality(Held \ Expired) \in Nat
    BY HeldFinite, FS_Subset, FS_CardinalityType
  <2> QED  BY <1>6, <2>1, <2>2, HeldFinite, TableAssumption DEF IInv, Bounded
<1> QED
  BY <1>2, <1>5, <1>7, <1>8 DEF IInv

-------------------------------------------------------------------------------
(* The request's use of its breaker *)

LEMMA AdmitInvariant ==
  ASSUME IInv, NEW r \in Requests, Admit(r)
  PROVE  IInv'
<1> DEFINE b == req[r].breaker
           p == IsProbe(heap[b])
           s == [req[r] EXCEPT !.phase = "sent", !.probe = p]
<1>1. /\ req[r] # Idle /\ Allowed(heap[b]) /\ table' = table
      /\ heap' = [heap EXCEPT ![b] = Acquire(heap[b])]
      /\ req' = [req EXCEPT ![r] = s]
  BY DEF Admit
<1>2. req[r] \in Request /\ b \in Breakers
  BY <1>1, BusyLemma DEF IInv
<1>3. heap[b] \in Breaker
  BY <1>2 DEF IInv, TypeOK
<1>4. Acquire(heap[b]) \in Breaker /\ p \in BOOLEAN
  BY <1>3, MethodsType DEF p
<1> HIDE DEF p
<1>5. s \in Request /\ s # Idle /\ s.model = req[r].model /\ s.breaker = req[r].breaker
  BY <1>2, <1>4 DEF Request, Phases, Idle
<1> HIDE DEF s
<1>6. heap' \in [Breakers -> Breaker]
  BY <1>1, <1>2, <1>4, HeapType DEF IInv
<1>7. PinnedStays' /\ PinsExact' /\ Bounded' /\ req' \in [Requests -> Request \union {Idle}]
  BY <1>1, <1>5, SamePins
<1> QED
  BY <1>1, <1>6, <1>7 DEF IInv, TypeOK

LEMMA RejectInvariant ==
  ASSUME IInv, NEW r \in Requests, RejectOpen(r)
  PROVE  IInv'
<1> DEFINE s == [req[r] EXCEPT !.phase = "ending"]
<1>1. /\ req[r] # Idle /\ table' = table /\ heap' = heap
      /\ req' = [req EXCEPT ![r] = s]
  BY DEF RejectOpen
<1>2. req[r] \in Request
  BY <1>1, BusyLemma DEF IInv
<1>3. s \in Request /\ s # Idle /\ s.model = req[r].model /\ s.breaker = req[r].breaker
  BY <1>2 DEF Request, Phases, Idle
<1> HIDE DEF s
<1>4. PinnedStays' /\ PinsExact' /\ Bounded' /\ req' \in [Requests -> Request \union {Idle}]
  BY <1>1, <1>3, SamePins
<1> QED
  BY <1>1, <1>4 DEF IInv, TypeOK

LEMMA RecordInvariant ==
  ASSUME IInv, NEW r \in Requests, NEW verdict \in {"success", "failure", "none"},
         Record(r, verdict)
  PROVE  IInv'
<1> DEFINE b == req[r].breaker
           after == CASE verdict = "success" -> RecordSuccess(heap[b])
                      [] verdict = "failure" -> RecordFailure(heap[b])
                      [] verdict = "none"    -> IF req[r].probe THEN ReleaseProbe(heap[b])
                                                ELSE heap[b]
           s == [req[r] EXCEPT !.phase = "ending", !.probe = FALSE]
<1>1. /\ req[r] # Idle /\ table' = table
      /\ heap' = [heap EXCEPT ![b] = after]
      /\ req' = [req EXCEPT ![r] = s]
  BY DEF Record
<1>2. req[r] \in Request /\ b \in Breakers
  BY <1>1, BusyLemma DEF IInv
<1>3. heap[b] \in Breaker
  BY <1>2 DEF IInv, TypeOK
<1>4. after \in Breaker
  BY <1>3, MethodsType
<1>5. s \in Request /\ s # Idle /\ s.model = req[r].model /\ s.breaker = req[r].breaker
  BY <1>2 DEF Request, Phases, Idle
<1> HIDE DEF s, after
<1>6. heap' \in [Breakers -> Breaker]
  BY <1>1, <1>2, <1>4, HeapType DEF IInv
<1>7. PinnedStays' /\ PinsExact' /\ Bounded' /\ req' \in [Requests -> Request \union {Idle}]
  BY <1>1, <1>5, SamePins
<1> QED
  BY <1>1, <1>6, <1>7 DEF IInv, TypeOK

\* The breaker of the request is the table's, so its pin is the one taken off.
LEMMA ReleaseInvariant ==
  ASSUME IInv, NEW r \in Requests, Release(r)
  PROVE  IInv'
<1>1. req[r] # Idle /\ heap' = heap /\ req' = [req EXCEPT ![r] = Idle]
  BY DEF Release
<1>2. PICK m \in Models : m = req[r].model
  BY <1>1, BusyLemma DEF IInv
<1> DEFINE e == [table[m] EXCEPT !.active = @ - 1, !.age = 0]
<1>3. req[r].breaker \in Breakers /\ r \in Using(m)
  BY <1>1, <1>2, BusyLemma DEF IInv, Using
<1>4. table[m].breaker = req[r].breaker
  BY <1>3 DEF IInv, PinnedStays
<1>5. table' = [table EXCEPT ![m] = e]
  BY <1>2, <1>4 DEF Release
<1>6. m \in Held /\ table[m] \in Entry
  BY <1>3, <1>4, HeldLemma DEF IInv
<1>7. table[m].active = Cardinality(Using(m)) /\ Cardinality(Using(m)) > 0
  <2>1. table[m].active = Cardinality(Using(m))
    BY <1>6 DEF IInv, PinsExact
  <2>2. Cardinality(Using(m)) # 0
    BY <1>3, UsingFinite, FS_EmptySet
  <2> QED  BY <2>1, <2>2, UsingFinite
<1>8. e \in Entry /\ e.breaker = table[m].breaker /\ e.active = table[m].active - 1
  <2>1. table[m].active - 1 \in Nat
    BY <1>7, UsingFinite
  <2>2. 0 \in 0..IdleTTL
    BY TableAssumption
  <2> QED  BY <1>6, <2>1, <2>2 DEF Entry
<1> HIDE DEF e
<1>9. \A k \in Models : table'[k] = IF k = m THEN e ELSE table[k]
  BY <1>5 DEF IInv, TypeOK
<1>10. \A q \in Requests : req'[q] = IF q = r THEN Idle ELSE req[q]
  BY <1>1 DEF IInv, TypeOK
<1>11. TypeOK'
  <2>1. table' \in [Models -> Entry \union {NoEntry}]
    BY <1>5, <1>8, Zenon DEF IInv, TypeOK
  <2>2. req' \in [Requests -> Request \union {Idle}]
    BY <1>1, RequestType DEF IInv
  <2> QED  BY <1>1, <2>1, <2>2 DEF IInv, TypeOK
<1>12. Using(m)' = Using(m) \ {r}
  BY <1>10 DEF Using
<1>13. \A k \in Models \ {m} : Using(k)' = Using(k)
  BY <1>2, <1>10 DEF Using
<1>14. Held' = Held
  <2>1. e # NoEntry
    BY <1>8, TableAssumption DEF Entry, NoEntry
  <2> QED  BY <1>6, <1>9, <2>1 DEF Held
<1>15. PinnedStays'
  <2> SUFFICES ASSUME NEW k \in Models, NEW q \in Using(k)'
               PROVE  table'[k].breaker = req'[q].breaker
    BY DEF PinnedStays
  <2>1. q \in Requests /\ q # r /\ q \in Using(k)
    BY <1>10 DEF Using
  <2>2. table[k].breaker = req[q].breaker
    BY <2>1 DEF IInv, PinnedStays
  <2> QED  BY <1>8, <1>9, <1>10, <2>1, <2>2
<1>16. PinsExact'
  <2> SUFFICES ASSUME NEW k \in Held'
               PROVE  table'[k].active = Cardinality(Using(k)')
    BY DEF PinsExact
  <2>1. k \in Held /\ k \in Models
    BY <1>14 DEF Held
  <2>2. CASE k = m
    <3>1. Cardinality(Using(k)') = Cardinality(Using(k)) - 1
      BY <1>3, <1>12, <2>1, <2>2, UsingFinite, FS_RemoveElement
    <3> QED  BY <1>7, <1>8, <1>9, <2>1, <2>2, <3>1
  <2>3. CASE k # m
    BY <1>9, <1>13, <2>1, <2>3 DEF IInv, PinsExact
  <2> QED  BY <2>2, <2>3
<1>17. Bounded'
  BY <1>14 DEF IInv, Bounded
<1> QED
  BY <1>11, <1>15, <1>16, <1>17 DEF IInv

-------------------------------------------------------------------------------
(* Time *)

LEMMA TickInvariant ==
  ASSUME IInv, Tick
  PROVE  IInv'
<1> DEFINE older(m) == [table[m] EXCEPT !.age = @ + 1]
<1>1. /\ heap' = heap /\ req' = req
      /\ table' = [m \in Models |-> IF m \in Held /\ table[m].age < IdleTTL
                                    THEN older(m) ELSE table[m]]
  BY DEF Tick
<1>2. ASSUME NEW m \in Held, table[m].age < IdleTTL
      PROVE  /\ older(m) \in Entry /\ older(m) # NoEntry
             /\ older(m).breaker = table[m].breaker /\ older(m).active = table[m].active
  <2>1. m \in Models
    BY DEF Held
  <2>2. table[m] \in Entry
    BY <2>1, HeldLemma DEF IInv
  <2>3. table[m].age + 1 \in 0..IdleTTL
    BY <1>2, <2>2, TableAssumption DEF Entry
  <2>4. /\ older(m) \in Entry
        /\ older(m).breaker = table[m].breaker /\ older(m).active = table[m].active
    BY <2>2, <2>3 DEF Entry
  <2> QED  BY <2>4, TableAssumption DEF Entry, NoEntry
<1> HIDE DEF older
<1>3. \A m \in Models : table'[m] = IF m \in Held /\ table[m].age < IdleTTL
                                    THEN older(m) ELSE table[m]
  BY <1>1
<1>4. TypeOK'
  <2>1. \A m \in Models : table'[m] \in Entry \union {NoEntry}
    BY <1>2, <1>3 DEF IInv, TypeOK
  <2>2. table' \in [Models -> Entry \union {NoEntry}]
    BY <1>1, <2>1
  <2> QED  BY <1>1, <2>2 DEF IInv, TypeOK
<1>5. \A m \in Models : /\ table'[m].breaker = table[m].breaker
                        /\ table'[m].active = table[m].active
  BY <1>2, <1>3
<1>6. \A m \in Models : Using(m)' = Using(m)
  BY <1>1 DEF Using
<1>7. Held' = Held
  BY <1>2, <1>3 DEF Held
<1>8. PinnedStays'
  BY <1>1, <1>5, <1>6 DEF IInv, PinnedStays
<1>9. PinsExact'
  <2> SUFFICES ASSUME NEW m \in Held'
               PROVE  table'[m].active = Cardinality(Using(m)')
    BY DEF PinsExact
  <2>1. m \in Held /\ m \in Models
    BY <1>7 DEF Held
  <2> QED  BY <1>5, <1>6, <2>1 DEF IInv, PinsExact
<1>10. Bounded'
  BY <1>7 DEF IInv, Bounded
<1> QED
  BY <1>4, <1>8, <1>9, <1>10 DEF IInv

LEMMA CoolDownInvariant ==
  ASSUME IInv, NEW m \in Models, CoolDown(m)
  PROVE  IInv'
<1> DEFINE b == table[m].breaker
<1>1. /\ m \in Held /\ table' = table /\ req' = req
      /\ heap' = [heap EXCEPT ![b] = Cool(heap[b])]
  BY DEF CoolDown
<1>2. b \in Breakers
  BY <1>1, HeldLemma DEF IInv
<1>3. heap[b] \in Breaker
  BY <1>2 DEF IInv, TypeOK
<1>4. heap' \in [Breakers -> Breaker]
  BY <1>1, <1>2, <1>3, MethodsType, HeapType DEF IInv
<1>5. Held' = Held /\ \A k \in Models : Using(k)' = Using(k)
  BY <1>1 DEF Held, Using
<1>6. PinnedStays'
  BY <1>1, <1>5 DEF IInv, PinnedStays
<1>7. PinsExact'
  <2> SUFFICES ASSUME NEW k \in Held'
               PROVE  table'[k].active = Cardinality(Using(k)')
    BY DEF PinsExact
  <2>1. k \in Held /\ k \in Models
    BY <1>5 DEF Held
  <2> QED  BY <1>1, <1>5, <2>1 DEF IInv, PinsExact
<1>8. Bounded'
  BY <1>5 DEF IInv, Bounded
<1> QED
  BY <1>1, <1>4, <1>6, <1>7, <1>8 DEF IInv, TypeOK

-------------------------------------------------------------------------------
(* The invariant and what follows from it *)

LEMMA InitInvariant == Init => IInv
<1> SUFFICES ASSUME Init PROVE IInv
  OBVIOUS
<1>1. TypeOK
  BY NewBreakerType DEF Init, TypeOK
<1>2. Held = {} /\ \A m \in Models : Using(m) = {}
  BY DEF Init, Held, Using
<1>3. PinnedStays /\ PinsExact
  BY <1>2 DEF PinnedStays, PinsExact
<1>4. Bounded
  BY <1>2, FS_EmptySet, TableAssumption DEF Bounded
<1> QED
  BY <1>1, <1>3, <1>4 DEF IInv

LEMMA StepInvariant == IInv /\ [Next]_vars => IInv'
<1> SUFFICES ASSUME IInv, [Next]_vars PROVE IInv'
  OBVIOUS
<1>1. ASSUME NEW r \in Requests, Step(r) PROVE IInv'
  BY <1>1, AdmitInvariant, RejectInvariant, RecordInvariant, ReleaseInvariant DEF Step
<1>2. ASSUME NEW r \in Requests, NEW m \in Models, Lookup(r, m) PROVE IInv'
  BY <1>2, FindInvariant, AddInvariant, ReplaceInvariant, RefuseInvariant DEF Lookup
<1>3. ASSUME NEW m \in Models, CoolDown(m) PROVE IInv'
  BY <1>3, CoolDownInvariant
<1>4. CASE Tick
  BY <1>4, TickInvariant
<1>5. CASE UNCHANGED vars
  <2>1. Held' = Held /\ \A k \in Models : Using(k)' = Using(k)
    BY <1>5 DEF vars, Held, Using
  <2>2. PinsExact'
    <3> SUFFICES ASSUME NEW k \in Held'
                 PROVE  table'[k].active = Cardinality(Using(k)')
      BY DEF PinsExact
    <3>1. k \in Held /\ k \in Models
      BY <2>1 DEF Held
    <3> QED  BY <1>5, <2>1, <3>1 DEF vars, IInv, PinsExact
  <2>3. Bounded'
    BY <2>1 DEF IInv, Bounded
  <2> QED
    BY <1>5, <2>1, <2>2, <2>3 DEF vars, IInv, TypeOK, PinnedStays
<1> QED
  BY <1>1, <1>2, <1>3, <1>4, <1>5 DEF Next

LEMMA Invariant == Spec => []IInv
<1>1. Init => IInv
  BY InitInvariant
<1>2. IInv /\ [Next]_vars => IInv'
  BY StepInvariant
<1> QED
  BY <1>1, <1>2, PTL DEF Spec

\* Table, breakers and requests keep their types (model_breaker.go).
THEOREM TypeCorrect == Spec => []TypeOK
<1>1. IInv => TypeOK
  BY DEF IInv
<1> QED
  BY <1>1, Invariant, PTL

\* A breaker in use is never evicted, so every outcome is recorded where the next
\* request of the model will look (breakerForModel, releaseModelBreaker).
THEOREM NeverEvictedInUse == Spec => []PinnedStays
<1>1. IInv => PinnedStays
  BY DEF IInv
<1> QED
  BY <1>1, Invariant, PTL

\* No pin is leaked and none is given back twice (finishRequest on every path).
THEOREM PinsBalance == Spec => []PinsExact
<1>1. IInv => PinsExact
  BY DEF IInv
<1> QED
  BY <1>1, Invariant, PTL

\* The table never holds more than maxModelBreakers entries.
THEOREM TableBounded == Spec => []Bounded
<1>1. IInv => Bounded
  BY DEF IInv
<1> QED
  BY <1>1, Invariant, PTL

\* The entry of a model changes its breaker only by leaving the table, closed.
LEMMA StepForgetsClosed ==
  ASSUME IInv, [Next]_vars, NEW m \in Held, table'[m].breaker # table[m].breaker
  PROVE  heap[table[m].breaker].state = "closed"
<1>1. m \in Models
  BY DEF Held
<1>2. ASSUME NEW r \in Requests, NEW k \in Models, NEW gone, k \notin Held,
             \A g \in gone : Evictable(g), Insert(r, k, gone)
      PROVE  heap[table[m].breaker].state = "closed"
  BY <1>1, <1>2 DEF Insert, Evictable
<1>3. ASSUME NEW r \in Requests, NEW k \in Models, Lookup(r, k)
      PROVE  heap[table[m].breaker].state = "closed"
  <2>1. CASE Find(r, k)
    BY <1>1, <2>1 DEF Find, IInv, TypeOK, Entry, NoEntry
  <2>2. CASE Add(r, k)
    BY <1>2, <2>2 DEF Add, Expired
  <2>3. CASE Replace(r, k)
    BY <1>2, <2>3 DEF Replace, Expired, Oldest
  <2>4. CASE Refuse(r, k)
    BY <1>1, <2>4 DEF Refuse, Expired, Evictable
  <2> QED  BY <1>3, <2>1, <2>2, <2>3, <2>4 DEF Lookup
<1>4. ASSUME NEW r \in Requests, Step(r)
      PROVE  table'[m].breaker = table[m].breaker
  <2>1. CASE table' = table
    BY <2>1
  <2>2. CASE Release(r)
    BY <1>1, <2>2 DEF Release, IInv, TypeOK, Entry, NoEntry
  <2> QED  BY <1>4, <2>1, <2>2 DEF Step, Admit, RejectOpen, Record
<1>5. Tick => table'[m].breaker = table[m].breaker
  BY <1>1 DEF Tick, IInv, TypeOK, Entry, NoEntry
<1>6. (\E k \in Models : CoolDown(k)) \/ UNCHANGED vars => table' = table
  BY DEF CoolDown, vars
<1> QED
  BY <1>3, <1>4, <1>5, <1>6 DEF Next

\* An open or half-open breaker is never dropped (the scan's state test).
THEOREM OpenIsKept == Spec => ProtectsOpen
<1>1. IInv /\ [Next]_vars =>
        [\A m \in Held : table'[m].breaker # table[m].breaker =>
            heap[table[m].breaker].state = "closed"]_vars
  BY StepForgetsClosed
<1> QED
  BY <1>1, Invariant, PTL DEF Spec, ProtectsOpen
===============================================================================
