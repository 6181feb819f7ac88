------------------------ MODULE CounterPersistenceProofs ------------------------
(* Proofs about CounterPersistence, for any number of generations and of hits:   *)
(* as long as no shutdown overruns, a reset holds, what is written stays, and a  *)
(* reload hands over what was counted when the drain ended; a closed generation  *)
(* is never active again.                                                        *)
EXTENDS CounterPersistence, TLAPS

TypeOK == /\ gen \in [Generations -> Generation]
          /\ hits \in 0..MaxHits
          /\ row \in SUBSET Hits /\ durable \in SUBSET Hits /\ voided \in SUBSET Hits
          /\ overrun \in BOOLEAN

\* A generation of which nothing more is to be expected, as in Ended.
Over(r) == r.start = "dead" \/ r.close \in {"saved", "unsaved"}

\* One that has been started, or shut down.
Busy(r) == r.start \in {"load", "restore", "up"} \/ r.close # "none"

\* One that may copy its counter into the row.
Persisting(r) == r.life = "active" \/ (r.close \in {"closing", "final"} /\ r.active)

\* One that may still load the row.
Waiting(r) == (r.start \in {"unbuilt", "built"} /\ r.close = "none") \/ r.start = "load"

\* Generations take turns.
Alone == \A g \in Generations : Busy(gen[g]) => \A p \in 1..(g - 1) : Over(gen[p])

\* How the threads of one generation keep step while no drain is cut short.
Local(r) ==
  /\ r.start \in {"unbuilt", "built", "dead"} =>
       /\ r.counter = {} /\ r.flush = NoFlush /\ r.reset = NoReset
       /\ ~r.active
       /\ r.life = IF r.close \in {"none", "drain"} THEN "idle" ELSE "closed"
  /\ r.start \in {"load", "restore"} =>
       /\ r.life = "starting" /\ r.close \in {"none", "drain"}
       /\ r.flush = NoFlush /\ r.reset = NoReset
  /\ r.start # "restore" => r.loaded = {}
  /\ ~r.late
  /\ r.close \notin {"none", "drain"} => r.life = "closed" /\ r.reset = NoReset
  /\ r.active => r.close \notin {"none", "drain"}
  /\ r.close = "closing" => r.drained \subseteq r.counter
  /\ r.close = "final" => r.flush.held /\ r.drained \subseteq r.flush.snap
  /\ r.flush.held => Persisting(r)
  /\ ~r.flush.held => r.flush.snap = {}
  /\ r.reset.step = "none" => r.reset.covers = {}

\* What it has in memory, against the history: d is durable, v voided, n the hits.
Data(r, d, v, n) ==
  /\ r.counter \union r.loaded \union r.flush.snap \union r.reset.covers \subseteq 1..n
  /\ (r.loaded \union r.flush.snap) \intersect v = {}
  /\ ~Over(r) => r.counter \intersect v = {}
  /\ r.counter \intersect r.reset.covers = {}
  /\ r.flush.snap \ r.reset.covers \subseteq r.counter
  /\ r.start = "restore" => d \subseteq r.loaded
  /\ Persisting(r) => d \subseteq r.counter
  /\ r.flush.held => d \subseteq r.flush.snap

Store == /\ row \intersect voided = {}
         /\ durable \subseteq row
         /\ row \union voided \subseteq 1..hits

\* What a predecessor that saved had counted when its drain ended is in the row, then
\* in what was loaded.
Handed == \A g \in Generations :
            g > 1 /\ gen[g - 1].close = "saved" =>
              /\ Waiting(gen[g]) => gen[g - 1].drained \subseteq row
              /\ gen[g].start = "restore" => gen[g - 1].drained \subseteq gen[g].loaded

Orderly == /\ Alone /\ Store /\ Handed
           /\ \A g \in Generations : Local(gen[g]) /\ Data(gen[g], durable, voided, hits)

\* The inductive invariant.
IInv == TypeOK /\ (~overrun => Orderly)

-------------------------------------------------------------------------------
(* One generation moves, the others stand still *)

LEMMA UnbuiltLemma == Unbuilt \in Generation /\ [Unbuilt EXCEPT !.start = "dead"] \in Generation
  BY DEF Unbuilt, Generation, PersistStates, NoFlush, NoReset

\* The updates that an action makes of several fields.
LEMMA StartType ==
  ASSUME NEW r \in Generation, NEW s \in {"load", "restore", "up"}, NEW l \in PersistStates
  PROVE  [r EXCEPT !.start = s, !.life = l] \in Generation
  BY DEF Generation

LEMMA RestoreType ==
  ASSUME NEW r \in Generation, NEW c \in SUBSET Hits
  PROVE  /\ [r EXCEPT !.start = "up", !.life = "active", !.counter = c, !.loaded = {}]
              \in Generation
         /\ [r EXCEPT !.start = "up", !.loaded = {}] \in Generation
  BY DEF Generation, PersistStates

LEMMA FlushType ==
  ASSUME NEW r \in Generation, NEW c \in {"none", "drain", "closing", "final", "saved", "unsaved"}
  PROVE  [r EXCEPT !.flush = NoFlush, !.close = c] \in Generation
  BY DEF Generation, NoFlush

LEMMA DrainType ==
  ASSUME NEW r \in Generation, NEW late \in BOOLEAN, NEW a \in BOOLEAN
  PROVE  [r EXCEPT !.close = "closing", !.late = late, !.life = "closed", !.active = a,
                   !.drained = r.counter] \in Generation
  BY DEF Generation, PersistStates

\* Only a busy generation that has not ended can disturb what the others have: hits
\* do not.
LEMMA OthersKeep ==
  ASSUME TypeOK, Orderly, NEW g \in Generations, NEW q \in Generations, q # g,
         NEW d, NEW v, NEW n \in Nat, n >= hits,
         \/ d = durable /\ v = voided
         \/ Busy(gen[g]) /\ ~Over(gen[g])
  PROVE  Data(gen[q], d, v, n)
<1>1. Data(gen[q], durable, voided, hits) /\ Local(gen[q]) /\ gen[q] \in Generation
  BY DEF Orderly, TypeOK
<1>2. CASE d = durable /\ v = voided
  <2>1. 1..hits \subseteq 1..n
    BY DEF TypeOK
  <2> QED  BY <1>1, <1>2, <2>1 DEF Data
<1>3. CASE Busy(gen[g]) /\ ~Over(gen[g])
  <2>1. Over(gen[q]) \/ ~Busy(gen[q])
    <3>1. CASE q < g
      <4>1. q \in 1..(g - 1)
        BY <3>1, PersistenceAssumption DEF Generations
      <4> QED  BY <1>3, <4>1 DEF Orderly, Alone
    <3>2. CASE q > g
      <4>1. g \in 1..(q - 1)
        BY <3>2, PersistenceAssumption DEF Generations
      <4> QED  BY <1>3, <4>1 DEF Orderly, Alone
    <3> QED  BY <3>1, <3>2, PersistenceAssumption DEF Generations
  <2>2. /\ gen[q].loaded = {} /\ ~gen[q].flush.held /\ gen[q].flush.snap = {}
        /\ gen[q].reset.covers = {} /\ gen[q].start # "restore" /\ ~Persisting(gen[q])
        /\ Over(gen[q]) \/ gen[q].counter = {}
    BY <1>1, <2>1 DEF Local, Over, Busy, Persisting, NoFlush, NoReset, Generation, PersistStates
  <2>3. gen[q].counter \subseteq 1..n
    <3>1. 1..hits \subseteq 1..n
      BY DEF TypeOK
    <3> QED  BY <1>1, <3>1 DEF Data
  <2> QED
    BY <2>2, <2>3 DEF Data
<1> QED
  BY <1>2, <1>3

\* Generation g becomes r.
LEMMA OrderlyStep ==
  ASSUME TypeOK, Orderly, NEW g \in Generations, NEW r \in Generation,
         gen' = [gen EXCEPT ![g] = r],
         Local(r), Data(r, durable', voided', hits'), Store', hits' \in Nat, hits' >= hits,
         Busy(r) => Busy(gen[g]) \/ \A p \in 1..(g - 1) : Over(gen[p]),
         Over(gen[g]) => Over(r),
         \/ UNCHANGED <<row, durable, voided>>
         \/ gen[g].start = "up" /\ ~Over(gen[g]),
         r.close = "saved" =>
           \/ gen[g].close = "saved" /\ r.drained = gen[g].drained
           \/ ~Over(gen[g]) /\ r.drained \subseteq row',
         Waiting(r) => Waiting(gen[g]),
         r.start = "restore" =>
           \/ gen[g].start = "restore" /\ r.loaded = gen[g].loaded
           \/ gen[g].start = "load" /\ r.loaded = row
  PROVE  Orderly'
<1>1. \A q \in Generations : gen'[q] = IF q = g THEN r ELSE gen[q]
  BY DEF TypeOK
<1>2. Alone'
  <2> SUFFICES ASSUME NEW q \in Generations, Busy(gen'[q]), NEW p \in 1..(q - 1)
               PROVE  Over(gen'[p])
    BY DEF Alone
  <2>1. p \in Generations
    BY PersistenceAssumption DEF Generations
  <2>2. Over(gen[p])
    BY <1>1 DEF Orderly, Alone
  <2> QED  BY <1>1, <2>1, <2>2
<1>3. ASSUME NEW q \in Generations
      PROVE  Local(gen'[q]) /\ Data(gen'[q], durable', voided', hits')
  <2>1. CASE q = g
    BY <1>1, <2>1
  <2>2. CASE q # g
    <3>1. Local(gen[q])
      BY DEF Orderly
    <3>2. Data(gen[q], durable', voided', hits')
      BY <2>2, OthersKeep DEF Busy
    <3> QED  BY <1>1, <2>2, <3>1, <3>2
  <2> QED  BY <2>1, <2>2
<1>4. Handed'
  <2> SUFFICES ASSUME NEW q \in Generations, q > 1, gen'[q - 1].close = "saved"
               PROVE  /\ Waiting(gen'[q]) => gen'[q - 1].drained \subseteq row'
                      /\ gen'[q].start = "restore" => gen'[q - 1].drained \subseteq gen'[q].loaded
    BY DEF Handed
  <2>1. q - 1 \in Generations /\ q - 1 \in 1..(q - 1) /\ q - 1 # q
    BY PersistenceAssumption DEF Generations
  <2>2. gen[q - 1].close = "saved" =>
          /\ Waiting(gen[q]) => gen[q - 1].drained \subseteq row
          /\ gen[q].start = "restore" => gen[q - 1].drained \subseteq gen[q].loaded
    BY DEF Orderly, Handed
  <2>3. CASE g = q - 1
    <3>1. gen'[q - 1] = r /\ gen'[q] = gen[q]
      BY <1>1, <2>1, <2>3
    <3>2. CASE gen[g].close = "saved" /\ r.drained = gen[g].drained
      <4>1. row' = row
        BY <3>2 DEF Over
      <4> QED  BY <2>2, <2>3, <3>1, <3>2, <4>1
    <3>3. CASE ~Over(gen[g]) /\ r.drained \subseteq row'
      <4>1. gen[q].start # "restore"
        BY <2>1, <2>3, <3>3 DEF Orderly, Alone, Busy
      <4> QED  BY <3>1, <3>3, <4>1
    <3> QED  BY <3>1, <3>2, <3>3
  <2>4. CASE g = q
    <3>1. gen'[q - 1] = gen[q - 1] /\ gen'[q] = r /\ gen[q - 1].close = "saved"
      BY <1>1, <2>1, <2>4
    <3>2. Waiting(r) \/ r.start = "restore" => row' = row
      BY <2>4 DEF Waiting, Over
    <3>3. gen[g].start = "load" => Waiting(gen[g])
      BY DEF Waiting
    <3> QED  BY <2>2, <2>4, <3>1, <3>2, <3>3
  <2>5. CASE g # q /\ g # q - 1
    <3>1. gen'[q - 1] = gen[q - 1] /\ gen'[q] = gen[q] /\ gen[q - 1].close = "saved"
      BY <1>1, <2>1, <2>5
    <3>2. CASE row' = row
      BY <2>2, <3>1, <3>2
    <3>3. CASE gen[g].start = "up" /\ ~Over(gen[g])
      <4>1. Over(gen[q])
        <5>1. g < q - 1 => FALSE
          <6>1. Busy(gen[q - 1])
            BY <3>1 DEF Busy
          <6>2. g < q - 1 => g \in 1..((q - 1) - 1)
            BY PersistenceAssumption DEF Generations
          <6> QED  BY <2>1, <3>3, <6>1, <6>2 DEF Orderly, Alone
        <5>2. q < g
          BY <2>5, <5>1, PersistenceAssumption DEF Generations
        <5>3. q \in 1..(g - 1)
          BY <5>2, PersistenceAssumption DEF Generations
        <5> QED  BY <3>3, <5>3 DEF Orderly, Alone, Busy
      <4>2. Local(gen[q])
        BY DEF Orderly
      <4>3. ~Waiting(gen[q]) /\ gen[q].start # "restore"
        BY <4>1, <4>2 DEF Waiting, Over, Local
      <4> QED  BY <3>1, <4>3
    <3> QED  BY <3>2, <3>3
  <2> QED  BY <2>3, <2>4, <2>5
<1> QED
  BY <1>2, <1>3, <1>4 DEF Orderly

-------------------------------------------------------------------------------
(* The steps *)

LEMMA Keep ==
  ASSUME IInv, NEW g \in Generations, NEW r \in Generation,
         gen' = [gen EXCEPT ![g] = r], overrun' \in BOOLEAN,
         row' \in SUBSET Hits, hits' \in 0..MaxHits,
         durable' \in SUBSET Hits, voided' \in SUBSET Hits,
         ~overrun' => Orderly'
  PROVE  IInv'
<1>1. gen' \in [Generations -> Generation]
  BY Zenon DEF IInv, TypeOK
<1> QED
  BY <1>1 DEF IInv, TypeOK

\* What is known of a generation before it moves.
LEMMA Known ==
  ASSUME IInv, NEW g \in Generations
  PROVE  /\ TypeOK /\ gen[g] \in Generation /\ hits \in Nat /\ hits <= MaxHits
         /\ ~overrun => /\ Orderly /\ Store
                        /\ Local(gen[g]) /\ Data(gen[g], durable, voided, hits)
  BY PersistenceAssumption DEF IInv, TypeOK, Orderly

\* A step of g that leaves the store and the history alone.
LEMMA StoreKept ==
  ASSUME TypeOK, Orderly, NEW g \in Generations, NEW r \in Generation,
         gen' = [gen EXCEPT ![g] = r],
         row' = row, hits' = hits, durable' = durable, voided' = voided,
         Local(r), Data(r, durable, voided, hits),
         Busy(r) => Busy(gen[g]) \/ \A p \in 1..(g - 1) : Over(gen[p]),
         Over(gen[g]) => Over(r),
         r.close = "saved" => gen[g].close = "saved" /\ r.drained = gen[g].drained,
         Waiting(r) => Waiting(gen[g]),
         r.start = "restore" =>
           \/ gen[g].start = "restore" /\ r.loaded = gen[g].loaded
           \/ gen[g].start = "load" /\ r.loaded = row
  PROVE  Orderly'
<1>1. Store' /\ Data(r, durable', voided', hits')
  BY DEF Orderly, Store
<1>2. hits' \in Nat /\ hits' >= hits
  BY PersistenceAssumption DEF TypeOK
<1>3. UNCHANGED <<row, durable, voided>>
  OBVIOUS
<1>4. r.close = "saved" =>
        \/ gen[g].close = "saved" /\ r.drained = gen[g].drained
        \/ ~Over(gen[g]) /\ r.drained \subseteq row'
  OBVIOUS
<1> QED
  BY <1>1, <1>2, <1>3, <1>4, OrderlyStep, Zenon

LEMMA BuildInvariant ==
  ASSUME IInv, NEW g \in Generations, Build(g)
  PROVE  IInv'
<1> DEFINE r == [gen[g] EXCEPT !.start = "built"]
<1>1. /\ gen[g] \in Generation /\ gen' = [gen EXCEPT ![g] = r]
      /\ row' = row /\ hits' = hits /\ durable' = durable /\ voided' = voided
      /\ overrun' = overrun
  BY Known DEF Build
<1>2. r \in Generation
  BY <1>1, Known DEF Generation, PersistStates, NoFlush, NoReset
<1>3. ASSUME ~overrun PROVE Orderly'
  <2>1. /\ TypeOK /\ Orderly /\ Store /\ hits \in Nat
        /\ Local(gen[g]) /\ Data(gen[g], durable, voided, hits)
    BY <1>3, Known
  <2>2. Local(r) /\ Data(r, durable, voided, hits)
    BY <1>1, <2>1 DEF Build, Local, Data, Over, Persisting, NoFlush, NoReset, Generation,
       PersistStates, Store
  <2>3. Busy(r) => Busy(gen[g]) \/ \A p \in 1..(g - 1) : Over(gen[p])
    BY <1>1, <1>3 DEF Build, Busy, Turn, Ended, Over, Generation
  <2>4. /\ Over(gen[g]) => Over(r)
        /\ r.close = "saved" => gen[g].close = "saved" /\ r.drained = gen[g].drained
        /\ Waiting(r) => Waiting(gen[g])
        /\ r.start = "restore" =>
             \/ gen[g].start = "restore" /\ r.loaded = gen[g].loaded
             \/ gen[g].start = "load" /\ r.loaded = row
    BY <1>1, <2>1 DEF Build, Over, Waiting, Local, Generation
  <2> HIDE DEF r
  <2> QED
    BY <1>1, <1>2, <2>1, <2>2, <2>3, <2>4, StoreKept, Zenon
<1> HIDE DEF r
<1> QED
  BY <1>1, <1>2, <1>3, Known, Keep DEF TypeOK

LEMMA BeginStartInvariant ==
  ASSUME IInv, NEW g \in Generations, BeginStart(g)
  PROVE  IInv'
<1> DEFINE r == [gen[g] EXCEPT !.start = IF gen[g].life = "idle" THEN "load" ELSE "up",
                              !.life = IF gen[g].life = "idle" THEN "starting" ELSE gen[g].life]
<1>1. /\ gen[g] \in Generation /\ gen' = [gen EXCEPT ![g] = r]
      /\ row' = row /\ hits' = hits /\ durable' = durable /\ voided' = voided
      /\ overrun' = overrun
  BY Known DEF BeginStart
<1>2. r \in Generation
  <2>1. gen[g].life \in PersistStates /\ {"idle", "starting"} \subseteq PersistStates
    BY <1>1 DEF Generation, PersistStates
  <2> QED  BY <1>1, <2>1, StartType
<1>3. ASSUME ~overrun PROVE Orderly'
  <2>1. /\ TypeOK /\ Orderly /\ Store /\ hits \in Nat
        /\ Local(gen[g]) /\ Data(gen[g], durable, voided, hits)
    BY <1>3, Known
  <2>2. Local(r) /\ Data(r, durable, voided, hits)
    BY <1>1, <2>1 DEF BeginStart, Local, Data, Over, Persisting, NoFlush, NoReset, Generation,
       PersistStates, Store
  <2>3. Busy(r) => Busy(gen[g]) \/ \A p \in 1..(g - 1) : Over(gen[p])
    BY <1>1, <1>3 DEF BeginStart, Busy, Turn, Ended, Over, Generation
  <2>4. /\ Over(gen[g]) => Over(r)
        /\ r.close = "saved" => gen[g].close = "saved" /\ r.drained = gen[g].drained
        /\ Waiting(r) => Waiting(gen[g])
        /\ r.start = "restore" =>
             \/ gen[g].start = "restore" /\ r.loaded = gen[g].loaded
             \/ gen[g].start = "load" /\ r.loaded = row
    BY <1>1, <2>1 DEF BeginStart, Over, Waiting, Local, Generation
  <2> HIDE DEF r
  <2> QED
    BY <1>1, <1>2, <2>1, <2>2, <2>3, <2>4, StoreKept, Zenon
<1> HIDE DEF r
<1> QED
  BY <1>1, <1>2, <1>3, Known, Keep DEF TypeOK

LEMMA LoadInvariant ==
  ASSUME IInv, NEW g \in Generations, Load(g)
  PROVE  IInv'
<1> DEFINE r == [gen[g] EXCEPT !.start = "restore", !.loaded = row]
<1>1. /\ gen[g] \in Generation /\ gen' = [gen EXCEPT ![g] = r]
      /\ row' = row /\ hits' = hits /\ durable' = durable /\ voided' = voided
      /\ overrun' = overrun
  BY Known DEF Load
<1>2. r \in Generation
  BY <1>1, Known DEF Generation, PersistStates, NoFlush, NoReset, TypeOK
<1>3. ASSUME ~overrun PROVE Orderly'
  <2>1. /\ TypeOK /\ Orderly /\ Store /\ hits \in Nat
        /\ Local(gen[g]) /\ Data(gen[g], durable, voided, hits)
    BY <1>3, Known
  <2>2. Local(r) /\ Data(r, durable, voided, hits)
    BY <1>1, <2>1 DEF Load, Local, Data, Over, Persisting, NoFlush, NoReset, Generation,
       PersistStates, Store, TypeOK
  <2>3. Busy(r) => Busy(gen[g]) \/ \A p \in 1..(g - 1) : Over(gen[p])
    BY <1>1, <1>3 DEF Load, Busy, Turn, Ended, Over, Generation, TypeOK
  <2>4. /\ Over(gen[g]) => Over(r)
        /\ r.close = "saved" => gen[g].close = "saved" /\ r.drained = gen[g].drained
        /\ Waiting(r) => Waiting(gen[g])
        /\ r.start = "restore" =>
             \/ gen[g].start = "restore" /\ r.loaded = gen[g].loaded
             \/ gen[g].start = "load" /\ r.loaded = row
    BY <1>1, <2>1 DEF Load, Over, Waiting, Local, Generation, TypeOK
  <2> HIDE DEF r
  <2> QED
    BY <1>1, <1>2, <2>1, <2>2, <2>3, <2>4, StoreKept, Zenon
<1> HIDE DEF r
<1> QED
  BY <1>1, <1>2, <1>3, Known, Keep DEF TypeOK

LEMMA LoadFailsInvariant ==
  ASSUME IInv, NEW g \in Generations, LoadFails(g)
  PROVE  IInv'
<1> DEFINE r == [gen[g] EXCEPT !.start = "up",
                              !.life = IF gen[g].life = "starting" THEN "idle" ELSE gen[g].life]
<1>1. /\ gen[g] \in Generation /\ gen' = [gen EXCEPT ![g] = r]
      /\ row' = row /\ hits' = hits /\ durable' = durable /\ voided' = voided
      /\ overrun' = overrun
  BY Known DEF LoadFails
<1>2. r \in Generation
  <2>1. gen[g].life \in PersistStates /\ {"idle", "starting"} \subseteq PersistStates
    BY <1>1 DEF Generation, PersistStates
  <2> QED  BY <1>1, <2>1, StartType
<1>3. ASSUME ~overrun PROVE Orderly'
  <2>1. /\ TypeOK /\ Orderly /\ Store /\ hits \in Nat
        /\ Local(gen[g]) /\ Data(gen[g], durable, voided, hits)
    BY <1>3, Known
  <2>2. Local(r) /\ Data(r, durable, voided, hits)
    BY <1>1, <2>1 DEF LoadFails, Local, Data, Over, Persisting, NoFlush, NoReset, Generation,
       PersistStates, Store
  <2>3. Busy(r) => Busy(gen[g]) \/ \A p \in 1..(g - 1) : Over(gen[p])
    BY <1>1, <1>3 DEF LoadFails, Busy, Turn, Ended, Over, Generation
  <2>4. /\ Over(gen[g]) => Over(r)
        /\ r.close = "saved" => gen[g].close = "saved" /\ r.drained = gen[g].drained
        /\ Waiting(r) => Waiting(gen[g])
        /\ r.start = "restore" =>
             \/ gen[g].start = "restore" /\ r.loaded = gen[g].loaded
             \/ gen[g].start = "load" /\ r.loaded = row
    BY <1>1, <2>1 DEF LoadFails, Over, Waiting, Local, Generation
  <2> HIDE DEF r
  <2> QED
    BY <1>1, <1>2, <2>1, <2>2, <2>3, <2>4, StoreKept, Zenon
<1> HIDE DEF r
<1> QED
  BY <1>1, <1>2, <1>3, Known, Keep DEF TypeOK

\* The row that was loaded holds all that is durable.
LEMMA RestoreInvariant ==
  ASSUME IInv, NEW g \in Generations, Restore(g)
  PROVE  IInv'
<1> DEFINE r == IF gen[g].life = "starting"
                 THEN [gen[g] EXCEPT !.start = "up", !.life = "active",
                                     !.counter = Restored(g), !.loaded = {}]
                 ELSE [gen[g] EXCEPT !.start = "up", !.loaded = {}]
<1>1. /\ gen[g] \in Generation /\ gen' = [gen EXCEPT ![g] = r]
      /\ row' = row /\ hits' = hits /\ durable' = durable /\ voided' = voided
      /\ overrun' = overrun
  BY Known DEF Restore
<1>2. r \in Generation
  <2>1. Restored(g) \in SUBSET Hits
    BY <1>1 DEF Generation, Restored
  <2> QED  BY <1>1, <2>1, RestoreType
<1>3. ASSUME ~overrun PROVE Orderly'
  <2>1. /\ TypeOK /\ Orderly /\ Store /\ hits \in Nat
        /\ Local(gen[g]) /\ Data(gen[g], durable, voided, hits)
    BY <1>3, Known
  <2>2. Local(r) /\ Data(r, durable, voided, hits)
    <3>1. /\ gen[g].start = "restore" /\ gen[g].life = "starting"
          /\ gen[g].close \in {"none", "drain"} /\ ~gen[g].late /\ ~gen[g].active
          /\ gen[g].flush = NoFlush /\ gen[g].reset = NoReset
      BY <2>1 DEF Restore, Local
    <3>2. /\ r.start = "up" /\ r.life = "active" /\ r.counter = Restored(g) /\ r.loaded = {}
          /\ r.close = gen[g].close /\ ~r.late /\ ~r.active
          /\ r.flush = NoFlush /\ r.reset = NoReset
      BY <1>1, <3>1 DEF Generation
    <3>3. /\ Restored(g) \subseteq 1..hits /\ Restored(g) \intersect voided = {}
          /\ durable \subseteq Restored(g)
      BY <2>1, <3>1 DEF Data, Over, Restored
    <3> HIDE DEF r
    <3> QED  BY <3>1, <3>2, <3>3 DEF Local, Data, Over, Persisting, NoFlush, NoReset
  <2>3. Busy(r) => Busy(gen[g]) \/ \A p \in 1..(g - 1) : Over(gen[p])
    BY <1>1, <1>3 DEF Restore, Busy, Turn, Ended, Over, Generation, Restored
  <2>4. /\ Over(gen[g]) => Over(r)
        /\ r.close = "saved" => gen[g].close = "saved" /\ r.drained = gen[g].drained
        /\ Waiting(r) => Waiting(gen[g])
        /\ r.start = "restore" =>
             \/ gen[g].start = "restore" /\ r.loaded = gen[g].loaded
             \/ gen[g].start = "load" /\ r.loaded = row
    BY <1>1, <2>1 DEF Restore, Over, Waiting, Local, Generation, Restored
  <2> HIDE DEF r
  <2> QED
    BY <1>1, <1>2, <2>1, <2>2, <2>3, <2>4, StoreKept, Zenon
<1> HIDE DEF r
<1> QED
  BY <1>1, <1>2, <1>3, Known, Keep DEF TypeOK

LEMMA SnapshotInvariant ==
  ASSUME IInv, NEW g \in Generations, Snapshot(g)
  PROVE  IInv'
<1> DEFINE r == [gen[g] EXCEPT !.flush = [held |-> TRUE, snap |-> gen[g].counter]]
<1>1. /\ gen[g] \in Generation /\ gen' = [gen EXCEPT ![g] = r]
      /\ row' = row /\ hits' = hits /\ durable' = durable /\ voided' = voided
      /\ overrun' = overrun
  BY Known DEF Snapshot
<1>2. r \in Generation
  BY <1>1, Known DEF Generation, PersistStates, NoFlush, NoReset
<1>3. ASSUME ~overrun PROVE Orderly'
  <2>1. /\ TypeOK /\ Orderly /\ Store /\ hits \in Nat
        /\ Local(gen[g]) /\ Data(gen[g], durable, voided, hits)
    BY <1>3, Known
  <2>2. Local(r) /\ Data(r, durable, voided, hits)
    BY <1>1, <2>1 DEF Snapshot, Local, Data, Over, Persisting, NoFlush, NoReset, Generation,
       PersistStates, Store
  <2>3. Busy(r) => Busy(gen[g]) \/ \A p \in 1..(g - 1) : Over(gen[p])
    BY <1>1, <1>3 DEF Snapshot, Busy, Turn, Ended, Over, Generation
  <2>4. /\ Over(gen[g]) => Over(r)
        /\ r.close = "saved" => gen[g].close = "saved" /\ r.drained = gen[g].drained
        /\ Waiting(r) => Waiting(gen[g])
        /\ r.start = "restore" =>
             \/ gen[g].start = "restore" /\ r.loaded = gen[g].loaded
             \/ gen[g].start = "load" /\ r.loaded = row
    BY <1>1, <2>1 DEF Snapshot, Over, Waiting, Local, Generation
  <2> HIDE DEF r
  <2> QED
    BY <1>1, <1>2, <2>1, <2>2, <2>3, <2>4, StoreKept, Zenon
<1> HIDE DEF r
<1> QED
  BY <1>1, <1>2, <1>3, Known, Keep DEF TypeOK

LEMMA BeginShutdownInvariant ==
  ASSUME IInv, NEW g \in Generations, BeginShutdown(g)
  PROVE  IInv'
<1> DEFINE r == [gen[g] EXCEPT !.close = "drain"]
<1>1. /\ gen[g] \in Generation /\ gen' = [gen EXCEPT ![g] = r]
      /\ row' = row /\ hits' = hits /\ durable' = durable /\ voided' = voided
      /\ overrun' = overrun
  BY Known DEF BeginShutdown
<1>2. r \in Generation
  BY <1>1, Known DEF Generation, PersistStates, NoFlush, NoReset
<1>3. ASSUME ~overrun PROVE Orderly'
  <2>1. /\ TypeOK /\ Orderly /\ Store /\ hits \in Nat
        /\ Local(gen[g]) /\ Data(gen[g], durable, voided, hits)
    BY <1>3, Known
  <2>2. Local(r) /\ Data(r, durable, voided, hits)
    BY <1>1, <2>1 DEF BeginShutdown, Local, Data, Over, Persisting, NoFlush, NoReset, Generation,
       PersistStates, Store
  <2>3. Busy(r) => Busy(gen[g]) \/ \A p \in 1..(g - 1) : Over(gen[p])
    BY <1>1, <1>3 DEF BeginShutdown, Busy, Turn, Ended, Over, Generation
  <2>4. /\ Over(gen[g]) => Over(r)
        /\ r.close = "saved" => gen[g].close = "saved" /\ r.drained = gen[g].drained
        /\ Waiting(r) => Waiting(gen[g])
        /\ r.start = "restore" =>
             \/ gen[g].start = "restore" /\ r.loaded = gen[g].loaded
             \/ gen[g].start = "load" /\ r.loaded = row
    BY <1>1, <2>1 DEF BeginShutdown, Over, Waiting, Local, Generation
  <2> HIDE DEF r
  <2> QED
    BY <1>1, <1>2, <2>1, <2>2, <2>3, <2>4, StoreKept, Zenon
<1> HIDE DEF r
<1> QED
  BY <1>1, <1>2, <1>3, Known, Keep DEF TypeOK

LEMMA FinalSnapshotInvariant ==
  ASSUME IInv, NEW g \in Generations, FinalSnapshot(g)
  PROVE  IInv'
<1> DEFINE r == IF gen[g].active
                 THEN [gen[g] EXCEPT !.close = "final",
                                     !.flush = [held |-> TRUE, snap |-> gen[g].counter]]
                 ELSE [gen[g] EXCEPT !.close = "unsaved"]
<1>1. /\ gen[g] \in Generation /\ gen' = [gen EXCEPT ![g] = r]
      /\ row' = row /\ hits' = hits /\ durable' = durable /\ voided' = voided
      /\ overrun' = overrun
  BY Known DEF FinalSnapshot
<1>2. r \in Generation
  BY <1>1, Known DEF Generation, PersistStates, NoFlush, NoReset
<1>3. ASSUME ~overrun PROVE Orderly'
  <2>1. /\ TypeOK /\ Orderly /\ Store /\ hits \in Nat
        /\ Local(gen[g]) /\ Data(gen[g], durable, voided, hits)
    BY <1>3, Known
  <2>2. Local(r) /\ Data(r, durable, voided, hits)
    BY <1>1, <2>1 DEF FinalSnapshot, Local, Data, Over, Persisting, NoFlush, NoReset, Generation,
       PersistStates, Store
  <2>3. Busy(r) => Busy(gen[g]) \/ \A p \in 1..(g - 1) : Over(gen[p])
    BY <1>1, <1>3 DEF FinalSnapshot, Busy, Turn, Ended, Over, Generation
  <2>4. /\ Over(gen[g]) => Over(r)
        /\ r.close = "saved" => gen[g].close = "saved" /\ r.drained = gen[g].drained
        /\ Waiting(r) => Waiting(gen[g])
        /\ r.start = "restore" =>
             \/ gen[g].start = "restore" /\ r.loaded = gen[g].loaded
             \/ gen[g].start = "load" /\ r.loaded = row
    BY <1>1, <2>1 DEF FinalSnapshot, Over, Waiting, Local, Generation
  <2> HIDE DEF r
  <2> QED
    BY <1>1, <1>2, <2>1, <2>2, <2>3, <2>4, StoreKept, Zenon
<1> HIDE DEF r
<1> QED
  BY <1>1, <1>2, <1>3, Known, Keep DEF TypeOK

LEMMA SaveFailsInvariant ==
  ASSUME IInv, NEW g \in Generations, SaveFails(g)
  PROVE  IInv'
<1> DEFINE r == [gen[g] EXCEPT !.flush = NoFlush, !.close = Written(g, "unsaved")]
<1>1. /\ gen[g] \in Generation /\ gen' = [gen EXCEPT ![g] = r]
      /\ row' = row /\ hits' = hits /\ durable' = durable /\ voided' = voided
      /\ overrun' = overrun
  BY Known DEF SaveFails
<1>2. r \in Generation
  <2>1. Written(g, "unsaved") \in {"none", "drain", "closing", "final", "saved", "unsaved"}
    BY <1>1 DEF Generation, Written
  <2> QED  BY <1>1, <2>1, FlushType
<1>3. ASSUME ~overrun PROVE Orderly'
  <2>1. /\ TypeOK /\ Orderly /\ Store /\ hits \in Nat
        /\ Local(gen[g]) /\ Data(gen[g], durable, voided, hits)
    BY <1>3, Known
  <2>2. Local(r) /\ Data(r, durable, voided, hits)
    BY <1>1, <2>1 DEF SaveFails, Local, Data, Over, Persisting, NoFlush, NoReset, Generation,
       PersistStates, Store, Written
  <2>3. Busy(r) => Busy(gen[g]) \/ \A p \in 1..(g - 1) : Over(gen[p])
    BY <1>1, <1>3 DEF SaveFails, Busy, Turn, Ended, Over, Generation, Written
  <2>4. /\ Over(gen[g]) => Over(r)
        /\ r.close = "saved" => gen[g].close = "saved" /\ r.drained = gen[g].drained
        /\ Waiting(r) => Waiting(gen[g])
        /\ r.start = "restore" =>
             \/ gen[g].start = "restore" /\ r.loaded = gen[g].loaded
             \/ gen[g].start = "load" /\ r.loaded = row
    BY <1>1, <2>1 DEF SaveFails, Over, Waiting, Local, Generation, Written
  <2> HIDE DEF r
  <2> QED
    BY <1>1, <1>2, <2>1, <2>2, <2>3, <2>4, StoreKept, Zenon
<1> HIDE DEF r
<1> QED
  BY <1>1, <1>2, <1>3, Known, Keep DEF TypeOK

LEMMA DeleteFailsInvariant ==
  ASSUME IInv, NEW g \in Generations, DeleteFails(g)
  PROVE  IInv'
<1> DEFINE r == [gen[g] EXCEPT !.reset = NoReset]
<1>1. /\ gen[g] \in Generation /\ gen' = [gen EXCEPT ![g] = r]
      /\ row' = row /\ hits' = hits /\ durable' = durable /\ voided' = voided
      /\ overrun' = overrun
  BY Known DEF DeleteFails
<1>2. r \in Generation
  BY <1>1, Known DEF Generation, PersistStates, NoFlush, NoReset
<1>3. ASSUME ~overrun PROVE Orderly'
  <2>1. /\ TypeOK /\ Orderly /\ Store /\ hits \in Nat
        /\ Local(gen[g]) /\ Data(gen[g], durable, voided, hits)
    BY <1>3, Known
  <2>2. Local(r) /\ Data(r, durable, voided, hits)
    BY <1>1, <2>1 DEF DeleteFails, Local, Data, Over, Persisting, NoFlush, NoReset, Generation,
       PersistStates, Store
  <2>3. Busy(r) => Busy(gen[g]) \/ \A p \in 1..(g - 1) : Over(gen[p])
    BY <1>1, <1>3 DEF DeleteFails, Busy, Turn, Ended, Over, Generation
  <2>4. /\ Over(gen[g]) => Over(r)
        /\ r.close = "saved" => gen[g].close = "saved" /\ r.drained = gen[g].drained
        /\ Waiting(r) => Waiting(gen[g])
        /\ r.start = "restore" =>
             \/ gen[g].start = "restore" /\ r.loaded = gen[g].loaded
             \/ gen[g].start = "load" /\ r.loaded = row
    BY <1>1, <2>1 DEF DeleteFails, Over, Waiting, Local, Generation
  <2> HIDE DEF r
  <2> QED
    BY <1>1, <1>2, <2>1, <2>2, <2>3, <2>4, StoreKept, Zenon
<1> HIDE DEF r
<1> QED
  BY <1>1, <1>2, <1>3, Known, Keep DEF TypeOK

\* A hit is in no reset that has been reported, nor in the one that is under way.
LEMMA HitInvariant ==
  ASSUME IInv, NEW g \in Generations, Hit(g)
  PROVE  IInv'
<1> DEFINE r == [gen[g] EXCEPT !.counter = gen[g].counter \union {hits + 1}]
<1>1. /\ gen[g] \in Generation /\ gen' = [gen EXCEPT ![g] = r]
      /\ row' = row /\ durable' = durable /\ voided' = voided /\ overrun' = overrun
      /\ hits' = hits + 1 /\ hits < MaxHits /\ gen[g].start = "up"
  BY Known DEF Hit
<1>2. r \in Generation /\ hits' \in 0..MaxHits
  <2>1. hits + 1 \in Hits /\ hits' \in 0..MaxHits
    BY <1>1, Known, PersistenceAssumption DEF Hits
  <2> QED  BY <1>1, <2>1 DEF Generation
<1>3. ASSUME ~overrun PROVE Orderly'
  <2>1. /\ TypeOK /\ Orderly /\ Store /\ hits \in Nat
        /\ Local(gen[g]) /\ Data(gen[g], durable, voided, hits)
    BY <1>3, Known
  <2>3. /\ r.start = "up" /\ r.close = gen[g].close /\ r.life = gen[g].life
        /\ r.late = gen[g].late /\ r.active = gen[g].active
        /\ r.counter = gen[g].counter \union {hits + 1} /\ r.loaded = gen[g].loaded
        /\ r.flush = gen[g].flush /\ r.reset = gen[g].reset /\ r.drained = gen[g].drained
    BY <1>1 DEF Generation
  <2> HIDE DEF r
  <2>4. Local(r)
    BY <1>1, <2>1, <2>3 DEF Local, Persisting
  <2>5. 1..(hits + 1) = 1..hits \union {hits + 1} /\ hits + 1 \notin 1..hits
    BY <2>1
  <2>6. Store'
    BY <1>1, <2>1, <2>5 DEF Store
  <2>7. Data(r, durable', voided', hits')
    BY <1>1, <2>1, <2>3, <2>5 DEF Store, Data, Over, Persisting
  <2>8. /\ Busy(r) => Busy(gen[g])
        /\ Over(gen[g]) => Over(r)
        /\ r.close = "saved" => gen[g].close = "saved" /\ r.drained = gen[g].drained
        /\ ~Waiting(r) /\ r.start # "restore"
    BY <1>1, <2>3 DEF Busy, Over, Waiting
  <2>9. hits' \in Nat /\ hits' >= hits
    BY <1>1, <2>1
  <2> QED
    BY <1>1, <1>2, <2>1, <2>4, <2>6, <2>7, <2>8, <2>9, OrderlyStep, Zenon
<1> HIDE DEF r
<1> QED
  BY <1>1, <1>2, <1>3, Known, Keep DEF TypeOK

\* The snapshot holds what is durable, and what it adds is still counted.
LEMMA SaveInvariant ==
  ASSUME IInv, NEW g \in Generations, Save(g)
  PROVE  IInv'
<1> DEFINE r == [gen[g] EXCEPT !.flush = NoFlush, !.close = Written(g, "saved")]
           snap == gen[g].flush.snap
<1>1. /\ gen[g] \in Generation /\ gen' = [gen EXCEPT ![g] = r]
      /\ hits' = hits /\ voided' = voided /\ overrun' = overrun
      /\ gen[g].flush.held
      /\ row' = IF snap = {} THEN row ELSE snap
      /\ durable' = IF snap = {} THEN durable
                    ELSE durable \union (snap \ gen[g].reset.covers)
  BY Known DEF Save
<1>2. r \in Generation /\ row' \in SUBSET Hits /\ durable' \in SUBSET Hits
  <2>1. snap \in SUBSET Hits
    BY <1>1 DEF Generation
  <2>2. r \in Generation
    <3>1. Written(g, "saved") \in {"none", "drain", "closing", "final", "saved", "unsaved"}
      BY <1>1 DEF Generation, Written
    <3> QED  BY <1>1, <3>1, FlushType
  <2> QED  BY <1>1, <2>1, <2>2, Known DEF TypeOK
<1>3. ASSUME ~overrun PROVE Orderly'
  <2>1. /\ TypeOK /\ Orderly /\ Store /\ hits \in Nat
        /\ Local(gen[g]) /\ Data(gen[g], durable, voided, hits)
    BY <1>3, Known
  <2>2. Persisting(gen[g]) /\ gen[g].start = "up" /\ ~Over(gen[g])
    BY <1>1, <2>1 DEF Local, Persisting, Over, Generation, NoFlush
  <2>3. /\ r.start = "up" /\ r.life = gen[g].life
        /\ r.late = gen[g].late /\ r.active = gen[g].active
        /\ r.counter = gen[g].counter /\ r.loaded = gen[g].loaded
        /\ r.flush = NoFlush /\ r.reset = gen[g].reset /\ r.drained = gen[g].drained
        /\ r.close = IF gen[g].close = "final" THEN "saved" ELSE gen[g].close
    BY <1>1, <2>2 DEF Generation, Written
  <2> HIDE DEF r
  <2>4. Local(r)
    BY <2>1, <2>2, <2>3 DEF Local, Persisting, NoFlush
  <2>5. /\ durable \subseteq snap /\ durable \subseteq gen[g].counter
        /\ snap \ gen[g].reset.covers \subseteq gen[g].counter
        /\ snap \subseteq 1..hits /\ snap \intersect voided = {}
    BY <1>1, <2>1, <2>2 DEF Data
  <2>6. durable' \subseteq row' /\ durable' \subseteq gen[g].counter
    BY <1>1, <2>1, <2>5 DEF Store
  <2> HIDE DEF snap
  <2>7. Store'
    BY <1>1, <2>1, <2>5, <2>6 DEF Store
  <2>8. Data(r, durable', voided', hits')
    BY <1>1, <2>1, <2>2, <2>3, <2>6 DEF Data, Over, Persisting, NoFlush
  <2>9. /\ Busy(r) => Busy(gen[g])
        /\ ~Waiting(r) /\ r.start # "restore"
    BY <2>2, <2>3 DEF Busy, Waiting
  <2>10. r.close = "saved" => r.drained \subseteq row'
    <3>1. r.close = "saved" => gen[g].close = "final"
      BY <2>2, <2>3 DEF Over
    <3>2. gen[g].close = "final" => gen[g].drained \subseteq snap
      BY <2>1 DEF Local, snap
    <3> QED  BY <1>1, <2>3, <3>1, <3>2
  <2>11. hits' \in Nat /\ hits' >= hits
    BY <1>1, <2>1
  <2> QED
    BY <1>1, <1>2, <2>1, <2>2, <2>4, <2>7, <2>8, <2>9, <2>10, <2>11, OrderlyStep, Zenon
<1> HIDE DEF r, snap
<1> QED
  BY <1>1, <1>2, <1>3, Known, Keep DEF TypeOK

\* From now on the reset covers all there is; what a flush holds is covered too.
LEMMA ClearMemoryInvariant ==
  ASSUME IInv, NEW g \in Generations, ClearMemory(g)
  PROVE  IInv'
<1> DEFINE r == [gen[g] EXCEPT !.counter = {},
                               !.reset = [step |-> "cleared", covers |-> 1..hits]]
<1>1. /\ gen[g] \in Generation /\ gen' = [gen EXCEPT ![g] = r]
      /\ row' = row /\ hits' = hits /\ voided' = voided /\ overrun' = overrun
      /\ durable' = {} /\ Handling(g)
  BY Known DEF ClearMemory
<1>2. r \in Generation
  <2>1. 1..hits \in SUBSET Hits
    BY Known, PersistenceAssumption DEF Hits
  <2> QED  BY <1>1, <2>1 DEF Generation
<1>3. ASSUME ~overrun PROVE Orderly'
  <2>1. /\ TypeOK /\ Orderly /\ Store /\ hits \in Nat
        /\ Local(gen[g]) /\ Data(gen[g], durable, voided, hits)
    BY <1>3, Known
  <2>2. gen[g].start = "up" /\ gen[g].close \in {"none", "drain"}
    BY <1>1, <2>1 DEF Handling, Local
  <2>3. /\ r.start = "up" /\ r.close = gen[g].close /\ r.life = gen[g].life
        /\ r.late = gen[g].late /\ r.active = gen[g].active
        /\ r.counter = {} /\ r.loaded = gen[g].loaded /\ r.flush = gen[g].flush
        /\ r.reset.step = "cleared" /\ r.reset.covers = 1..hits
    BY <1>1, <2>2 DEF Generation
  <2> HIDE DEF r
  <2>4. Local(r)
    BY <2>1, <2>2, <2>3 DEF Local, Persisting
  <2>5. Store'
    BY <1>1, <2>1 DEF Store
  <2>6. Data(r, durable', voided', hits')
    BY <1>1, <2>1, <2>2, <2>3 DEF Data, Over, Persisting
  <2>7. /\ Busy(r) => Busy(gen[g])
        /\ gen[g].start = "up" /\ ~Over(gen[g])
        /\ r.close # "saved" /\ ~Waiting(r) /\ r.start # "restore"
    BY <2>2, <2>3 DEF Busy, Over, Waiting
  <2>8. hits' \in Nat /\ hits' >= hits
    BY <1>1, <2>1
  <2> QED
    BY <1>1, <1>2, <2>1, <2>4, <2>5, <2>6, <2>7, <2>8, OrderlyStep, Zenon
<1>4. durable' \in SUBSET Hits
  BY <1>1
<1> HIDE DEF r
<1> QED
  BY <1>1, <1>2, <1>3, <1>4, Known, Keep DEF TypeOK

\* No flush is under way, so nothing holds what the reset covers.
LEMMA DeleteRowInvariant ==
  ASSUME IInv, NEW g \in Generations, DeleteRow(g)
  PROVE  IInv'
<1> DEFINE r == [gen[g] EXCEPT !.reset = NoReset]
           covers == gen[g].reset.covers
<1>1. /\ gen[g] \in Generation /\ gen' = [gen EXCEPT ![g] = r]
      /\ row' = {} /\ hits' = hits /\ overrun' = overrun
      /\ durable' = {} /\ voided' = voided \union covers
      /\ gen[g].reset.step = "cleared" /\ ~gen[g].flush.held
  BY Known DEF DeleteRow
<1>2. r \in Generation /\ voided' \in SUBSET Hits
  <2>1. covers \in SUBSET Hits
    BY <1>1 DEF Generation
  <2>2. r \in Generation
    BY <1>1 DEF Generation, NoReset
  <2> QED  BY <1>1, <2>1, <2>2, Known DEF TypeOK
<1>3. ASSUME ~overrun PROVE Orderly'
  <2>1. /\ TypeOK /\ Orderly /\ Store /\ hits \in Nat
        /\ Local(gen[g]) /\ Data(gen[g], durable, voided, hits)
    BY <1>3, Known
  <2>2. gen[g].start = "up" /\ gen[g].close \in {"none", "drain"}
    BY <1>1, <2>1 DEF Local, Generation, NoReset
  <2>3. /\ r.start = "up" /\ r.close = gen[g].close /\ r.life = gen[g].life
        /\ r.late = gen[g].late /\ r.active = gen[g].active
        /\ r.counter = gen[g].counter /\ r.loaded = gen[g].loaded
        /\ r.flush = gen[g].flush /\ r.reset = NoReset
    BY <1>1, <2>2 DEF Generation
  <2> HIDE DEF r
  <2>4. Local(r)
    BY <2>1, <2>2, <2>3 DEF Local, Persisting, NoReset
  <2>5. /\ covers \subseteq 1..hits /\ gen[g].counter \intersect covers = {}
        /\ gen[g].loaded = {} /\ gen[g].flush.snap = {}
    BY <1>1, <2>1, <2>2 DEF Local, Data
  <2> HIDE DEF covers
  <2>6. Store'
    BY <1>1, <2>1, <2>5 DEF Store
  <2>7. Data(r, durable', voided', hits')
    BY <1>1, <2>1, <2>2, <2>3, <2>5 DEF Data, Over, Persisting, NoReset
  <2>8. /\ Busy(r) => Busy(gen[g])
        /\ gen[g].start = "up" /\ ~Over(gen[g])
        /\ r.close # "saved" /\ ~Waiting(r) /\ r.start # "restore"
    BY <2>2, <2>3 DEF Busy, Over, Waiting
  <2>9. hits' \in Nat /\ hits' >= hits
    BY <1>1, <2>1
  <2> QED
    BY <1>1, <1>2, <2>1, <2>4, <2>6, <2>7, <2>8, <2>9, OrderlyStep, Zenon
<1>4. row' \in SUBSET Hits /\ durable' \in SUBSET Hits
  BY <1>1
<1> HIDE DEF r, covers
<1> QED
  BY <1>1, <1>2, <1>3, <1>4, Known, Keep DEF TypeOK

\* A drain that cuts nothing short leaves no start and no reset under way.
LEMMA DrainedInvariant ==
  ASSUME IInv, NEW g \in Generations, Drained(g)
  PROVE  IInv'
<1>1. PICK late \in BOOLEAN :
        /\ gen[g].start \in {"load", "restore"} \/ gen[g].reset.step # "none" => late
        /\ gen' = [gen EXCEPT ![g].close = "closing", ![g].late = late,
                              ![g].life = "closed", ![g].active = (gen[g].life = "active"),
                              ![g].drained = gen[g].counter]
        /\ overrun' = (overrun \/ late)
  BY DEF Drained
<1> DEFINE r == [gen[g] EXCEPT !.close = "closing", !.late = late, !.life = "closed",
                               !.active = (gen[g].life = "active"),
                               !.drained = gen[g].counter]
<1>2. /\ gen[g] \in Generation /\ gen' = [gen EXCEPT ![g] = r]
      /\ row' = row /\ hits' = hits /\ durable' = durable /\ voided' = voided
      /\ gen[g].close = "drain"
  <2>1. gen[g] \in Generation
    BY Known
  <2>2. gen' = [gen EXCEPT ![g] = r]
    BY <1>1, <2>1 DEF Generation
  <2> QED  BY <2>1, <2>2 DEF Drained
<1>3. r \in Generation
  BY <1>2, DrainType
<1>4. ASSUME ~overrun, ~late PROVE Orderly'
  <2>1. /\ TypeOK /\ Orderly /\ Store /\ hits \in Nat
        /\ Local(gen[g]) /\ Data(gen[g], durable, voided, hits)
    BY <1>4, Known
  <2>2. /\ r.start = gen[g].start /\ r.close = "closing" /\ r.life = "closed"
        /\ ~r.late /\ r.active = (gen[g].life = "active")
        /\ r.counter = gen[g].counter /\ r.loaded = gen[g].loaded
        /\ r.flush = gen[g].flush /\ r.reset = gen[g].reset /\ r.drained = gen[g].counter
    BY <1>2, <1>4 DEF Generation
  <2>3. gen[g].start \notin {"load", "restore"} /\ gen[g].reset = NoReset
    BY <1>1, <1>2, <1>4, <2>1 DEF Local, Generation, NoReset
  <2> HIDE DEF r
  <2>4. Local(r)
    BY <1>2, <2>1, <2>2, <2>3 DEF Local, Persisting, NoFlush
  <2>5. Data(r, durable, voided, hits)
    BY <1>2, <2>1, <2>2, <2>3 DEF Data, Over, Persisting, Local
  <2>6. Busy(gen[g])
    BY <1>2 DEF Busy
  <2>7. /\ Over(gen[g]) => Over(r)
        /\ r.close # "saved" /\ ~Waiting(r) /\ r.start # "restore"
    BY <1>2, <2>2, <2>3 DEF Over, Waiting
  <2> QED
    BY <1>2, <1>3, <2>1, <2>4, <2>5, <2>6, <2>7, StoreKept, Zenon
<1>5. overrun' \in BOOLEAN /\ (~overrun' => Orderly')
  BY <1>1, <1>4
<1> HIDE DEF r
<1> QED
  BY <1>2, <1>3, <1>5, Known, Keep DEF TypeOK

LEMMA OverrunInvariant ==
  ASSUME IInv, NEW g \in Generations, Overrun(g)
  PROVE  IInv'
  BY DEF IInv, TypeOK, Overrun

\* Nothing is left in memory.
LEMMA CrashInvariant ==
  ASSUME IInv, Crash
  PROVE  IInv'
<1> DEFINE dead == [Unbuilt EXCEPT !.start = "dead"]
<1>1. /\ \A g \in Generations : gen'[g] = IF gen[g].start = "unbuilt" THEN gen[g] ELSE dead
      /\ gen' \in [Generations -> Generation]
      /\ UNCHANGED <<row, hits, durable, voided, overrun>>
  <2>1. /\ gen' = [g \in Generations |-> IF gen[g].start = "unbuilt" THEN gen[g] ELSE dead]
        /\ UNCHANGED <<row, hits, durable, voided, overrun>>
    BY DEF Crash
  <2>2. dead \in Generation
    BY UnbuiltLemma
  <2> HIDE DEF dead
  <2> QED  BY <2>1, <2>2, Known
<1>2. /\ dead.start = "dead" /\ dead.close = "none" /\ dead.life = "idle" /\ ~dead.late
      /\ ~dead.active /\ dead.counter = {} /\ dead.loaded = {}
      /\ dead.flush = NoFlush /\ dead.reset = NoReset
  BY DEF Unbuilt
<1> HIDE DEF dead
<1>3. ASSUME ~overrun PROVE Orderly'
  <2>1. TypeOK /\ Orderly /\ Store
    BY <1>3 DEF IInv, Orderly
  <2>2. Store'
    BY <1>1, <2>1 DEF Store
  <2>3. Local(dead) /\ Data(dead, durable', voided', hits')
    BY <1>2 DEF Local, Data, Over, Persisting, NoFlush, NoReset
  <2>4. ASSUME NEW g \in Generations
        PROVE  Local(gen'[g]) /\ Data(gen'[g], durable', voided', hits')
    <3>1. Local(gen[g]) /\ Data(gen[g], durable', voided', hits')
      BY <1>1, <2>1 DEF Orderly
    <3> QED  BY <1>1, <2>3, <3>1
  <2>5. \A g \in Generations : Busy(gen'[g]) => gen'[g] = gen[g]
    BY <1>1, <1>2 DEF Busy
  <2>6. \A p \in Generations : Over(gen[p]) => Over(gen'[p])
    BY <1>1, <1>2 DEF Over
  <2>7. Alone'
    <3> SUFFICES ASSUME NEW g \in Generations, Busy(gen'[g]), NEW p \in 1..(g - 1)
                 PROVE  Over(gen'[p])
      BY DEF Alone
    <3>1. p \in Generations
      BY PersistenceAssumption DEF Generations
    <3> QED  BY <2>1, <2>5, <2>6, <3>1 DEF Orderly, Alone
  <2>8. Handed'
    <3> SUFFICES ASSUME NEW g \in Generations, g > 1, gen'[g - 1].close = "saved"
                 PROVE  /\ Waiting(gen'[g]) => gen'[g - 1].drained \subseteq row'
                        /\ gen'[g].start = "restore" =>
                             gen'[g - 1].drained \subseteq gen'[g].loaded
      BY DEF Handed
    <3>1. g - 1 \in Generations
      BY PersistenceAssumption DEF Generations
    <3>2. gen'[g - 1] = gen[g - 1]
      BY <1>1, <1>2, <3>1
    <3>3. ~Waiting(dead) /\ dead.start # "restore"
      BY <1>2 DEF Waiting
    <3> QED  BY <1>1, <2>1, <3>2, <3>3 DEF Orderly, Handed
  <2> QED
    BY <2>2, <2>4, <2>7, <2>8 DEF Orderly
<1> QED
  BY <1>1, <1>3 DEF IInv, TypeOK

-------------------------------------------------------------------------------
(* The invariant and what follows from it *)

LEMMA InitInvariant == Init => IInv
<1> SUFFICES ASSUME Init PROVE IInv
  OBVIOUS
<1>1. \A g \in Generations : gen[g] = Unbuilt
  BY DEF Init
<1>2. TypeOK
  <2>1. gen \in [Generations -> Generation]
    BY UnbuiltLemma, Zenon DEF Init
  <2>2. hits \in 0..MaxHits
    BY PersistenceAssumption DEF Init
  <2>3. /\ row \in SUBSET Hits /\ durable \in SUBSET Hits /\ voided \in SUBSET Hits
        /\ overrun \in BOOLEAN
    BY DEF Init
  <2> QED  BY <2>1, <2>2, <2>3 DEF TypeOK
<1>3. ~Busy(Unbuilt) /\ Unbuilt.start # "restore" /\ Unbuilt.close # "saved"
  BY DEF Unbuilt, Busy
<1>4. Local(Unbuilt) /\ Data(Unbuilt, {}, {}, 0)
  BY DEF Unbuilt, Local, Data, Over, Persisting, NoFlush, NoReset
<1>5. \A g \in Generations : Local(gen[g]) /\ Data(gen[g], durable, voided, hits)
  BY <1>1, <1>4 DEF Init
<1>6. Alone /\ Store
  BY <1>1, <1>3 DEF Init, Alone, Store
<1>7. Handed
  <2> SUFFICES ASSUME NEW g \in Generations, g > 1 PROVE gen[g - 1].close # "saved"
    BY DEF Handed
  <2>1. g - 1 \in Generations
    BY PersistenceAssumption DEF Generations
  <2> QED  BY <1>1, <1>3, <2>1
<1> QED
  BY <1>2, <1>5, <1>6, <1>7 DEF IInv, Orderly

LEMMA StepInvariant == IInv /\ [Next]_vars => IInv'
<1> SUFFICES ASSUME IInv, [Next]_vars PROVE IInv'
  OBVIOUS
<1>1. ASSUME NEW g \in Generations,
             Build(g) \/ BeginStart(g) \/ Load(g) \/ LoadFails(g) \/ Restore(g)
      PROVE  IInv'
  BY <1>1, BuildInvariant, BeginStartInvariant, LoadInvariant, LoadFailsInvariant,
     RestoreInvariant
<1>2. ASSUME NEW g \in Generations,
             \/ Hit(g) \/ Snapshot(g) \/ Save(g) \/ SaveFails(g)
             \/ ClearMemory(g) \/ DeleteRow(g) \/ DeleteFails(g)
      PROVE  IInv'
  BY <1>2, HitInvariant, SnapshotInvariant, SaveInvariant, SaveFailsInvariant,
     ClearMemoryInvariant, DeleteRowInvariant, DeleteFailsInvariant
<1>3. ASSUME NEW g \in Generations,
             BeginShutdown(g) \/ Drained(g) \/ FinalSnapshot(g) \/ Overrun(g)
      PROVE  IInv'
  BY <1>3, BeginShutdownInvariant, DrainedInvariant, FinalSnapshotInvariant, OverrunInvariant
<1>4. CASE Crash
  BY <1>4, CrashInvariant
<1>5. CASE UNCHANGED vars
  BY <1>5 DEF vars, IInv, TypeOK, Orderly, Alone, Store, Handed
<1> QED
  BY <1>1, <1>2, <1>3, <1>4, <1>5 DEF Next

LEMMA Invariant == Spec => []IInv
<1>1. Init => IInv
  BY InitInvariant
<1>2. IInv /\ [Next]_vars => IInv'
  BY StepInvariant
<1> QED
  BY <1>1, <1>2, PTL DEF Spec

\* A reset that reported success holds across flushes, reloads and crashes
\* (ResetRule, persistDelete, flushCounters under persistMu).
THEOREM ResetsHold == Spec => []ResetHolds
<1>1. IInv => ResetHolds
  BY DEF IInv, Orderly, ResetHolds, Store, Data, Ended, Over
<1> QED
  BY <1>1, Invariant, PTL

\* No flush writes over a row with less than it holds (Start's restore before the
\* flush loop, a failed load that persists nothing).
THEOREM NothingIsOverwritten == Spec => []DurableStays
<1>1. IInv => DurableStays
  BY DEF IInv, Orderly, DurableStays, Store
<1> QED
  BY <1>1, Invariant, PTL

\* Serving and shutting down move the state of a generation to closed only.
LEMMA LifeLemma ==
  ASSUME TypeOK, NEW g \in Generations, NEW q \in Generations,
         \/ Hit(q) \/ Snapshot(q) \/ Save(q) \/ SaveFails(q)
         \/ ClearMemory(q) \/ DeleteRow(q) \/ DeleteFails(q)
         \/ BeginShutdown(q) \/ Drained(q) \/ FinalSnapshot(q) \/ Overrun(q)
  PROVE  gen'[g].life \in {gen[g].life, "closed"}
<1> USE DEF TypeOK, Generation
<1>1. CASE Hit(q)
  BY <1>1 DEF Hit
<1>2. CASE Snapshot(q)
  BY <1>2 DEF Snapshot
<1>3. CASE Save(q)
  BY <1>3 DEF Save
<1>4. CASE SaveFails(q)
  BY <1>4 DEF SaveFails
<1>5. CASE ClearMemory(q)
  BY <1>5 DEF ClearMemory
<1>6. CASE DeleteRow(q)
  BY <1>6 DEF DeleteRow
<1>7. CASE DeleteFails(q)
  BY <1>7 DEF DeleteFails
<1>8. CASE BeginShutdown(q)
  BY <1>8 DEF BeginShutdown
<1>9. CASE FinalSnapshot(q)
  BY <1>9 DEF FinalSnapshot
<1>10. CASE Drained(q)
  <2>1. PICK late \in BOOLEAN :
          gen' = [gen EXCEPT ![q].close = "closing", ![q].late = late,
                             ![q].life = "closed", ![q].active = (gen[q].life = "active"),
                             ![q].drained = gen[q].counter]
    BY <1>10 DEF Drained
  <2>2. CASE q = g
    <3>1. gen'[g] = [gen[g] EXCEPT !.close = "closing", !.late = late, !.life = "closed",
                                   !.active = (gen[g].life = "active"),
                                   !.drained = gen[g].counter]
      BY <2>1, <2>2
    <3> QED  BY <3>1
  <2>3. CASE q # g
    BY <2>1, <2>3
  <2> QED  BY <2>2, <2>3
<1>11. CASE Overrun(q)
  BY <1>11 DEF Overrun
<1> QED
  BY <1>1, <1>2, <1>3, <1>4, <1>5, <1>6, <1>7, <1>8, <1>9, <1>10, <1>11

\* Only Restore makes a generation active, with what its predecessor saved.
LEMMA StepHandsOver ==
  ASSUME IInv, [Next]_vars, NEW g \in Generations, g > 1,
         gen[g - 1].close = "saved", ~overrun,
         gen[g].life = "starting", gen'[g].life = "active"
  PROVE  gen[g - 1].drained \subseteq gen'[g].counter
<1>1. /\ TypeOK /\ Local(gen[g]) /\ gen[g] \in Generation
  BY DEF IInv, Orderly, TypeOK
<1>2. CASE Restore(g)
  <2>1. gen[g].start = "restore"
    BY <1>2 DEF Restore
  <2>2. gen[g - 1].drained \subseteq gen[g].loaded
    BY <2>1 DEF IInv, Orderly, Handed
  <2>3. gen'[g].counter = Restored(g)
    BY <1>1, <1>2 DEF Restore, Generation, TypeOK
  <2> QED  BY <2>2, <2>3 DEF Restored
<1>3. CASE ~Restore(g)
  <2>1. ASSUME NEW q \in Generations,
               \/ Build(q) \/ BeginStart(q) \/ Load(q) \/ LoadFails(q) \/ (q # g /\ Restore(q))
        PROVE  gen'[g].life # "active"
    BY <1>1, <2>1 DEF Build, BeginStart, Load, LoadFails, Restore, Generation, TypeOK
  <2>2. ASSUME NEW q \in Generations,
               \/ Hit(q) \/ Snapshot(q) \/ Save(q) \/ SaveFails(q)
               \/ ClearMemory(q) \/ DeleteRow(q) \/ DeleteFails(q)
        PROVE  gen'[g].life # "active"
    BY <1>1, <2>2, LifeLemma
  <2>3. ASSUME NEW q \in Generations,
               BeginShutdown(q) \/ Drained(q) \/ FinalSnapshot(q) \/ Overrun(q)
        PROVE  gen'[g].life # "active"
    BY <1>1, <2>3, LifeLemma
  <2>4. Crash => gen'[g].life # "active"
    BY DEF Crash, Unbuilt
  <2>5. UNCHANGED vars => gen'[g].life # "active"
    BY DEF vars
  <2> QED  BY <1>3, <2>1, <2>2, <2>3, <2>4, <2>5 DEF Next
<1> QED
  BY <1>2, <1>3

\* A reload loses nothing that was counted when the drain ended (Close's last flush,
\* Start's load after it).
THEOREM ReloadHandsOver == Spec => DrainedIsHandedOver
<1>1. IInv /\ [Next]_vars =>
        [\A g \in Generations :
           /\ g > 1 /\ gen[g - 1].close = "saved" /\ ~overrun
           /\ gen[g].life = "starting" /\ gen'[g].life = "active"
           => gen[g - 1].drained \subseteq gen'[g].counter]_vars
  BY StepHandsOver
<1> QED
  BY <1>1, Invariant, PTL DEF Spec, DrainedIsHandedOver

\* Every action that sets the state of a generation looks at it first.
LEMMA StepStaysClosed ==
  ASSUME IInv, [Next]_vars, NEW g \in Generations,
         gen[g].life = "closed", gen[g].start # "dead", gen'[g].start # "dead"
  PROVE  gen'[g].life = "closed" /\ (Restore(g) => UNCHANGED gen[g].counter)
<1>1. TypeOK /\ gen[g] \in Generation
  BY DEF IInv, TypeOK
<1>2. Restore(g) => UNCHANGED gen[g].counter
  BY <1>1 DEF Restore, Generation, TypeOK
<1>3. ASSUME NEW q \in Generations,
             Build(q) \/ BeginStart(q) \/ Load(q) \/ LoadFails(q) \/ Restore(q)
      PROVE  gen'[g].life = "closed"
  <2> USE DEF Generation, TypeOK
  <2>1. CASE Build(q) \/ Load(q)
    BY <1>1, <2>1 DEF Build, Load
  <2>2. CASE BeginStart(q)
    BY <1>1, <2>2 DEF BeginStart
  <2>3. CASE LoadFails(q)
    BY <1>1, <2>3 DEF LoadFails
  <2>4. CASE Restore(q)
    BY <1>1, <2>4 DEF Restore
  <2> QED  BY <1>3, <2>1, <2>2, <2>3, <2>4
<1>4. ASSUME NEW q \in Generations,
             \/ Hit(q) \/ Snapshot(q) \/ Save(q) \/ SaveFails(q)
             \/ ClearMemory(q) \/ DeleteRow(q) \/ DeleteFails(q)
      PROVE  gen'[g].life = "closed"
  BY <1>1, <1>4, LifeLemma
<1>5. ASSUME NEW q \in Generations,
             BeginShutdown(q) \/ Drained(q) \/ FinalSnapshot(q) \/ Overrun(q)
      PROVE  gen'[g].life = "closed"
  BY <1>1, <1>5, LifeLemma
<1>6. Crash => gen'[g].life = "closed"
  BY DEF Crash, Unbuilt
<1>7. UNCHANGED vars => gen'[g].life = "closed"
  BY DEF vars
<1> QED
  BY <1>2, <1>3, <1>4, <1>5, <1>6, <1>7 DEF Next

\* A Start that Close has overtaken restores nothing, with or without an overrun.
THEOREM ClosedForGood == Spec => ClosedStaysClosed
<1>1. IInv /\ [Next]_vars =>
        [\A g \in Generations :
           gen[g].life = "closed" /\ gen[g].start # "dead" /\ gen'[g].start # "dead" =>
             /\ gen'[g].life = "closed"
             /\ Restore(g) => UNCHANGED gen[g].counter]_vars
  BY StepStaysClosed
<1> QED
  BY <1>1, Invariant, PTL DEF Spec, ClosedStaysClosed
===============================================================================
