------------------------- MODULE StickySessionsProofs -------------------------
(* Proofs about StickySessions, for any sources, sessions, targets and         *)
(* requests, any capacity and any time to live: the requests of a session      *)
(* leave together, the table is bounded, and only the pin that expires soonest *)
(* makes room.                                                                 *)
EXTENDS StickySessions, FiniteSetTheorems, TLAPS

Pin     == [target : Targets, left : 0..TTL]
Tables  == [Keys -> Pin \union {NoPin}]
Arrived == [phase : {"arrived"}, key : Keys, pool : SUBSET Targets,
            pinned : {NoTarget}, calm : BOOLEAN]
Choosing == [phase : {"choosing"}, key : Keys, pool : SUBSET Targets,
             pinned : Targets \union {NoTarget}, calm : BOOLEAN]
Gone    == [phase : {"left"}, key : Keys, on : Targets, followed : BOOLEAN, calm : BOOLEAN]
States  == {Idle} \union Arrived \union Choosing \union Gone

TypeOK == pins \in Tables /\ req \in [Requests -> States] /\ up \in SUBSET Targets

\* The live pin of a session in this table is this target.
Pinned(table, k, t) == table[k].left > 0 /\ table[k].target = t

\* What the table has told a request still stands: the target it has left on, or
\* the pin it is still deciding about.
Upheld(table, s) ==
  /\ s.phase = "left" /\ s.followed => Pinned(table, s.key, s.on)
  /\ s.phase = "choosing" /\ s.pinned # NoTarget => Pinned(table, s.key, s.pinned)

Stands == \A r \in Requests : req[r] # Idle /\ req[r].calm => Upheld(pins, req[r])

\* Keys that are in a table, and those with a live pin.
HeldIn(table) == {k \in Keys : table[k] # NoPin}
LiveIn(table) == {k \in Keys : table[k].left > 0}

Within(table) == IsFiniteSet(HeldIn(table)) /\ Cardinality(HeldIn(table)) <= MaxStickySessions

\* The inductive invariant: LeaveTogether follows from what stands, and the bound
\* makes a full table one in which every pin is live when one has to go.
IInv == TypeOK /\ Stands /\ Within(pins)

\* DropsSoonest, but for the bound.
Drops == \A k \in Keys : Live(k) /\ pins'[k] = NoPin /\ ~(pruning /\ k[1] \notin active) =>
           /\ Cardinality({q \in Keys : Live(q)}) = MaxStickySessions
           /\ \E q \in Keys : ~Live(q) /\ Live(q)'
           /\ \A q \in Keys : Live(q) /\ Live(q)' => pins[k].left <= pins[q].left

\* The live pins of the other sessions stay.
Keeps(caused) == \A k \in Keys \ caused, t \in Targets : Pinned(pins, k, t) => Pinned(pins', k, t)

-------------------------------------------------------------------------------
(* The table *)

LEMMA PinTypes ==
  /\ \A t \in Targets : Fresh(t) \in Pin /\ Fresh(t) # NoPin /\ Fresh(t).left > 0
                        /\ Fresh(t).target = t
  /\ NoPin.left = 0 /\ NoPin \notin Pin
  BY TargetsAssumption, TableAssumption DEF Pin, NoPin, Fresh

LEMMA PinLemma ==
  ASSUME NEW table \in Tables, NEW k \in Keys
  PROVE  /\ table[k].left \in Nat /\ table[k].left <= TTL
         /\ table[k].left > 0 => table[k] \in Pin /\ table[k] # NoPin /\ table[k].target \in Targets
<1>1. CASE table[k] = NoPin
  BY <1>1, TableAssumption DEF NoPin
<1>2. CASE table[k] \in Pin
  BY <1>2, PinTypes, TableAssumption DEF Pin
<1> QED  BY <1>1, <1>2 DEF Tables

LEMMA LiveHeld ==
  ASSUME NEW table \in Tables, Within(table)
  PROVE  /\ LiveIn(table) \subseteq HeldIn(table) /\ IsFiniteSet(LiveIn(table))
         /\ Cardinality(LiveIn(table)) \in Nat
         /\ Cardinality(LiveIn(table)) <= Cardinality(HeldIn(table))
         /\ Cardinality(HeldIn(table)) \in Nat
<1>1. LiveIn(table) \subseteq HeldIn(table)
  BY PinLemma DEF LiveIn, HeldIn
<1> QED  BY <1>1, FS_Subset, FS_CardinalityType DEF Within

\* setLocked writes the pin, may drop others, and keeps within the capacity.  It
\* drops a live pin only if the session is new and the live ones fill the table,
\* and then one that no pin that stays would outlive.
LEMMA WrittenLemma ==
  ASSUME NEW table \in Tables, Within(table), NEW k \in Keys, NEW t \in Targets,
         NEW after \in Written(table, k, t)
  PROVE  /\ after \in Tables /\ after[k] = Fresh(t)
         /\ \A q \in Keys \ {k} : after[q] = table[q] \/ after[q] = NoPin
         /\ Within(after)
         /\ \A d \in Keys \ {k} : table[d].left > 0 /\ after[d] = NoPin =>
              /\ table[k] = NoPin /\ Cardinality(LiveIn(table)) = MaxStickySessions
              /\ \A q \in Keys \ {k} : table[q].left > 0 /\ after[q].left > 0 =>
                   table[d].left <= table[q].left
<1>1. Fresh(t) \in Pin /\ Fresh(t) # NoPin
  BY PinTypes
<1>2. CASE table[k] # NoPin
  <2>1. after = [table EXCEPT ![k] = Fresh(t)]
    BY <1>2 DEF Written
  <2> HIDE DEF Fresh, NoPin
  <2>2. after \in Tables /\ after[k] = Fresh(t) /\ \A q \in Keys \ {k} : after[q] = table[q]
    BY <1>1, <2>1 DEF Tables
  <2>3. HeldIn(after) = HeldIn(table)
    BY <1>1, <1>2, <2>2 DEF HeldIn
  <2>4. \A d \in Keys \ {k} : ~(table[d].left > 0 /\ after[d] = NoPin)
    BY <2>2, PinLemma
  <2> QED  BY <2>2, <2>3, <2>4 DEF Within
<1>3. CASE table[k] = NoPin
  <2> DEFINE kept == LiveIn(table)
             Without(gone) == [q \in Keys |-> IF q = k THEN Fresh(t)
                                              ELSE IF q \in kept \ gone THEN table[q]
                                              ELSE NoPin]
  <2>1. k \notin kept /\ IsFiniteSet(kept) /\ Cardinality(kept) \in Nat
        /\ Cardinality(kept) <= MaxStickySessions /\ kept \subseteq Keys
    BY <1>3, LiveHeld, PinTypes, TableAssumption DEF Within, LiveIn
  <2>2. ASSUME NEW gone
        PROVE  /\ Without(gone) \in Tables /\ Without(gone)[k] = Fresh(t)
               /\ \A q \in Keys \ {k} : Without(gone)[q] = IF q \in kept \ gone THEN table[q] ELSE NoPin
               /\ HeldIn(Without(gone)) = (kept \ gone) \union {k}
    <3> HIDE DEF Fresh, NoPin, kept
    <3>1. Without(gone) \in Tables /\ Without(gone)[k] = Fresh(t)
          /\ \A q \in Keys \ {k} : Without(gone)[q] = IF q \in kept \ gone THEN table[q] ELSE NoPin
      BY <1>1 DEF Tables
    <3>2. \A q \in kept : q \in Keys /\ table[q] # NoPin
      BY PinLemma DEF kept, LiveIn
    <3> HIDE DEF Without
    <3>3. HeldIn(Without(gone)) = (kept \ gone) \union {k}
      BY <1>1, <3>1, <3>2 DEF HeldIn
    <3> QED  BY <3>1, <3>3
  <2>3. CASE Cardinality(kept) < MaxStickySessions
    <3>1. after = Without({})
      BY <1>3, <2>3 DEF Written, LiveIn
    <3> HIDE DEF Without, kept, NoPin, Fresh
    <3>2. HeldIn(after) = kept \union {k}
      BY <2>2, <3>1
    <3>3. Within(after)
      <4>1. IsFiniteSet(kept \union {k}) /\ Cardinality(kept \union {k}) = Cardinality(kept) + 1
        BY <2>1, FS_AddElement
      <4> QED  BY <2>1, <2>3, <3>2, <4>1, TableAssumption DEF Within
    <3>4. \A d \in Keys \ {k} : ~(table[d].left > 0 /\ after[d] = NoPin)
      BY <2>2, <3>1, PinLemma DEF kept, LiveIn
    <3> QED  BY <2>2, <3>1, <3>3, <3>4
  <2>4. CASE ~(Cardinality(kept) < MaxStickySessions)
    <3>1. PICK out \in SoonestPins(table, kept) : after = Without({out})
      BY <1>3, <2>4 DEF Written, LiveIn
    <3>2. out \in kept /\ \A q \in kept : table[out].left <= table[q].left
      BY <3>1 DEF SoonestPins
    <3>3. Cardinality(kept) = MaxStickySessions
      BY <2>1, <2>4, TableAssumption
    <3> HIDE DEF Without, kept, NoPin, Fresh
    <3>4. HeldIn(after) = (kept \ {out}) \union {k}
      BY <2>2, <3>1
    <3>5. Within(after)
      <4>1. IsFiniteSet(kept \ {out}) /\ Cardinality(kept \ {out}) = Cardinality(kept) - 1
        BY <2>1, <3>2, FS_RemoveElement
      <4>2. k \notin kept \ {out}
        BY <2>1
      <4>3. /\ IsFiniteSet((kept \ {out}) \union {k})
            /\ Cardinality((kept \ {out}) \union {k}) = Cardinality(kept \ {out}) + 1
        BY <4>1, <4>2, FS_AddElement
      <4> QED  BY <2>1, <3>3, <3>4, <4>1, <4>3 DEF Within
    <3>6. \A d \in Keys \ {k} : table[d].left > 0 /\ after[d] = NoPin => d = out
      BY <2>2, <3>1, PinLemma DEF kept, LiveIn
    <3>7. \A q \in Keys : table[q].left > 0 => q \in kept
      BY DEF kept, LiveIn
    <3> QED  BY <1>3, <2>2, <3>1, <3>2, <3>3, <3>5, <3>6, <3>7 DEF kept
  <2> QED  BY <2>3, <2>4
<1> QED  BY <1>2, <1>3

-------------------------------------------------------------------------------
(* The requests *)

LEMMA StateTypes ==
  ASSUME NEW s \in States, s # Idle
  PROVE  /\ s.key \in Keys /\ s.calm \in BOOLEAN
         /\ s \in Arrived \union Choosing \union Gone
         /\ [s EXCEPT !.calm = FALSE] \in Arrived \union Choosing \union Gone
         /\ ~[s EXCEPT !.calm = FALSE].calm
         /\ Idle \notin Arrived \union Choosing \union Gone
  BY DEF States, Arrived, Choosing, Gone, Idle

LEMMA UpheldKept ==
  ASSUME NEW s \in States, s # Idle, NEW table, NEW after, Upheld(table, s),
         \A t \in Targets : Pinned(table, s.key, t) => Pinned(after, s.key, t)
  PROVE  Upheld(after, s)
<1>1. CASE s \in Arrived
  BY <1>1 DEF Upheld, Arrived
<1>2. CASE s \in Choosing
  BY <1>2 DEF Upheld, Choosing
<1>3. CASE s \in Gone
  BY <1>3 DEF Upheld, Gone
<1> QED  BY <1>1, <1>2, <1>3, StateTypes

\* A request that does not move keeps what it was told, or has had a cause.
LEMMA OtherLemma ==
  ASSUME TypeOK, Stands, NEW q \in Requests, NEW caused, NEW s,
         s = IF req[q] # Idle /\ req[q].key \in caused THEN [req[q] EXCEPT !.calm = FALSE]
                                                      ELSE req[q],
         Keeps(caused)
  PROVE  s \in States /\ (s # Idle /\ s.calm => Upheld(pins', s))
<1>1. req[q] \in States
  BY DEF TypeOK
<1>2. CASE req[q] = Idle
  BY <1>1, <1>2
<1>3. CASE req[q] # Idle /\ req[q].key \in caused
  BY <1>1, <1>3, StateTypes DEF States
<1>4. CASE req[q] # Idle /\ req[q].key \notin caused
  <2>1. s = req[q] /\ s.key \in Keys \ caused
    BY <1>1, <1>4, StateTypes
  <2>2. ASSUME s.calm  PROVE Upheld(pins', s)
    <3>1. Upheld(pins, s)
      BY <1>4, <2>1, <2>2 DEF Stands
    <3> QED  BY <1>1, <1>4, <2>1, <3>1, UpheldKept DEF Keeps
  <2> QED  BY <1>1, <2>1, <2>2
<1> QED  BY <1>2, <1>3, <1>4

LEMMA StepStands ==
  ASSUME TypeOK, Stands, NEW r \in Requests, NEW s \in Arrived \union Choosing \union Gone, NEW caused,
         Step(r, s, caused), s.calm => Upheld(pins', s),
         Keeps(caused)
  PROVE  req' \in [Requests -> States] /\ Stands'
<1>1. req'[r] = s /\ s \in States
  BY DEF Step, States
<1>2. ASSUME NEW q \in Requests, q # r
      PROVE  req'[q] \in States /\ (req'[q] # Idle /\ req'[q].calm => Upheld(pins', req'[q]))
  <2>1. req'[q] = IF req[q] # Idle /\ req[q].key \in caused
                  THEN [req[q] EXCEPT !.calm = FALSE] ELSE req[q]
    BY <1>2 DEF Step
  <2> QED  BY <2>1, OtherLemma
<1>3. \A q \in Requests : req'[q] \in States
  BY <1>1, <1>2
<1>4. req' \in [Requests -> States]
  BY <1>3 DEF Step
<1> QED  BY <1>1, <1>2, <1>4 DEF Stands

LEMMA CausedStands ==
  ASSUME TypeOK, Stands, NEW caused, Caused(caused),
         Keeps(caused)
  PROVE  req' \in [Requests -> States] /\ Stands'
<1>1. ASSUME NEW q \in Requests
      PROVE  req'[q] \in States /\ (req'[q] # Idle /\ req'[q].calm => Upheld(pins', req'[q]))
  <2>1. req'[q] = IF req[q] # Idle /\ req[q].key \in caused
                  THEN [req[q] EXCEPT !.calm = FALSE] ELSE req[q]
    BY DEF Caused
  <2> QED  BY <2>1, OtherLemma
<1>2. req' \in [Requests -> States]
  BY <1>1 DEF Caused
<1> QED  BY <1>1, <1>2 DEF Stands

LEMMA ExceptStep ==
  ASSUME TypeOK, NEW r \in Requests, NEW s, req' = [req EXCEPT ![r] = s]
  PROVE  Step(r, s, {})
  BY DEF TypeOK, Step

LEMMA ChoosingTypes ==
  ASSUME TypeOK, NEW r \in Requests, req[r] # Idle, req[r].phase = "choosing"
  PROVE  req[r] \in Choosing /\ req[r].key \in Keys /\ req[r].pool \subseteq Targets
  BY DEF TypeOK, States, Arrived, Choosing, Gone

-------------------------------------------------------------------------------
(* What a step does to the table *)

LEMMA KeepsDrops ==
  ASSUME TypeOK, Keeps({})
  PROVE  Drops
<1> SUFFICES ASSUME NEW k \in Keys, Live(k)  PROVE pins'[k] # NoPin
  BY DEF Drops
<1>1. pins[k].target \in Targets
  BY PinLemma DEF TypeOK, Live
<1>2. Pinned(pins', k, pins[k].target)
  BY <1>1 DEF Keeps, Pinned, Live
<1> QED  BY <1>2, PinTypes DEF Pinned

LEMMA Smaller ==
  ASSUME NEW table, NEW after, Within(table), HeldIn(after) \subseteq HeldIn(table)
  PROVE  Within(after)
<1>1. IsFiniteSet(HeldIn(after)) /\ Cardinality(HeldIn(after)) <= Cardinality(HeldIn(table))
  BY FS_Subset DEF Within
<1>2. Cardinality(HeldIn(after)) \in Nat /\ Cardinality(HeldIn(table)) \in Nat
  BY <1>1, FS_CardinalityType DEF Within
<1> QED  BY <1>1, <1>2, TableAssumption DEF Within

LEMMA SameTable ==
  ASSUME IInv, pins' = pins
  PROVE  pins' \in Tables /\ Within(pins') /\ Keeps({})
  BY DEF IInv, TypeOK, Keeps

LEMMA RefreshLemma ==
  ASSUME IInv, NEW k \in Keys, Live(k), pins' = Refreshed(k)
  PROVE  pins' \in Tables /\ Within(pins') /\ Keeps({})
         /\ Pinned(pins', k, pins[k].target) /\ pins[k].target \in Targets
<1>1. pins[k] \in Pin /\ pins[k] # NoPin /\ pins \in Tables
  BY PinLemma DEF IInv, TypeOK, Live
<1>2. pins' = [pins EXCEPT ![k] = [pins[k] EXCEPT !.left = TTL]]
  BY DEF Refreshed
<1>3. /\ [pins[k] EXCEPT !.left = TTL] \in Pin
      /\ [pins[k] EXCEPT !.left = TTL].target = pins[k].target
      /\ [pins[k] EXCEPT !.left = TTL].left > 0
  BY <1>1, TableAssumption DEF Pin
<1>4. pins' \in Tables /\ pins'[k] = [pins[k] EXCEPT !.left = TTL]
      /\ \A q \in Keys \ {k} : pins'[q] = pins[q]
  BY <1>1, <1>2, <1>3 DEF Tables
<1>5. HeldIn(pins') \subseteq HeldIn(pins)
  BY <1>1, <1>4 DEF HeldIn
<1>6. Within(pins')
  BY <1>5, Smaller DEF IInv
<1>7. Keeps({})
  BY <1>3, <1>4 DEF Keeps, Pinned
<1> QED  BY <1>1, <1>3, <1>4, <1>6, <1>7 DEF Pinned, Pin

LEMMA ForgetLemma ==
  ASSUME IInv, NEW k \in Keys
  PROVE  LET table == [pins EXCEPT ![k] = NoPin] IN
         /\ table \in Tables /\ Within(table) /\ table[k] = NoPin
         /\ \A q \in Keys \ {k} : table[q] = pins[q]
<1> DEFINE table == [pins EXCEPT ![k] = NoPin]
<1>1. table \in Tables /\ table[k] = NoPin /\ \A q \in Keys \ {k} : table[q] = pins[q]
  BY DEF IInv, TypeOK, Tables
<1>2. HeldIn(table) \subseteq HeldIn(pins)
  BY <1>1 DEF HeldIn
<1> QED  BY <1>1, <1>2, Smaller DEF IInv

\* A commit pins the session; the others keep their pins unless evicted, and one
\* goes only if the table holds as many live pins as it may.
LEMMA WriteLemma ==
  ASSUME IInv, NEW k \in Keys, NEW t \in Targets,
         NEW table \in {pins, [pins EXCEPT ![k] = NoPin]}, pins' \in Written(table, k, t)
  PROVE  /\ pins' \in Tables /\ Within(pins') /\ Pinned(pins', k, t) /\ Drops
         /\ Keeps({k} \union Evicted(k))
<1>1. /\ table \in Tables /\ Within(table)
      /\ \A q \in Keys \ {k} : table[q] = pins[q]
      /\ table = pins \/ table[k] = NoPin
  BY ForgetLemma DEF IInv, TypeOK
<1>2. /\ pins' \in Tables /\ pins'[k] = Fresh(t) /\ Within(pins')
      /\ \A q \in Keys \ {k} : pins'[q] = pins[q] \/ pins'[q] = NoPin
  BY <1>1, WrittenLemma
<1>3. Pinned(pins', k, t)
  BY <1>2, PinTypes DEF Pinned
<1>4. Keeps({k} \union Evicted(k))
  BY <1>2 DEF Keeps, Pinned, Evicted, Live
<1>5. Drops
  <2> SUFFICES ASSUME NEW d \in Keys, Live(d), pins'[d] = NoPin
               PROVE  /\ Cardinality({q \in Keys : Live(q)}) = MaxStickySessions
                      /\ \E q \in Keys : ~Live(q) /\ Live(q)'
                      /\ \A q \in Keys : Live(q) /\ Live(q)' => pins[d].left <= pins[q].left
    BY DEF Drops
  <2>1. d \in Keys \ {k} /\ table[d].left > 0
    BY <1>1, <1>2, PinTypes DEF Live
  <2>2. /\ table[k] = NoPin /\ Cardinality(LiveIn(table)) = MaxStickySessions
        /\ \A q \in Keys \ {k} : table[q].left > 0 /\ pins'[q].left > 0 =>
             table[d].left <= table[q].left
    BY <1>1, <2>1, WrittenLemma
  <2>3. pins[k] = NoPin
    <3> SUFFICES ASSUME pins[k] # NoPin  PROVE FALSE
      OBVIOUS
    <3>1. IsFiniteSet(HeldIn(pins)) /\ Cardinality(HeldIn(pins)) <= MaxStickySessions
          /\ k \in HeldIn(pins)
      BY DEF IInv, Within, HeldIn
    <3>2. LiveIn(table) \subseteq HeldIn(pins) \ {k}
      BY <1>1, <2>2, PinTypes, PinLemma DEF LiveIn, HeldIn
    <3>3. /\ IsFiniteSet(HeldIn(pins) \ {k})
          /\ Cardinality(HeldIn(pins) \ {k}) = Cardinality(HeldIn(pins)) - 1
      BY <3>1, FS_RemoveElement
    <3>4. Cardinality(LiveIn(table)) <= Cardinality(HeldIn(pins) \ {k})
      BY <3>2, <3>3, FS_Subset
    <3> QED  BY <2>2, <3>1, <3>3, <3>4, FS_CardinalityType, TableAssumption
  <2>4. LiveIn(table) = {q \in Keys : Live(q)} /\ ~Live(k)
    BY <1>1, <2>2, <2>3, PinTypes DEF LiveIn, Live
  <2>5. Live(k)'
    BY <1>2, PinTypes DEF Live
  <2>6. \A q \in Keys : Live(q) /\ Live(q)' => pins[d].left <= pins[q].left
    BY <1>1, <2>1, <2>2, <2>4 DEF Live
  <2> QED  BY <2>2, <2>4, <2>5, <2>6
<1> QED  BY <1>2, <1>3, <1>4, <1>5

-------------------------------------------------------------------------------
(* The steps *)

\* What every step is shown to do.
Goal == IInv' /\ Drops

LEMMA StepGoal ==
  ASSUME IInv, NEW r \in Requests, NEW s \in Arrived \union Choosing \union Gone, NEW caused,
         Step(r, s, caused), s.calm => Upheld(pins', s), Keeps(caused), Drops,
         pins' \in Tables, Within(pins'), UNCHANGED up
  PROVE  Goal
<1>1. req' \in [Requests -> States] /\ Stands'
  BY StepStands DEF IInv
<1> QED  BY <1>1 DEF Goal, IInv, TypeOK, Within, HeldIn

LEMMA ArriveStep == ASSUME IInv, NEW r \in Requests, NEW k \in Keys, Arrive(r, k)  PROVE Goal
<1> DEFINE s == [phase |-> "arrived", key |-> k, pool |-> up, pinned |-> NoTarget, calm |-> TRUE]
<1>1. s \in Arrived /\ Upheld(pins', s)
  BY DEF Arrived, Upheld, IInv, TypeOK
<1>2. Step(r, s, {})
  BY ExceptStep DEF Arrive, IInv
<1> QED  BY <1>1, <1>2, SameTable, KeepsDrops, StepGoal DEF Arrive, IInv

LEMMA LookupStep == ASSUME IInv, NEW r \in Requests, req[r] # Idle, Lookup(r)  PROVE Goal
<1> DEFINE k == req[r].key
<1>1. req[r] \in Arrived /\ k \in Keys
  BY DEF Lookup, IInv, TypeOK, States, Choosing, Gone, Arrived
<1>2. CASE Live(k) /\ pins[k].target \in req[r].pool
  <2> DEFINE s == [req[r] EXCEPT !.phase = "choosing", !.pinned = pins[k].target]
  <2>1. pins' = Refreshed(k) /\ req' = [req EXCEPT ![r] = s] /\ UNCHANGED up
    BY <1>2 DEF Lookup, IInv, TypeOK
  <2>2. /\ pins' \in Tables /\ Within(pins') /\ Keeps({})
        /\ Pinned(pins', k, pins[k].target) /\ pins[k].target \in Targets
    BY <1>1, <1>2, <2>1, RefreshLemma
  <2>3. s \in Choosing /\ s.phase = "choosing" /\ s.key = k /\ s.pinned = pins[k].target
    BY <1>1, <2>2 DEF Arrived, Choosing
  <2>4. Upheld(pins', s)
    BY <2>2, <2>3 DEF Upheld
  <2>5. Step(r, s, {})
    BY <2>1, ExceptStep DEF IInv
  <2> QED  BY <2>1, <2>2, <2>3, <2>4, <2>5, KeepsDrops, StepGoal DEF IInv
<1>3. CASE ~(Live(k) /\ pins[k].target \in req[r].pool)
  <2> DEFINE s == [req[r] EXCEPT !.phase = "choosing"]
  <2>1. /\ pins' = IF Live(k) THEN pins ELSE [pins EXCEPT ![k] = NoPin]
        /\ req' = [req EXCEPT ![r] = s] /\ UNCHANGED up
    BY <1>3 DEF Lookup, IInv, TypeOK
  <2>2. pins' \in Tables /\ Within(pins') /\ Keeps({})
    BY <1>1, <2>1, SameTable, ForgetLemma DEF Keeps, Pinned, Live
  <2>3. s \in Choosing /\ s.phase = "choosing" /\ s.pinned = NoTarget
    BY <1>1 DEF Arrived, Choosing
  <2>4. Upheld(pins', s)
    BY <2>3 DEF Upheld
  <2>5. Step(r, s, {})
    BY <2>1, ExceptStep DEF IInv
  <2> QED  BY <2>1, <2>2, <2>3, <2>4, <2>5, KeepsDrops, StepGoal DEF IInv
<1> QED  BY <1>2, <1>3

\* A request leaves on a target the table pins after the step, or on one the table
\* did not give it.
LEMMA LeaveGoal ==
  ASSUME IInv, NEW r \in Requests, req[r] # Idle, req[r].phase = "choosing",
         NEW t \in Targets, NEW followed \in BOOLEAN, NEW caused, Leave(r, t, followed, caused),
         req[r].calm /\ followed => Pinned(pins', req[r].key, t), Keeps(caused), Drops,
         pins' \in Tables, Within(pins'), UNCHANGED up
  PROVE  Goal
<1> DEFINE s == [phase |-> "left", key |-> req[r].key, on |-> t, followed |-> followed,
                 calm |-> req[r].calm]
<1>1. req[r] \in Choosing
  BY ChoosingTypes DEF IInv
<1>2. s \in Gone /\ (s.calm => Upheld(pins', s))
  BY <1>1 DEF Choosing, Gone, Upheld
<1>3. Step(r, s, caused)
  BY DEF Leave
<1> HIDE DEF s
<1> QED  BY <1>2, <1>3, StepGoal

LEMMA FollowPinStep ==
  ASSUME IInv, NEW r \in Requests, req[r] # Idle, FollowPin(r)  PROVE Goal
<1>1. req[r] \in Choosing /\ req[r].phase = "choosing" /\ req[r].pinned \in Targets
  BY ChoosingTypes DEF FollowPin, IInv, Choosing
<1>2. pins' \in Tables /\ Within(pins') /\ Keeps({}) /\ Drops
  BY SameTable, KeepsDrops DEF FollowPin, IInv
<1>3. req[r].calm => Pinned(pins', req[r].key, req[r].pinned)
  BY <1>1 DEF FollowPin, IInv, Stands, Upheld
<1> QED  BY <1>1, <1>2, <1>3, LeaveGoal DEF FollowPin

LEMMA RepinStep ==
  ASSUME IInv, NEW r \in Requests, req[r] # Idle, NEW chosen \in req[r].pool, Repin(r, chosen)
  PROVE  Goal
<1> DEFINE k == req[r].key
           other == Live(k) /\ pins[k].target # req[r].pinned
           moved == Live(k) /\ pins[k].target # chosen
<1>1. req[r].phase = "choosing" /\ k \in Keys /\ chosen \in Targets /\ UNCHANGED up
  BY ChoosingTypes DEF Repin, IInv
<1>2. CASE other
  <2>1. /\ pins' = Refreshed(k)
        /\ IF pins[k].target \in req[r].pool
           THEN Leave(r, pins[k].target, TRUE, {})
           ELSE Leave(r, chosen, FALSE, {})
    BY <1>2 DEF Repin
  <2>2. /\ pins' \in Tables /\ Within(pins') /\ Keeps({}) /\ Drops
        /\ Pinned(pins', k, pins[k].target) /\ pins[k].target \in Targets
    BY <1>1, <1>2, <2>1, RefreshLemma, KeepsDrops DEF IInv
  <2>3. CASE pins[k].target \in req[r].pool
    BY <1>1, <2>1, <2>2, <2>3, LeaveGoal
  <2>4. CASE pins[k].target \notin req[r].pool
    BY <1>1, <2>1, <2>2, <2>4, LeaveGoal
  <2> QED  BY <2>3, <2>4
<1>3. CASE ~other
  <2> DEFINE caused == Evicted(k) \cup IF moved THEN {k} ELSE {}
  <2>1. pins' \in Written(pins, k, chosen) /\ Leave(r, chosen, TRUE, caused)
    BY <1>3 DEF Repin
  <2>2. /\ pins' \in Tables /\ Within(pins') /\ Pinned(pins', k, chosen) /\ Drops
        /\ Keeps({k} \union Evicted(k))
    BY <1>1, <2>1, WriteLemma
  <2>3. Keeps(caused)
    BY <2>2 DEF Keeps, Pinned, Live
  <2> HIDE DEF caused
  <2> QED  BY <1>1, <2>1, <2>2, <2>3, LeaveGoal
<1> QED  BY <1>2, <1>3

LEMMA ResolveStep ==
  ASSUME IInv, NEW r \in Requests, req[r] # Idle, NEW t \in req[r].pool, Resolve(r, t)
  PROVE  Goal
<1> DEFINE k == req[r].key
<1>1. req[r].phase = "choosing" /\ k \in Keys /\ t \in Targets /\ UNCHANGED up
  BY ChoosingTypes DEF Resolve, IInv
<1>2. CASE Live(k) /\ pins[k].target \in req[r].pool
  <2>1. pins' = Refreshed(k) /\ Leave(r, pins[k].target, TRUE, {})
    BY <1>2 DEF Resolve
  <2>2. /\ pins' \in Tables /\ Within(pins') /\ Keeps({}) /\ Drops
        /\ Pinned(pins', k, pins[k].target) /\ pins[k].target \in Targets
    BY <1>1, <1>2, <2>1, RefreshLemma, KeepsDrops DEF IInv
  <2> QED  BY <1>1, <2>1, <2>2, LeaveGoal
<1>3. CASE ~(Live(k) /\ pins[k].target \in req[r].pool)
  <2> DEFINE caused == Evicted(k) \cup IF Live(k) THEN {k} ELSE {}
  <2>1. pins' \in Written([pins EXCEPT ![k] = NoPin], k, t) /\ Leave(r, t, TRUE, caused)
    BY <1>3 DEF Resolve
  <2>2. /\ pins' \in Tables /\ Within(pins') /\ Pinned(pins', k, t) /\ Drops
        /\ Keeps({k} \union Evicted(k))
    BY <1>1, <2>1, WriteLemma
  <2>3. Keeps(caused)
    BY <2>2 DEF Keeps, Pinned, Live
  <2> HIDE DEF caused
  <2> QED  BY <1>1, <2>1, <2>2, <2>3, LeaveGoal
<1> QED  BY <1>2, <1>3

LEMMA FinishStep == ASSUME IInv, NEW r \in Requests, req[r] # Idle, Finish(r)  PROVE Goal
<1>1. pins' \in Tables /\ Within(pins') /\ Keeps({}) /\ Drops
  BY SameTable, KeepsDrops DEF Finish, IInv
<1>2. req' = [req EXCEPT ![r] = Idle] /\ pins' = pins /\ UNCHANGED up
  BY DEF Finish
<1>3. req' \in [Requests -> States] /\ req'[r] = Idle
      /\ \A q \in Requests \ {r} : req'[q] = req[q]
  BY <1>2 DEF IInv, TypeOK, States
<1>4. Stands'
  BY <1>2, <1>3 DEF Stands, IInv, Upheld, Pinned
<1> QED  BY <1>1, <1>2, <1>3, <1>4 DEF Goal, IInv, TypeOK, Within, HeldIn

LEMMA CausedGoal ==
  ASSUME IInv, NEW caused, Caused(caused), Keeps(caused), Drops,
         pins' \in Tables, Within(pins'), UNCHANGED up
  PROVE  Goal
<1>1. req' \in [Requests -> States] /\ Stands'
  BY CausedStands DEF IInv
<1> QED  BY <1>1 DEF Goal, IInv, TypeOK, Within, HeldIn

LEMMA TickStep == ASSUME IInv, Tick  PROVE Goal
<1> DEFINE older(k) == [pins[k] EXCEPT !.left = @ - 1]
           caused == {k \in Keys : pins[k].left = 1}
<1>1. pins' = [k \in Keys |-> IF Live(k) THEN older(k) ELSE pins[k]] /\ Caused(caused) /\ UNCHANGED up
  BY DEF Tick
<1>2. ASSUME NEW k \in Keys, Live(k)
      PROVE  /\ older(k) \in Pin /\ older(k) # NoPin /\ pins[k] # NoPin
             /\ older(k).target = pins[k].target /\ older(k).left = pins[k].left - 1
  <2>1. pins[k] \in Pin /\ pins[k] # NoPin /\ pins[k].left > 0
    BY <1>2, PinLemma DEF IInv, TypeOK, Live
  <2>2. older(k) \in Pin /\ older(k).target = pins[k].target /\ older(k).left = pins[k].left - 1
    BY <2>1, TableAssumption DEF Pin
  <2> QED  BY <2>1, <2>2, PinTypes
<1> HIDE DEF older
<1>3. pins' \in Tables /\ \A k \in Keys : pins'[k] = IF Live(k) THEN older(k) ELSE pins[k]
  BY <1>1, <1>2 DEF IInv, TypeOK, Tables
<1>4. HeldIn(pins') \subseteq HeldIn(pins)
  BY <1>2, <1>3 DEF HeldIn
<1>5. Within(pins')
  BY <1>4, Smaller DEF IInv
<1>6. Drops
  BY <1>2, <1>3 DEF Drops
<1>7. Keeps(caused)
  <2> SUFFICES ASSUME NEW k \in Keys, pins[k].left # 1, NEW t \in Targets, Pinned(pins, k, t)
               PROVE  Pinned(pins', k, t)
    BY DEF Keeps
  <2>1. pins[k].left \in Nat /\ Live(k) /\ pins[k].target = t
    BY PinLemma DEF IInv, TypeOK, Pinned, Live
  <2> QED  BY <1>2, <1>3, <2>1 DEF Pinned, Live
<1> HIDE DEF caused
<1> QED  BY <1>1, <1>3, <1>5, <1>6, <1>7, CausedGoal

LEMMA PruneStep == ASSUME IInv, Prune  PROVE Goal
<1> DEFINE gone == {k \in Keys : ~Live(k) \/ k[1] \notin active}
<1>1. /\ pruning /\ pins' = [k \in Keys |-> IF k \in gone THEN NoPin ELSE pins[k]]
      /\ Caused(gone) /\ UNCHANGED up
  BY DEF Prune
<1>2. pins' \in Tables /\ \A k \in Keys : pins'[k] = IF k \in gone THEN NoPin ELSE pins[k]
  BY <1>1 DEF IInv, TypeOK, Tables
<1>3. HeldIn(pins') \subseteq HeldIn(pins)
  BY <1>2 DEF HeldIn
<1>4. Within(pins')
  BY <1>3, Smaller DEF IInv
<1>5. Keeps(gone)
  BY <1>2 DEF Keeps, Pinned
<1>6. Drops
  <2> SUFFICES ASSUME NEW k \in Keys, Live(k), pins'[k] = NoPin, ~(pruning /\ k[1] \notin active)
               PROVE  FALSE
    BY DEF Drops
  <2>1. pins[k] # NoPin
    BY PinLemma DEF IInv, TypeOK, Live
  <2> QED  BY <1>1, <1>2, <2>1
<1> HIDE DEF gone
<1> QED  BY <1>1, <1>2, <1>4, <1>5, <1>6, CausedGoal

LEMMA OutsideStep == ASSUME IInv, Vary \/ Swap \/ UNCHANGED vars  PROVE Goal
<1>1. UNCHANGED <<pins, req>> /\ up' \in SUBSET Targets
  BY DEF Vary, Swap, vars, IInv, TypeOK
<1>2. Drops
  BY <1>1, SameTable, KeepsDrops DEF IInv
<1>3. TypeOK'
  BY <1>1 DEF IInv, TypeOK
<1>4. Stands'
  BY <1>1 DEF IInv, Stands, Upheld, Pinned
<1>5. Within(pins)'
  BY <1>1 DEF IInv, Within, HeldIn
<1> QED  BY <1>2, <1>3, <1>4, <1>5 DEF Goal, IInv

LEMMA NextGoal == ASSUME IInv, [Next]_vars  PROVE Goal
<1>1. ASSUME NEW r \in Requests, NEW k \in Keys, Arrive(r, k)  PROVE Goal
  BY <1>1, ArriveStep
<1>2. ASSUME NEW r \in Requests, req[r] # Idle, Lookup(r) \/ Finish(r)  PROVE Goal
  BY <1>2, LookupStep, FinishStep
<1>3. ASSUME NEW r \in Requests, req[r] # Idle, Decide(r)  PROVE Goal
  BY <1>3, FollowPinStep, RepinStep, ResolveStep DEF Decide
<1> QED  BY <1>1, <1>2, <1>3, TickStep, PruneStep, OutsideStep DEF Next

LEMMA InitIInv == Init => IInv
<1> SUFFICES ASSUME Init  PROVE IInv
  OBVIOUS
<1>1. TypeOK
  BY DEF Init, TypeOK, Tables, States
<1>2. Stands
  BY DEF Init, Stands
<1>3. HeldIn(pins) = {}
  BY DEF Init, HeldIn
<1>4. Within(pins)
  BY <1>3, FS_EmptySet, TableAssumption DEF Within
<1> QED  BY <1>1, <1>2, <1>4 DEF IInv

-------------------------------------------------------------------------------
(* The theorems *)

\* What the table has told a request stays true until the request has had a cause
\* (its pin expired, was evicted, pruned or moved by a selector), and the table
\* keeps within its capacity.
THEOREM Invariance == Spec => []IInv
<1>1. IInv /\ [Next]_vars => IInv'
  BY NextGoal DEF Goal
<1> QED  BY InitIInv, <1>1, PTL DEF Spec

\* Requests of one session that the table answered leave on one target: commit and
\* resolve look at the pin again under the lock, so both are on the session's pin.
THEOREM Together == Spec => []LeaveTogether
<1>1. IInv => LeaveTogether
  <2> SUFFICES ASSUME IInv, NEW r \in Left, NEW q \in Left, req[r].key = req[q].key,
                      req[r].calm, req[q].calm, req[r].followed, req[q].followed
               PROVE  req[r].on = req[q].on
    BY DEF LeaveTogether
  <2>1. Upheld(pins, req[r]) /\ Upheld(pins, req[q])
    BY DEF IInv, Stands, Left
  <2> QED  BY <2>1 DEF Upheld, Pinned, Left
<1> QED  BY Invariance, <1>1, PTL

\* The table never holds more pins than its capacity, and setLocked drops a live
\* one only for a new session, when the live ones fill the table, and then the one
\* that expires soonest.
THEOREM Soonest == Spec => DropsSoonest
<1> DEFINE Step1 == /\ Cardinality(Held') <= MaxStickySessions
                    /\ \A k \in Keys : Live(k) /\ pins'[k] = NoPin /\ ~(pruning /\ k[1] \notin active) =>
                         /\ Cardinality({q \in Keys : Live(q)}) = MaxStickySessions
                         /\ \E q \in Keys : ~Live(q) /\ Live(q)'
                         /\ \A q \in Keys : Live(q) /\ Live(q)' => pins[k].left <= pins[q].left
<1>1. IInv /\ [Next]_vars => [Step1]_vars
  <2> SUFFICES ASSUME IInv, [Next]_vars  PROVE Step1
    OBVIOUS
  <2>1. IInv' /\ Drops
    BY NextGoal DEF Goal
  <2>2. Cardinality(Held') <= MaxStickySessions
    BY <2>1 DEF IInv, Within, HeldIn, Held
  <2> QED  BY <2>1, <2>2 DEF Drops
<1> QED  BY Invariance, <1>1, PTL DEF Spec, DropsSoonest
===============================================================================
