----------------------------- MODULE StickySessions -----------------------------
(* Session affinity of load-balanced virtual models (internal/virtualmodels):  *)
(* the table of pins (sticky.go) and the requests that look a pin up, choose a *)
(* target outside the lock and commit the choice (balancer.go).                *)
(*                                                                             *)
(* A request takes the pool of viable targets before it looks at the table.    *)
(* Time is the number of ticks a pin has left.  An empty pool and the failover *)
(* strategy use no affinity and never reach the table.  Which target a         *)
(* strategy or a selector names is left open; weights, costs and schedules     *)
(* only decide that.                                                           *)
EXTENDS Naturals, FiniteSets

CONSTANTS Sources, Sessions, Targets, Requests,
          Selecting,          \* sources whose strategy consults a selector
          MaxStickySessions,
          TTL,                \* stickySessionTTL, in ticks
          NoTarget

ASSUME TargetsAssumption == NoTarget \notin Targets
ASSUME TableAssumption == MaxStickySessions \in Nat \ {0} /\ TTL \in Nat \ {0}

VARIABLES pins,      \* the map: key -> [target, left]
          req,       \* the requests
          up,        \* targets that are supported and have capacity
          active,    \* sources of the current snapshot
          pruning    \* a Refresh has stored its snapshot and has yet to prune

vars == <<pins, req, up, active, pruning>>

Keys == Sources \X Sessions

NoPin    == [target |-> NoTarget, left |-> 0]
Fresh(t) == [target |-> t, left |-> TTL]

Held    == {k \in Keys : pins[k] # NoPin}
Live(k) == pins[k].left > 0     \* in the map and not expired

\* calm: no cause to move the session has come up since the request arrived.
\* followed: the request left on the target the table gave it.
Idle == [phase |-> "idle"]

Init == /\ pins = [k \in Keys |-> NoPin]
        /\ req = [r \in Requests |-> Idle]
        /\ up = Targets
        /\ active = Sources
        /\ pruning = FALSE

-------------------------------------------------------------------------------
(* The table, under its mutex *)

\* Mutant: the pin that was used last goes first.
LatestPins(table, kept) == {k \in kept : \A q \in kept : table[q].left <= table[k].left}

SoonestPins(table, kept) == {k \in kept : \A q \in kept : table[k].left <= table[q].left}

\* setLocked: an existing pin is overwritten in place; a new one first prunes the
\* expired ones and, at capacity, evicts the one that expires soonest.
Written(table, k, t) ==
  IF table[k] # NoPin
  THEN {[table EXCEPT ![k] = Fresh(t)]}
  ELSE LET kept == {q \in Keys : table[q].left > 0}
           Without(gone) == [q \in Keys |-> IF q = k THEN Fresh(t)
                                            ELSE IF q \in kept \ gone THEN table[q]
                                            ELSE NoPin]
       IN IF Cardinality(kept) < MaxStickySessions
          THEN {Without({})}
          ELSE {Without({q}) : q \in SoonestPins(table, kept)}

Refreshed(k) == [pins EXCEPT ![k].left = TTL]

\* Keys other than k whose live pin is gone after the step.
Evicted(k) == {q \in Keys \ {k} : Live(q) /\ pins'[q] = NoPin}

\* Request r is now in state s, and those of the given sessions have had a cause.
Step(r, s, caused) ==
  req' = [q \in Requests |->
            IF q = r THEN s
            ELSE IF req[q] # Idle /\ req[q].key \in caused THEN [req[q] EXCEPT !.calm = FALSE]
            ELSE req[q]]

Leave(r, t, followed, caused) ==
  Step(r, [phase |-> "left", key |-> req[r].key, on |-> t, followed |-> followed,
           calm |-> req[r].calm], caused)

-------------------------------------------------------------------------------
(* balancedResolution *)

\* The viable targets with capacity are computed first.
Arrive(r, k) ==
  /\ req[r] = Idle
  /\ k[1] \in active /\ up # {}
  /\ req' = [req EXCEPT ![r] = [phase |-> "arrived", key |-> k, pool |-> up,
                                pinned |-> NoTarget, calm |-> TRUE]]
  /\ UNCHANGED <<pins, up, active, pruning>>

\* lookup: an expired pin is deleted; one that is not viable now stays as it is.
Lookup(r) ==
  /\ req[r].phase = "arrived"
  /\ LET k == req[r].key IN
     IF Live(k) /\ pins[k].target \in req[r].pool
     THEN /\ pins' = Refreshed(k)
          /\ req' = [req EXCEPT ![r].phase = "choosing", ![r].pinned = pins[k].target]
     ELSE /\ pins' = IF Live(k) THEN pins ELSE [pins EXCEPT ![k] = NoPin]
          /\ req' = [req EXCEPT ![r].phase = "choosing"]
  /\ UNCHANGED <<up, active, pruning>>

\* Mutant: the pin is not compared with the one the decision was made against.
RepinUnobserved(r, chosen) ==
  /\ req[r].phase = "choosing" /\ req[r].key[1] \in Selecting
  /\ Cardinality(req[r].pool) > 1
  /\ pins' \in Written(pins, req[r].key, chosen)
  /\ Leave(r, chosen, TRUE, Evicted(req[r].key))
  /\ UNCHANGED <<up, active, pruning>>

\* The selector answers with a target of the pool.  The choice is committed against
\* the pin it was shown: a live pin that differs from it wins, and its target is
\* used if it is in the pool.  One that is no target of the pool is refreshed all
\* the same, and the request leaves on its own choice.
Repin(r, chosen) ==
  /\ req[r].phase = "choosing" /\ req[r].key[1] \in Selecting
  /\ Cardinality(req[r].pool) > 1
  /\ LET k == req[r].key
         other == Live(k) /\ pins[k].target # req[r].pinned
         moved == Live(k) /\ pins[k].target # chosen
     IN IF other
        THEN /\ pins' = Refreshed(k)
             /\ IF pins[k].target \in req[r].pool
                THEN Leave(r, pins[k].target, TRUE, {})
                ELSE Leave(r, chosen, FALSE, {})
        ELSE /\ pins' \in Written(pins, k, chosen)
             /\ Leave(r, chosen, TRUE, Evicted(k) \cup IF moved THEN {k} ELSE {})
  /\ UNCHANGED <<up, active, pruning>>

\* No selector, a pool of one target, or a selector that declines: the pin governs.
FollowPin(r) ==
  /\ req[r].phase = "choosing" /\ req[r].pinned # NoTarget
  /\ Leave(r, req[r].pinned, TRUE, {})
  /\ UNCHANGED <<pins, up, active, pruning>>

\* Mutant: the pin is not looked at again after the strategy has picked.
ResolveUnchecked(r, candidate) ==
  /\ req[r].phase = "choosing" /\ req[r].pinned = NoTarget
  /\ pins' \in Written(pins, req[r].key, candidate)
  /\ Leave(r, candidate, TRUE, Evicted(req[r].key))
  /\ UNCHANGED <<up, active, pruning>>

\* resolve: the strategy's pick is committed unless a viable pin has come up.
Resolve(r, candidate) ==
  /\ req[r].phase = "choosing" /\ req[r].pinned = NoTarget
  /\ LET k == req[r].key IN
     IF Live(k) /\ pins[k].target \in req[r].pool
     THEN /\ pins' = Refreshed(k)
          /\ Leave(r, pins[k].target, TRUE, {})
     ELSE /\ pins' \in Written([pins EXCEPT ![k] = NoPin], k, candidate)
          /\ Leave(r, candidate, TRUE, Evicted(k) \cup IF Live(k) THEN {k} ELSE {})
  /\ UNCHANGED <<up, active, pruning>>

Finish(r) ==
  /\ req[r] # Idle /\ req[r].phase = "left"
  /\ req' = [req EXCEPT ![r] = Idle]
  /\ UNCHANGED <<pins, up, active, pruning>>

-------------------------------------------------------------------------------
(* Around the requests *)

Caused(keys) ==
  req' = [r \in Requests |-> IF req[r] # Idle /\ req[r].key \in keys
                             THEN [req[r] EXCEPT !.calm = FALSE] ELSE req[r]]

\* Outages, saturation and recovery.
Vary == /\ up' \in SUBSET Targets \ {up}
        /\ UNCHANGED <<pins, req, active, pruning>>

Tick == /\ \E k \in Keys : Live(k)
        /\ pins' = [k \in Keys |-> IF Live(k) THEN [pins[k] EXCEPT !.left = @ - 1] ELSE pins[k]]
        /\ Caused({k \in Keys : pins[k].left = 1})
        /\ UNCHANGED <<up, active, pruning>>

\* Refresh, one at a time: the snapshot is swapped, then the table is pruned.
Swap == /\ ~pruning /\ pruning' = TRUE
        /\ active' \in SUBSET Sources
        /\ UNCHANGED <<pins, req, up>>

Prune == /\ pruning /\ pruning' = FALSE
         /\ LET gone == {k \in Keys : ~Live(k) \/ k[1] \notin active}
            IN /\ pins' = [k \in Keys |-> IF k \in gone THEN NoPin ELSE pins[k]]
               /\ Caused(gone)
         /\ UNCHANGED <<up, active>>

Decide(r) == \/ FollowPin(r)
             \/ \E t \in req[r].pool : Repin(r, t) \/ Resolve(r, t)

Next == \/ \E r \in Requests : \/ \E k \in Keys : Arrive(r, k)
                               \/ req[r] # Idle /\ (Lookup(r) \/ Finish(r))
                               \/ req[r] # Idle /\ req[r].phase = "choosing" /\ Decide(r)
        \/ Vary \/ Tick \/ Swap \/ Prune

Spec == Init /\ [][Next]_vars

-------------------------------------------------------------------------------
(* Properties *)

Left == {r \in Requests : req[r] # Idle /\ req[r].phase = "left"}

\* Requests of one session that the table answered leave on one target, whoever
\* looked first, unless meanwhile the pin expired, was evicted or pruned, was not
\* in the pool of another request of the session, or was moved by a selector that
\* was shown it.
LeaveTogether ==
  \A r, q \in Left : /\ req[r].key = req[q].key
                     /\ req[r].calm /\ req[q].calm
                     /\ req[r].followed /\ req[q].followed
                     => req[r].on = req[q].on

\* The table is bounded, and a live pin of a configured source is dropped only
\* for a new one, at capacity, and only if none that stays would expire sooner.
DropsSoonest ==
  [][/\ Cardinality(Held') <= MaxStickySessions
     /\ \A k \in Keys : Live(k) /\ pins'[k] = NoPin /\ ~(pruning /\ k[1] \notin active) =>
          /\ Cardinality({q \in Keys : Live(q)}) = MaxStickySessions
          /\ \E q \in Keys : ~Live(q) /\ Live(q)'
          /\ \A q \in Keys : Live(q) /\ Live(q)' => pins[k].left <= pins[q].left]_vars
===============================================================================
